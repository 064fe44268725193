--------------------------- MODULE StreamProofs ---------------------------
(* Theorems of ResponseStream, for any number of calls, fragments and blocks, *)
(* and of EventStream, for any frames, chunks and corrupted lengths.          *)
EXTENDS ResponseStream, EventStream, SequenceTheorems, FiniteSetTheorems, TLAPS

-----------------------------------------------------------------------------
(* Tool calls: what the pending tool and the calls collected have to do with  *)
(* the calls the upstream has made.  Stated of any calls cs collected of any  *)
(* calls sd made, so that a handler's step can be taken apart.                *)

Said == [name : Names \cup {NoName}, parts : Seq(Part), open : BOOLEAN, over : BOOLEAN]

Call == [id : 1..MaxCalls, name : Names, parts : Seq(Part), index : 0..(MaxCalls - 1)]

\* cd are the calls of sd, and the upstream has gone on from all of them.
ClosedOf(sd, cd) == /\ Len(cd) = Len(sd)
                    /\ \A n \in 1..Len(sd) : /\ cd[n].name = sd[n].name
                                             /\ cd[n].parts = sd[n].parts
                                             /\ cd[n].over = sd[n].over
                                             /\ ~cd[n].open

SwallowedIn(sd, n) == n < Len(sd) /\ sd[n + 1].over /\ sd[n + 1].name # NoName

\* Only the last call can be open, and then it is the pending tool, grown as far.
PendingOK(sd, tool) ==
    /\ \A n \in 1..Len(sd) : /\ sd[n].open => n = Len(sd) /\ tool # NoTool
                             /\ sd[n].over => ~sd[n].open
    /\ tool # NoTool =>
          /\ Len(sd) > 0 /\ tool.id = Len(sd) /\ sd[Len(sd)].open
          /\ tool.name = sd[Len(sd)].name /\ tool.parts = sd[Len(sd)].parts

\* The calls collected are calls that are over, faithfully and in order.
CollectedOK(cs, sd) ==
    /\ \A i \in 1..Len(cs) :
          /\ cs[i].id \in 1..Len(sd) /\ ~sd[cs[i].id].open
          /\ cs[i].name = sd[cs[i].id].name /\ cs[i].parts = sd[cs[i].id].parts
          /\ i <= cs[i].id /\ cs[i].index < cs[i].id
    /\ \A i, j \in 1..Len(cs) : i < j => cs[i].id < cs[j].id

\* Those that are over have been collected.
NoneMissing(cs, sd) ==
    \A n \in 1..Len(sd) :
        sd[n].name # NoName /\ ~sd[n].open /\ ~SwallowedIn(sd, n) =>
            \E i \in 1..Len(cs) : cs[i].id = n

Numbered(cs, sd) ==
    (\A n \in 1..Len(sd) : ~SwallowedIn(sd, n)) => \A i \in 1..Len(cs) : cs[i].index = i - 1

Assembling(cs, sd, tool) ==
    PendingOK(sd, tool) /\ CollectedOK(cs, sd) /\ NoneMissing(cs, sd) /\ Numbered(cs, sd)

CallTypes == /\ said \in Seq(Said) /\ Len(said) <= MaxCalls
             /\ pending \in Tool
             /\ calls \in Seq(Call)

\* While the stream is read; and what is left of it after the end, when nothing
\* of this changes any more.
CallsInv == /\ CallTypes
            /\ end = "none" => Assembling(calls, said, pending)
            /\ DeliveredFaithfully /\ AllCallsDelivered /\ CallsNumbered

\* The upstream goes on to something else.
LEMMA MoveOnCloses ==
    ASSUME said \in Seq(Said) PROVE MoveOn \in Seq(Said) /\ ClosedOf(said, MoveOn)
<1>1. Len(said) \in Nat /\ \A n \in 1..Len(said) : said[n] \in Said
  BY LenProperties, ElementOfSeq
<1>2. \A n \in 1..Len(said) : [said[n] EXCEPT !.open = FALSE] \in Said
  BY <1>1 DEF Said
<1>3. MoveOn \in [1..Len(said) -> Said]
  BY <1>2 DEF MoveOn
<1>4. MoveOn \in Seq(Said) /\ Len(MoveOn) = Len(said)
  BY <1>1, <1>3, SeqDef
<1>5. \A n \in 1..Len(said) : MoveOn[n] = [said[n] EXCEPT !.open = FALSE]
  BY DEF MoveOn
<1>6. ASSUME NEW s \in Said
      PROVE  LET c == [s EXCEPT !.open = FALSE]
             IN  c.name = s.name /\ c.parts = s.parts /\ c.over = s.over /\ ~c.open
  BY DEF Said
<1> QED BY <1>1, <1>4, <1>5, <1>6 DEF ClosedOf

\* What appending does to any sequence.
LEMMA Appended ==
    ASSUME NEW S, NEW s \in Seq(S), NEW x \in S
    PROVE  /\ Append(s, x) \in Seq(S) /\ Len(s) \in Nat
           /\ Len(Append(s, x)) = Len(s) + 1
           /\ \A i \in 1..Len(s) : Append(s, x)[i] = s[i]
           /\ Append(s, x)[Len(s) + 1] = x
BY AppendProperties, LenProperties

\* One more call collected, later than those before it.
LEMMA CollectedMore ==
    ASSUME NEW cs \in Seq(Call), NEW sd \in Seq(Said), CollectedOK(cs, sd), NEW c \in Call,
           c.id \in 1..Len(sd), ~sd[c.id].open, c.name = sd[c.id].name,
           c.parts = sd[c.id].parts, c.index < c.id,
           \A i \in 1..Len(cs) : cs[i].id < c.id
    PROVE  CollectedOK(Append(cs, c), sd)
<1> DEFINE ds == Append(cs, c)
<1>1. /\ Len(cs) \in Nat /\ Len(ds) = Len(cs) + 1
      /\ \A i \in 1..Len(cs) : ds[i] = cs[i]
      /\ ds[Len(cs) + 1] = c
  BY Appended
<1>2. Len(cs) + 1 <= c.id
  <2>1. CASE Len(cs) = 0
    BY <2>1 DEF Call
  <2>2. CASE Len(cs) # 0
    <3>1. Len(cs) \in 1..Len(cs)
      BY <1>1, <2>2
    <3>2. Len(cs) <= cs[Len(cs)].id /\ cs[Len(cs)].id < c.id
      BY <3>1 DEF CollectedOK
    <3>3. cs[Len(cs)] \in Call
      BY <3>1, ElementOfSeq
    <3>4. cs[Len(cs)].id \in Nat /\ c.id \in Nat
      BY <3>3 DEF Call
    <3> QED BY <1>1, <3>2, <3>4
  <2> QED BY <2>1, <2>2
<1> HIDE DEF ds
<1>3. ASSUME NEW i \in 1..Len(ds)
      PROVE  /\ ds[i].id \in 1..Len(sd) /\ ~sd[ds[i].id].open
             /\ ds[i].name = sd[ds[i].id].name /\ ds[i].parts = sd[ds[i].id].parts
             /\ i <= ds[i].id /\ ds[i].index < ds[i].id
  <2>1. CASE i \in 1..Len(cs)
    BY <1>1, <2>1 DEF CollectedOK
  <2>2. CASE i = Len(cs) + 1
    BY <1>1, <1>2, <2>2
  <2> QED BY <1>1, <2>1, <2>2
<1>4. ASSUME NEW i \in 1..Len(ds), NEW j \in 1..Len(ds), i < j
      PROVE  ds[i].id < ds[j].id
  <2>1. i \in 1..Len(cs)
    BY <1>1, <1>4
  <2>2. CASE j \in 1..Len(cs)
    BY <1>1, <1>4, <2>1, <2>2 DEF CollectedOK
  <2>3. CASE j = Len(cs) + 1
    BY <1>1, <2>1, <2>3
  <2> QED BY <1>1, <2>2, <2>3
<1> QED BY <1>3, <1>4 DEF CollectedOK, ds

\* The calls before the open one are those that can have been collected.
LEMMA CollectedBefore ==
    ASSUME NEW cs \in Seq(Call), NEW sd \in Seq(Said), NEW tool \in Tool,
           Assembling(cs, sd, tool), tool # NoTool
    PROVE  \A i \in 1..Len(cs) : cs[i].id < tool.id
<1> TAKE i \in 1..Len(cs)
<1>1. Len(sd) \in Nat /\ cs[i].id \in 1..Len(sd) /\ ~sd[cs[i].id].open
  BY LenProperties DEF Assembling, CollectedOK
<1>2. tool.id = Len(sd) /\ sd[Len(sd)].open
  BY DEF Assembling, PendingOK
<1> QED BY <1>1, <1>2

\* With n calls in all, the number of those collected before the n-th is below n.
LEMMA CollectedFew ==
    ASSUME NEW cs \in Seq(Call), NEW sd \in Seq(Said), CollectedOK(cs, sd), NEW n \in Nat,
           n > 0, \A i \in 1..Len(cs) : cs[i].id < n
    PROVE  Len(cs) \in Nat /\ Len(cs) < n
<1>1. Len(cs) \in Nat
  BY LenProperties
<1>2. CASE Len(cs) = 0
  BY <1>2
<1>3. CASE Len(cs) # 0
  <2>1. Len(cs) \in 1..Len(cs)
    BY <1>1, <1>3
  <2>2. Len(cs) <= cs[Len(cs)].id /\ cs[Len(cs)].id < n
    BY <2>1 DEF CollectedOK
  <2>3. cs[Len(cs)] \in Call
    BY <2>1, ElementOfSeq
  <2>4. cs[Len(cs)].id \in Nat
    BY <2>3 DEF Call
  <2> QED BY <1>1, <2>2, <2>4
<1> QED BY <1>1, <1>2, <1>3

\* What is collected of a pending tool.
Made(tool, index) == [id |-> tool.id, name |-> tool.name, parts |-> tool.parts, index |-> index]

\* What _flush_pending_openai_tool makes of a pending tool: nothing, or its one call.
LEMMA FlushIs ==
    ASSUME NEW cs \in Seq(Call), NEW tool, NEW index
    PROVE  /\ tool.name = NoName => Flush(tool, index) = <<>> /\ cs \o Flush(tool, index) = cs
           /\ tool.name # NoName =>
                 /\ Flush(tool, index) = <<Made(tool, index)>>
                 /\ Made(tool, index) \in Call =>
                       cs \o Flush(tool, index) = Append(cs, Made(tool, index))
<1>1. CASE tool.name = NoName
  BY <1>1, ConcatEmptySeq DEF Flush
<1>2. CASE tool.name # NoName
  <2>1. Flush(tool, index) = <<Made(tool, index)>>
    BY <1>2 DEF Flush, Made
  <2> HIDE DEF Made
  <2> QED BY <1>2, <2>1, AppendIsConcat
<1> QED BY <1>1, <1>2

\* The pending tool is released: the call is collected if it has a name, and the
\* upstream has gone on.
LEMMA Release ==
    ASSUME NEW cs \in Seq(Call), NEW sd \in Seq(Said), NEW tool \in Tool,
           Len(sd) <= MaxCalls, Assembling(cs, sd, tool),
           NEW cd \in Seq(Said), ClosedOf(sd, cd)
    PROVE  /\ cs \o Flush(tool, Len(cs)) \in Seq(Call)
           /\ Assembling(cs \o Flush(tool, Len(cs)), cd, NoTool)
<1> DEFINE ds == cs \o Flush(tool, Len(cs))
<1>0. /\ Len(sd) \in Nat /\ MaxCalls \in Nat
      /\ cd \in Seq(Said) /\ Len(cd) = Len(sd)
      /\ \A n \in 1..Len(sd) : /\ cd[n].name = sd[n].name /\ cd[n].parts = sd[n].parts
                               /\ cd[n].over = sd[n].over /\ ~cd[n].open
  BY LenProperties, CallsAssumption DEF ClosedOf
<1>1. PendingOK(cd, NoTool)
  BY <1>0 DEF PendingOK
<1>2. CollectedOK(cs, cd)
  BY <1>0 DEF Assembling, CollectedOK
<1>3. \A n \in 1..Len(cd) : SwallowedIn(cd, n) <=> SwallowedIn(sd, n)
  BY <1>0 DEF SwallowedIn
<1>4. CASE tool.name = NoName
  <2>1. ds = cs
    BY <1>4, FlushIs
  <2> HIDE DEF ds
  <2>2. \A n \in 1..Len(sd) : sd[n].open => sd[n].name = NoName
    BY <1>0, <1>4 DEF Assembling, PendingOK
  <2>3. NoneMissing(cs, cd)
    BY <1>0, <1>3, <2>2 DEF Assembling, NoneMissing
  <2>4. Numbered(cs, cd)
    BY <1>0, <1>3 DEF Assembling, Numbered
  <2> QED BY <1>1, <1>2, <2>1, <2>3, <2>4 DEF Assembling, ds
<1>5. CASE tool.name # NoName
  <2> DEFINE c == Made(tool, Len(cs))
  <2>1. tool # NoTool
    BY <1>5 DEF NoTool
  <2>2. /\ Len(sd) > 0 /\ tool.id = Len(sd)
        /\ tool.name = sd[Len(sd)].name /\ tool.parts = sd[Len(sd)].parts
    BY <2>1 DEF Assembling, PendingOK
  <2>3. /\ \A i \in 1..Len(cs) : cs[i].id < tool.id
        /\ Len(cs) \in Nat /\ Len(cs) < tool.id
    <3>1. \A i \in 1..Len(cs) : cs[i].id < tool.id
      BY <2>1, CollectedBefore
    <3> QED BY <1>0, <2>2, <3>1, CollectedFew DEF Assembling
  <2>4. c \in Call /\ c.id = Len(sd) /\ c.name = tool.name /\ c.parts = tool.parts
        /\ c.index = Len(cs)
    <3>1. tool.id \in 1..MaxCalls /\ tool.name \in Names /\ tool.parts \in Seq(Part)
          /\ Len(cs) \in 0..(MaxCalls - 1)
      BY <1>0, <1>5, <2>2, <2>3 DEF Tool
    <3> QED BY <2>2, <3>1 DEF Made, Call
  <2>5. ds = Append(cs, c)
    BY <1>5, <2>4, FlushIs
  <2> HIDE DEF c, ds
  <2>6. CollectedOK(ds, cd)
    <3>1. /\ c.id \in 1..Len(cd) /\ ~cd[c.id].open /\ c.name = cd[c.id].name
          /\ c.parts = cd[c.id].parts /\ c.index < c.id
          /\ \A i \in 1..Len(cs) : cs[i].id < c.id
      BY <1>0, <2>2, <2>3, <2>4
    <3>2. c \in Call
      BY <2>4
    <3>3. CollectedOK(Append(cs, c), cd)
      BY <1>0, <1>2, <3>1, <3>2, CollectedMore
    <3> QED BY <2>5, <3>3
  <2>7. /\ Len(ds) = Len(cs) + 1 /\ ds \in Seq(Call)
        /\ \A i \in 1..Len(cs) : ds[i] = cs[i]
        /\ ds[Len(cs) + 1] = c
    BY <2>4, <2>5, Appended
  <2>8. NoneMissing(ds, cd)
    <3> SUFFICES ASSUME NEW n \in 1..Len(cd), cd[n].name # NoName, ~SwallowedIn(cd, n)
                 PROVE  \E i \in 1..Len(ds) : ds[i].id = n
      BY DEF NoneMissing
    <3>1. CASE n = Len(sd)
      BY <2>3, <2>4, <2>7, <3>1
    <3>2. CASE n # Len(sd)
      <4>1. ~sd[n].open
        BY <1>0, <3>2 DEF Assembling, PendingOK
      <4>2. PICK i \in 1..Len(cs) : cs[i].id = n
        BY <1>0, <1>3, <4>1 DEF Assembling, NoneMissing
      <4>3. i \in 1..Len(ds) /\ ds[i].id = n
        BY <2>3, <2>7, <4>2
      <4> QED BY <4>3
    <3> QED BY <3>1, <3>2
  <2>9. Numbered(ds, cd)
    <3> SUFFICES ASSUME \A n \in 1..Len(cd) : ~SwallowedIn(cd, n), NEW i \in 1..Len(ds)
                 PROVE  ds[i].index = i - 1
      BY DEF Numbered
    <3>1. CASE i \in 1..Len(cs)
      BY <1>0, <1>3, <2>7, <3>1 DEF Assembling, Numbered
    <3>2. CASE i = Len(cs) + 1
      BY <2>3, <2>4, <2>7, <3>2
    <3> QED BY <2>3, <2>7, <3>1, <3>2
  <2> QED BY <1>1, <2>6, <2>7, <2>8, <2>9 DEF Assembling, ds
<1> QED BY <1>4, <1>5

\* The calls of sd have gone, and x comes whole: it is collected if it has a name,
\* under an index that is right unless it swallows the call before it.
LEMMA Joined ==
    ASSUME NEW cs \in Seq(Call), NEW sd \in Seq(Said), NEW x \in Said, NEW tool \in Tool,
           NEW index \in Nat,
           \A n \in 1..Len(sd) : ~sd[n].open, CollectedOK(cs, sd), ~x.open,
           tool.id = Len(sd) + 1, Len(sd) + 1 <= MaxCalls, index <= Len(sd),
           tool.name = x.name, tool.parts = x.parts,
           \A n \in 1..Len(sd) :
               sd[n].name # NoName /\ ~SwallowedIn(Append(sd, x), n) =>
                   \E i \in 1..Len(cs) : cs[i].id = n,
           (\A n \in 1..(Len(sd) + 1) : ~SwallowedIn(Append(sd, x), n)) =>
               index = Len(cs) /\ \A i \in 1..Len(cs) : cs[i].index = i - 1
    PROVE  /\ cs \o Flush(tool, index) \in Seq(Call)
           /\ Assembling(cs \o Flush(tool, index), Append(sd, x), NoTool)
<1> DEFINE cd == Append(sd, x)
           ds == cs \o Flush(tool, index)
<1>0. /\ Len(sd) \in Nat /\ MaxCalls \in Nat /\ Len(cs) \in Nat
      /\ cd \in Seq(Said) /\ Len(cd) = Len(sd) + 1
      /\ \A n \in 1..Len(sd) : cd[n] = sd[n]
      /\ cd[Len(sd) + 1] = x
  BY Appended, LenProperties, CallsAssumption
<1> HIDE DEF cd
<1>1. \A n \in 1..Len(cd) : ~cd[n].open
  BY <1>0
<1>2. PendingOK(cd, NoTool)
  BY <1>1 DEF PendingOK
<1>3. CollectedOK(cs, cd)
  BY <1>0 DEF CollectedOK
<1>4. CASE tool.name = NoName
  <2>1. ds = cs
    BY <1>4, FlushIs
  <2> HIDE DEF ds
  <2>2. NoneMissing(cs, cd)
    <3> SUFFICES ASSUME NEW n \in 1..Len(cd), cd[n].name # NoName, ~SwallowedIn(cd, n)
                 PROVE  \E i \in 1..Len(cs) : cs[i].id = n
      BY DEF NoneMissing
    <3>1. n # Len(sd) + 1
      BY <1>0, <1>4
    <3> QED BY <1>0, <3>1 DEF cd
  <2>3. Numbered(cs, cd)
    BY <1>0 DEF Numbered, cd
  <2> QED BY <1>2, <1>3, <2>1, <2>2, <2>3 DEF Assembling, ds, cd
<1>5. CASE tool.name # NoName
  <2> DEFINE c == Made(tool, index)
  <2>1. c \in Call /\ c.id = Len(sd) + 1 /\ c.name = x.name /\ c.parts = x.parts
        /\ c.index = index
    <3>1. tool.id \in 1..MaxCalls /\ tool.name \in Names /\ tool.parts \in Seq(Part)
          /\ index \in 0..(MaxCalls - 1)
      BY <1>0, <1>5 DEF Tool
    <3> QED BY <3>1 DEF Made, Call
  <2>2. ds = Append(cs, c)
    BY <1>5, <2>1, FlushIs
  <2> HIDE DEF c, ds
  <2>3. CollectedOK(ds, cd)
    <3>1. /\ c.id \in 1..Len(cd) /\ ~cd[c.id].open /\ c.name = cd[c.id].name
          /\ c.parts = cd[c.id].parts /\ c.index < c.id
      BY <1>0, <2>1
    <3>2. \A i \in 1..Len(cs) : cs[i].id < c.id
      <4>1. \A i \in 1..Len(cs) : cs[i].id \in 1..Len(sd)
        BY DEF CollectedOK
      <4>2. Len(sd) \in Nat /\ c.id = Len(sd) + 1
        BY <1>0, <2>1
      <4> QED BY <4>1, <4>2
    <3>3. c \in Call
      BY <2>1
    <3>4. CollectedOK(Append(cs, c), cd)
      BY <1>0, <1>3, <3>1, <3>2, <3>3, CollectedMore
    <3> QED BY <2>2, <3>4
  <2>4. /\ Len(ds) = Len(cs) + 1 /\ ds \in Seq(Call)
        /\ \A i \in 1..Len(cs) : ds[i] = cs[i]
        /\ ds[Len(cs) + 1] = c
    BY <2>1, <2>2, Appended
  <2>5. NoneMissing(ds, cd)
    <3> SUFFICES ASSUME NEW n \in 1..Len(cd), cd[n].name # NoName, ~SwallowedIn(cd, n)
                 PROVE  \E i \in 1..Len(ds) : ds[i].id = n
      BY DEF NoneMissing
    <3>1. CASE n = Len(sd) + 1
      <4>1. Len(cs) + 1 \in 1..Len(ds) /\ ds[Len(cs) + 1].id = n
        BY <1>0, <2>1, <2>4, <3>1
      <4> QED BY <4>1
    <3>2. CASE n # Len(sd) + 1
      <4>1. n \in 1..Len(sd) /\ sd[n].name # NoName
        BY <1>0, <3>2
      <4>2. PICK i \in 1..Len(cs) : cs[i].id = n
        BY <4>1 DEF cd
      <4>3. i \in 1..Len(ds) /\ ds[i].id = n
        BY <1>0, <2>4, <4>2
      <4> QED BY <4>3
    <3> QED BY <3>1, <3>2
  <2>6. Numbered(ds, cd)
    <3> SUFFICES ASSUME \A n \in 1..Len(cd) : ~SwallowedIn(cd, n), NEW i \in 1..Len(ds)
                 PROVE  ds[i].index = i - 1
      BY DEF Numbered
    <3>1. index = Len(cs) /\ \A j \in 1..Len(cs) : cs[j].index = j - 1
      BY <1>0 DEF cd
    <3>2. CASE i \in 1..Len(cs)
      BY <2>4, <3>1, <3>2
    <3>3. CASE i = Len(cs) + 1
      BY <1>0, <2>1, <2>4, <3>1, <3>3
    <3> QED BY <1>0, <2>4, <3>2, <3>3
  <2> QED BY <1>2, <2>3, <2>4, <2>5, <2>6 DEF Assembling, ds, cd
<1> QED BY <1>4, <1>5

\* A call that comes whole, or is over with its first delta, after the one before
\* it was released.
LEMMA JoinedReleased ==
    ASSUME NEW cs \in Seq(Call), NEW sd \in Seq(Said), NEW x \in Said, NEW tool \in Tool,
           Assembling(cs, sd, NoTool), ~x.open,
           tool.id = Len(sd) + 1, Len(sd) + 1 <= MaxCalls,
           tool.name = x.name, tool.parts = x.parts
    PROVE  /\ cs \o Flush(tool, Len(cs)) \in Seq(Call)
           /\ Assembling(cs \o Flush(tool, Len(cs)), Append(sd, x), NoTool)
<1>0. /\ Len(sd) \in Nat /\ Len(cs) \in Nat
      /\ Len(Append(sd, x)) = Len(sd) + 1
      /\ \A n \in 1..Len(sd) : Append(sd, x)[n] = sd[n]
  BY Appended, LenProperties
<1>1. \A n \in 1..Len(sd) : ~sd[n].open
  BY DEF Assembling, PendingOK
<1>2. Len(cs) <= Len(sd)
  <2>1. \A i \in 1..Len(cs) : cs[i].id < Len(sd) + 1
    BY <1>0 DEF Assembling, CollectedOK
  <2>2. CollectedOK(cs, sd) /\ Len(sd) + 1 \in Nat /\ Len(sd) + 1 > 0
    BY <1>0 DEF Assembling
  <2>3. Len(cs) < Len(sd) + 1
    BY <2>1, <2>2, CollectedFew
  <2> QED BY <1>0, <2>3
<1>3. \A n \in 1..Len(sd) : SwallowedIn(sd, n) => SwallowedIn(Append(sd, x), n)
  BY <1>0 DEF SwallowedIn
<1>4. /\ \A n \in 1..Len(sd) :
            sd[n].name # NoName /\ ~SwallowedIn(Append(sd, x), n) =>
                \E i \in 1..Len(cs) : cs[i].id = n
      /\ (\A n \in 1..(Len(sd) + 1) : ~SwallowedIn(Append(sd, x), n)) =>
            \A i \in 1..Len(cs) : cs[i].index = i - 1
  BY <1>0, <1>1, <1>3 DEF Assembling, NoneMissing, Numbered
<1> QED BY <1>0, <1>1, <1>2, <1>4, Joined DEF Assembling

\* A call begins that is not over with its first delta.
LEMMA Opened ==
    ASSUME NEW cs \in Seq(Call), NEW sd \in Seq(Said), NEW x \in Said, NEW tool \in Tool,
           Assembling(cs, sd, NoTool), x.open, ~x.over,
           tool.id = Len(sd) + 1, tool.name = x.name, tool.parts = x.parts
    PROVE  Assembling(cs, Append(sd, x), tool)
<1> DEFINE cd == Append(sd, x)
<1>0. /\ Len(sd) \in Nat /\ cd \in Seq(Said) /\ Len(cd) = Len(sd) + 1
      /\ \A n \in 1..Len(sd) : cd[n] = sd[n]
      /\ cd[Len(sd) + 1] = x
  BY Appended
<1> HIDE DEF cd
<1>1. \A n \in 1..Len(sd) : ~sd[n].open /\ (SwallowedIn(cd, n) <=> SwallowedIn(sd, n))
  <2> TAKE n \in 1..Len(sd)
  <2>1. ~sd[n].open
    BY DEF Assembling, PendingOK
  <2>2. CASE n = Len(sd)
    BY <1>0, <2>1, <2>2 DEF SwallowedIn
  <2>3. CASE n # Len(sd)
    <3>1. n + 1 \in 1..Len(sd)
      BY <1>0, <2>3
    <3> QED BY <1>0, <2>1, <3>1 DEF SwallowedIn
  <2> QED BY <2>2, <2>3
<1>2. tool # NoTool
  BY <1>0 DEF NoTool, NoId
<1>3. PendingOK(cd, tool)
  BY <1>0, <1>1, <1>2 DEF PendingOK
<1>4. CollectedOK(cs, cd)
  BY <1>0 DEF Assembling, CollectedOK
<1>5. NoneMissing(cs, cd)
  BY <1>0, <1>1 DEF Assembling, NoneMissing
<1>6. Numbered(cs, cd)
  BY <1>0, <1>1 DEF Assembling, Numbered
<1> QED BY <1>3, <1>4, <1>5, <1>6 DEF Assembling, cd

\* The open call grows.
LEMMA GrownOK ==
    ASSUME NEW cs \in Seq(Call), NEW sd \in Seq(Said), NEW tool \in Tool, NEW grown \in Tool,
           Assembling(cs, sd, tool), tool # NoTool, NEW y \in Said,
           y.open, ~y.over, grown.id = tool.id, grown.name = y.name, grown.parts = y.parts
    PROVE  Assembling(cs, [sd EXCEPT ![Len(sd)] = y], grown)
<1> DEFINE n  == Len(sd)
           cd == [sd EXCEPT ![n] = y]
<1>0. n \in Nat /\ n > 0 /\ tool.id = n /\ sd[n].open /\ ~sd[n].over
  BY LenProperties DEF Assembling, PendingOK
<1>1. /\ Len(cd) = n /\ cd[n] = y
      /\ \A m \in 1..n : m # n => cd[m] = sd[m]
  BY <1>0
<1> HIDE DEF cd
<1>2. \A m \in 1..n : SwallowedIn(cd, m) <=> SwallowedIn(sd, m)
  BY <1>0, <1>1 DEF SwallowedIn
<1>3. grown # NoTool
  BY <1>0 DEF NoTool, NoId
<1>4. PendingOK(cd, grown)
  BY <1>0, <1>1, <1>3 DEF Assembling, PendingOK
<1>5. \A i \in 1..Len(cs) : cs[i].id # n
  BY <1>0 DEF Assembling, CollectedOK
<1>6. CollectedOK(cs, cd)
  BY <1>0, <1>1, <1>5 DEF Assembling, CollectedOK
<1>7. NoneMissing(cs, cd)
  BY <1>0, <1>1, <1>2 DEF Assembling, NoneMissing
<1>8. Numbered(cs, cd)
  BY <1>0, <1>1, <1>2 DEF Assembling, Numbered
<1> QED BY <1>4, <1>6, <1>7, <1>8 DEF Assembling, cd

\* The first delta of a call, which takes the pending tool's place; when it is the
\* only one too, the call it ends is what is collected, and the one before it only
\* if that call has no name.
LEMMA FirstJoined ==
    ASSUME NEW cs \in Seq(Call), NEW sd \in Seq(Said), NEW tool \in Tool,
           Assembling(cs, sd, tool), Len(sd) + 1 <= MaxCalls,
           NEW cd \in Seq(Said), ClosedOf(sd, cd), NEW x \in Said, NEW grown \in Tool,
           grown.id = Len(sd) + 1, grown.name = x.name, grown.parts = x.parts,
           ~x.open, x.over <=> sd # <<>> /\ sd[Len(sd)].open
    PROVE  LET flushed  == Flush(tool, Len(cs))
               finished == Flush(grown, Len(cs) + Len(flushed))
               ds       == cs \o (IF finished = <<>> THEN flushed ELSE finished)
           IN  ds \in Seq(Call) /\ Assembling(ds, Append(cd, x), NoTool)
<1> DEFINE flushed  == Flush(tool, Len(cs))
           finished == Flush(grown, Len(cs) + Len(flushed))
           ds       == cs \o (IF finished = <<>> THEN flushed ELSE finished)
<1>0. /\ Len(sd) \in Nat /\ Len(cs) \in Nat /\ Len(cd) = Len(sd) /\ MaxCalls \in Nat
      /\ \A n \in 1..Len(sd) : cd[n].name = sd[n].name /\ cd[n].parts = sd[n].parts
                               /\ cd[n].over = sd[n].over /\ ~cd[n].open
  BY LenProperties, CallsAssumption DEF ClosedOf
<1>1. /\ cs \o flushed \in Seq(Call)
      /\ Assembling(cs \o flushed, cd, NoTool)
  BY <1>0, Release
<1>2. CASE grown.name = NoName
  <2>1. finished = <<>>
    BY <1>2 DEF Flush
  <2>2. ds = cs \o flushed
    BY <2>1
  <2> HIDE DEF flushed, finished, ds
  <2>3. Assembling((cs \o flushed) \o Flush(grown, Len(cs \o flushed)), Append(cd, x), NoTool)
    BY <1>0, <1>1, JoinedReleased
  <2>4. (cs \o flushed) \o Flush(grown, Len(cs \o flushed)) = cs \o flushed
    BY <1>1, <1>2, FlushIs
  <2> QED BY <1>1, <2>2, <2>3, <2>4 DEF ds, flushed, finished
<1>3. CASE grown.name # NoName /\ tool.name = NoName
  <2>1. flushed = <<>> /\ cs \o flushed = cs /\ Len(cs) + Len(flushed) = Len(cs)
    BY <1>0, <1>3, FlushIs
  <2>2. finished # <<>>
    BY <1>3 DEF Flush
  <2>3. ds = cs \o Flush(grown, Len(cs))
    BY <2>1, <2>2
  <2>4. Assembling(cs, cd, NoTool)
    BY <1>1, <2>1
  <2> HIDE DEF flushed, finished, ds
  <2>5. /\ cs \o Flush(grown, Len(cs)) \in Seq(Call)
        /\ Assembling(cs \o Flush(grown, Len(cs)), Append(cd, x), NoTool)
    BY <1>0, <2>4, JoinedReleased
  <2> QED BY <2>3, <2>5 DEF ds, flushed, finished
<1>4. CASE grown.name # NoName /\ tool.name # NoName
  <2>1. Len(flushed) = 1
    BY <1>4 DEF Flush
  <2>2. finished # <<>>
    BY <1>4 DEF Flush
  <2>3. ds = cs \o Flush(grown, Len(cs) + 1)
    BY <2>1, <2>2
  <2> HIDE DEF flushed, finished, ds
  <2>4. tool # NoTool
    BY <1>4 DEF NoTool
  <2>5. /\ Len(sd) > 0 /\ tool.id = Len(sd) /\ sd[Len(sd)].open
        /\ \A n \in 1..Len(sd) : sd[n].open => n = Len(sd)
    BY <2>4 DEF Assembling, PendingOK
  <2>6. x.over
    BY <2>5
  <2>7. Len(cs) < Len(sd)
    <3>1. \A i \in 1..Len(cs) : cs[i].id < tool.id
      BY <2>4, CollectedBefore
    <3>2. CollectedOK(cs, sd) /\ tool.id \in Nat /\ tool.id > 0
      BY <1>0, <2>5 DEF Assembling
    <3> QED BY <2>5, <3>1, <3>2, CollectedFew
  <2>8. CollectedOK(cs, cd)
    BY <1>0 DEF Assembling, CollectedOK
  <2>9. /\ Len(Append(cd, x)) = Len(sd) + 1
        /\ \A n \in 1..Len(sd) : Append(cd, x)[n] = cd[n]
        /\ Append(cd, x)[Len(sd) + 1] = x
    BY <1>0, Appended
  <2>10. SwallowedIn(Append(cd, x), Len(sd)) /\ Len(sd) \in 1..(Len(sd) + 1)
    BY <1>0, <1>4, <2>5, <2>6, <2>9 DEF SwallowedIn
  <2>11. ASSUME NEW n \in 1..Len(cd), cd[n].name # NoName, ~SwallowedIn(Append(cd, x), n)
         PROVE  \E i \in 1..Len(cs) : cs[i].id = n
    <3>1. n # Len(sd)
      BY <2>10, <2>11
    <3>2. ~sd[n].open /\ n + 1 \in 1..Len(sd) /\ n < Len(sd)
      BY <1>0, <2>5, <3>1
    <3>3. ~SwallowedIn(sd, n)
      BY <1>0, <2>9, <2>11, <3>2 DEF SwallowedIn
    <3> QED BY <1>0, <2>11, <3>2, <3>3 DEF Assembling, NoneMissing
  <2>12. /\ cs \o Flush(grown, Len(cs) + 1) \in Seq(Call)
         /\ Assembling(cs \o Flush(grown, Len(cs) + 1), Append(cd, x), NoTool)
    <3>1. \A n \in 1..Len(cd) : ~cd[n].open
      BY <1>0
    <3>2. Len(cs) + 1 \in Nat /\ Len(cs) + 1 <= Len(cd)
      BY <1>0, <2>7
    <3>3. ~(\A n \in 1..(Len(cd) + 1) : ~SwallowedIn(Append(cd, x), n))
      BY <1>0, <2>10
    <3> QED BY <1>0, <2>8, <2>11, <3>1, <3>2, <3>3, Joined
  <2> QED BY <2>3, <2>12 DEF ds, flushed, finished
<1> QED BY <1>2, <1>3, <1>4

\* What _consume_tool_delta does with the first delta of the n-th call.
LEMMA ConsumeFirst ==
    ASSUME NEW tool \in Tool, NEW n \in Nat, n > 0, tool # NoTool => tool.id = n - 1 /\ tool.id > 0,
           NEW d, d.id = n, NEW grown,
           grown = [id |-> n, name |-> d.name,
                    parts |-> IF d.part = NoPart THEN <<>> ELSE <<d.part>>],
           NEW index, NEW flushed, flushed = Flush(tool, index),
           NEW finished, finished = Flush(grown, index + Len(flushed))
    PROVE  /\ d.stop => Consume(tool, d, index) =
                 [call |-> IF finished = <<>> THEN flushed ELSE finished, pending |-> NoTool]
           /\ ~d.stop => Consume(tool, d, index) = [call |-> flushed, pending |-> grown]
<1>1. Changes(tool, d) <=> tool # NoTool
  BY DEF Changes, NoId
<1>2. (IF Changes(tool, d) THEN Flush(tool, index) ELSE <<>>) = flushed
  <2>1. CASE tool = NoTool
    <3>1. tool.name = NoName
      BY <2>1 DEF NoTool
    <3> QED BY <1>1, <2>1, <3>1 DEF Flush
  <2> QED BY <1>1, <2>1
<1>3. (IF Changes(tool, d) THEN NoTool ELSE tool) = NoTool
  BY <1>1
<1>4. Grown(NoTool, d) = grown
  <2> DEFINE name == d.name
             part == d.part
  <2>1. [NoTool EXCEPT !.id = n, !.name = name] = [id |-> n, name |-> name, parts |-> <<>>]
    <3>1. [NoTool EXCEPT !.id = n] = [id |-> n, name |-> NoName, parts |-> <<>>]
      BY DEF NoTool
    <3>2. [NoTool EXCEPT !.id = n, !.name = name] = [[NoTool EXCEPT !.id = n] EXCEPT !.name = name]
      OBVIOUS
    <3>3. [[id |-> n, name |-> NoName, parts |-> <<>>] EXCEPT !.name = name]
             = [id |-> n, name |-> name, parts |-> <<>>]
      OBVIOUS
    <3> QED BY <3>1, <3>2, <3>3
  <2>2. CASE part = NoPart
    BY <2>1, <2>2 DEF Grown
  <2>3. CASE part # NoPart
    <3>1. Append(<<>>, part) = <<part>>
      OBVIOUS
    <3>2. [[id |-> n, name |-> name, parts |-> <<>>] EXCEPT !.parts = Append(@, part)]
             = [id |-> n, name |-> name, parts |-> <<part>>]
      BY <3>1
    <3> QED BY <2>1, <2>3, <3>2 DEF Grown
  <2> QED BY <2>2, <2>3
<1> QED BY <1>2, <1>3, <1>4 DEF Consume, FinishedIndex

\* The pending tool after a later delta of its call.
Longer(tool, d) ==
    [id    |-> tool.id,
     name  |-> IF tool.name = NoName THEN d.name ELSE tool.name,
     parts |-> IF d.part = NoPart THEN tool.parts ELSE Append(tool.parts, d.part)]

\* What it does with a later delta of the pending call.
LEMMA ConsumeNext ==
    ASSUME NEW tool \in Tool, tool # NoTool, NEW d, d.id \in {tool.id, NoId},
           d.name = NoName \/ tool.name = NoName \/ d.name = tool.name,
           NEW index \in Nat
    PROVE  /\ d.stop => Consume(tool, d, index) =
                 [call |-> Flush(Longer(tool, d), index), pending |-> NoTool]
           /\ ~d.stop => Consume(tool, d, index) = [call |-> <<>>, pending |-> Longer(tool, d)]
<1>1. ~Changes(tool, d)
  BY DEF Changes, NoId
<1>2. Grown(tool, d) = Longer(tool, d)
  <2> USE DEF Longer
  <2> DEFINE named == IF tool.name = NoName THEN d.name ELSE tool.name
  <2>1. [tool EXCEPT !.name = IF @ = NoName THEN d.name ELSE @]
           = [id |-> tool.id, name |-> named, parts |-> tool.parts]
    BY DEF Tool
  <2>2. CASE d.part = NoPart
    BY <2>1, <2>2 DEF Grown
  <2>3. CASE d.part # NoPart
    <3> DEFINE longer == Append(tool.parts, d.part)
    <3> HIDE DEF named
    <3>1. [[id |-> tool.id, name |-> named, parts |-> tool.parts]
                EXCEPT !.parts = Append(@, d.part)]
             = [id |-> tool.id, name |-> named, parts |-> longer]
      <4>1. Append([id |-> tool.id, name |-> named, parts |-> tool.parts].parts, d.part) = longer
        OBVIOUS
      <4> HIDE DEF longer
      <4> QED BY <4>1
    <3> USE DEF named
    <3> QED BY <2>1, <2>3, <3>1 DEF Grown
  <2> QED BY <2>2, <2>3
<1>3. index + Len(<<>>) = index
  OBVIOUS
<1> QED BY <1>1, <1>2, <1>3 DEF Consume, FinishedIndex

-----------------------------------------------------------------------------
(* The handlers' steps, as far as the calls go.                                *)

\* What has to be shown of a step.
LEMMA StillFaithful ==
    ASSUME CallTypes', Assembling(calls', said', pending'),
           \/ end' \in {"none", "broken"}
           \/ pending' = NoTool
           \/ end' = "closed" /\ handler' # "chat"
    PROVE  CallsInv'
<1>1. Len(calls') \in Nat /\ Len(said') \in Nat
  BY LenProperties DEF CallTypes
<1>2. DeliveredFaithfully'
  BY DEF Assembling, CollectedOK, DeliveredFaithfully
<1>3. \A n : Swallowed(n)' <=> SwallowedIn(said', n)
  BY DEF Swallowed, SwallowedIn
<1>4. CallsNumbered'
  BY <1>3 DEF Assembling, Numbered, CallsNumbered
<1>5. AllCallsDelivered'
  <2>1. CASE pending' = NoTool
    <3> SUFFICES ASSUME NEW n \in 1..Len(said'), said'[n].name # NoName, ~Swallowed(n)'
                 PROVE  \E i \in 1..Len(calls') : calls'[i].id = n
      BY DEF AllCallsDelivered, Due
    <3>1. ~said'[n].open
      BY <2>1 DEF Assembling, PendingOK
    <3> QED BY <1>3, <3>1 DEF Assembling, NoneMissing
  <2>2. CASE pending' # NoTool
    BY <2>2 DEF AllCallsDelivered
  <2> QED BY <2>1, <2>2
<1> QED BY <1>2, <1>4, <1>5 DEF CallsInv

\* What has to be shown of a step that ends the stream: said may be left with an open
\* call, whose end the upstream's end was.
LEMMA FaithfulToTheEnd ==
    ASSUME CallTypes', end' # "none", NEW cd \in Seq(Said), ClosedOf(said', cd),
           Assembling(calls', cd, NoTool)
    PROVE  CallsInv'
<1>1. /\ Len(calls') \in Nat /\ Len(said') \in Nat /\ Len(cd) = Len(said')
      /\ \A n \in 1..Len(said') : /\ cd[n].name = said'[n].name /\ cd[n].parts = said'[n].parts
                                  /\ cd[n].over = said'[n].over /\ ~cd[n].open
  BY LenProperties DEF CallTypes, ClosedOf
<1>2. DeliveredFaithfully'
  BY <1>1 DEF Assembling, CollectedOK, DeliveredFaithfully
<1>3. \A n \in 1..Len(said') : Swallowed(n)' <=> SwallowedIn(cd, n)
  BY <1>1 DEF Swallowed, SwallowedIn
<1>4. CallsNumbered'
  BY <1>1, <1>3 DEF Assembling, Numbered, CallsNumbered
<1>5. AllCallsDelivered'
  BY <1>1, <1>3 DEF Assembling, NoneMissing, AllCallsDelivered, Due
<1> QED BY <1>2, <1>4, <1>5 DEF CallsInv

\* The end is "none" while the stream is read.
LEMMA ReadingAssembles ==
    ASSUME CallsInv, Reading
    PROVE  /\ CallTypes /\ Assembling(calls, said, pending)
           /\ Len(said) \in Nat /\ Len(calls) \in Nat
BY LenProperties DEF CallsInv, Reading, CallTypes

\* FirstDelta.
LEMMA FirstDeltaCalls == ASSUME CallsInv, FirstDelta PROVE CallsInv'
<1> DEFINE n == Len(said) + 1
<1>1. PICK name \in Names \cup {NoName}, part \in {NoPart, <<n, 1>>}, stop \in BOOLEAN :
          LET over == stop /\ said # <<>> /\ said[n - 1].open
              c    == Consume(pending, [id |-> n, name |-> name, part |-> part, stop |-> stop],
                              Len(calls))
          IN  /\ Reading /\ n <= MaxCalls
              /\ said' = Append(MoveOn,
                                [name |-> name,
                                 parts |-> IF part = NoPart THEN <<>> ELSE <<part>>,
                                 open |-> ~stop, over |-> over])
              /\ Handle(c.call, c.pending, Tell(Quiet, c.call))
              /\ UNCHANGED end
  BY DEF FirstDelta
<1> DEFINE over  == stop /\ said # <<>> /\ said[n - 1].open
           parts == IF part = NoPart THEN <<>> ELSE <<part>>
           x     == [name |-> name, parts |-> parts, open |-> ~stop, over |-> over]
           grown == [id |-> n, name |-> name, parts |-> parts]
           d     == [id |-> n, name |-> name, part |-> part, stop |-> stop]
           c     == Consume(pending, d, Len(calls))
           flushed  == Flush(pending, Len(calls))
           finished == Flush(grown, Len(calls) + Len(flushed))
<1>2. /\ CallTypes /\ Assembling(calls, said, pending)
      /\ Len(said) \in Nat /\ Len(calls) \in Nat
      /\ n \in Nat /\ n - 1 = Len(said) /\ MaxCalls \in Nat /\ n <= MaxCalls /\ end = "none"
  BY <1>1, ReadingAssembles, CallsAssumption DEF Reading
<1>3. MoveOn \in Seq(Said) /\ ClosedOf(said, MoveOn) /\ Len(MoveOn) = Len(said)
  BY <1>2, MoveOnCloses DEF CallTypes, ClosedOf
<1>4. parts \in Seq(Part)
  <2>1. <<n, 1>> \in Part
    BY <1>2, CallsAssumption DEF Part
  <2>2. part # NoPart => <<part>> \in Seq(Part)
    BY <2>1
  <2> QED BY <2>2
<1>5. over \in BOOLEAN
  OBVIOUS
<1>6. said' = Append(MoveOn, x) /\ calls' = calls \o c.call /\ pending' = c.pending /\ end' = end
  BY <1>1 DEF Handle
<1>7. /\ x \in Said /\ x.name = name /\ x.parts = parts
      /\ x.open = ~stop /\ x.over = over
  <2> HIDE DEF parts, over
  <2> QED BY <1>4, <1>5 DEF Said
<1>8. /\ grown \in Tool /\ grown.id = Len(said) + 1 /\ grown.name = name /\ grown.parts = parts
  <2> HIDE DEF parts
  <2> QED BY <1>2, <1>4 DEF Tool
<1>9. /\ stop => c = [call |-> IF finished = <<>> THEN flushed ELSE finished, pending |-> NoTool]
      /\ ~stop => c = [call |-> flushed, pending |-> grown]
  <2>1. pending # NoTool => pending.id = n - 1 /\ pending.id > 0
    BY <1>2 DEF Assembling, PendingOK
  <2>2. pending \in Tool
    BY <1>2 DEF CallTypes
  <2>3. n > 0
    BY <1>2
  <2> HIDE DEF n
  <2>4. n \in Nat
    BY <1>2
  <2>5. /\ d.id = n /\ d.stop = stop
        /\ grown = [id |-> n, name |-> d.name,
                    parts |-> IF d.part = NoPart THEN <<>> ELSE <<d.part>>]
    OBVIOUS
  <2> HIDE DEF n, d, grown, flushed, finished
  <2>6. /\ d.stop => Consume(pending, d, Len(calls)) =
              [call |-> IF finished = <<>> THEN flushed ELSE finished, pending |-> NoTool]
        /\ ~d.stop => Consume(pending, d, Len(calls)) = [call |-> flushed, pending |-> grown]
    BY <2>1, <2>2, <2>3, <2>4, <2>5, ConsumeFirst DEF flushed, finished
  <2> QED BY <2>5, <2>6
<1> HIDE DEF x, grown, c, flushed, finished, over, parts
<1>10. said' \in Seq(Said) /\ Len(said') <= MaxCalls
  BY <1>2, <1>3, <1>6, <1>7, Appended
<1>11. calls \in Seq(Call) /\ said \in Seq(Said) /\ pending \in Tool
  BY <1>2 DEF CallTypes
<1>12. CASE stop
  <2>1. c.call = (IF finished = <<>> THEN flushed ELSE finished) /\ c.pending = NoTool
    BY <1>9, <1>12
  <2>2. x.over <=> said # <<>> /\ said[Len(said)].open
    BY <1>2, <1>7, <1>12 DEF over
  <2>3. calls' \in Seq(Call) /\ Assembling(calls', said', NoTool)
    BY <1>2, <1>3, <1>6, <1>7, <1>8, <1>11, <1>12, <2>1, <2>2, FirstJoined DEF flushed, finished
  <2>4. NoTool \in Tool
    BY <1>2 DEF NoTool, Tool, NoId
  <2> QED BY <1>6, <1>10, <2>1, <2>3, <2>4, StillFaithful DEF CallTypes
<1>13. CASE ~stop
  <2>1. c.call = flushed /\ c.pending = grown
    BY <1>9, <1>13
  <2>2. calls' \in Seq(Call) /\ Assembling(calls', MoveOn, NoTool)
    BY <1>2, <1>3, <1>6, <1>11, <2>1, Release DEF flushed, CallTypes
  <2>3. x.open /\ ~x.over
    BY <1>7, <1>13 DEF over
  <2>4. Assembling(calls', said', grown)
    BY <1>3, <1>6, <1>7, <1>8, <2>2, <2>3, Opened
  <2>5. end' = "none" /\ pending' = grown
    BY <1>2, <1>6, <2>1
  <2> QED BY <1>8, <1>10, <2>2, <2>4, <2>5, StillFaithful DEF CallTypes
<1> QED BY <1>12, <1>13

\* NextDelta.
LEMMA NextDeltaCalls == ASSUME CallsInv, NextDelta PROVE CallsInv'
<1> DEFINE n    == Len(said)
           call == said[n]
           name == IF call.name = NoName THEN Names \cup {NoName} ELSE {call.name, NoName}
           fits == {NoPart} \cup {<<n, k>> : k \in {Len(call.parts) + 1} \cap 1..MaxParts}
<1>1. PICK i \in {n, NoId}, m \in name, p \in fits, stop \in BOOLEAN :
          LET c == Consume(pending, [id |-> i, name |-> m, part |-> p, stop |-> stop], Len(calls))
          IN  /\ said' = [said EXCEPT ![n] =
                             [call EXCEPT !.name = IF @ = NoName THEN m ELSE @,
                                          !.parts = IF p = NoPart THEN @ ELSE Append(@, p),
                                          !.open = ~stop]]
              /\ Handle(c.call, c.pending, Tell(Quiet, c.call))
  BY DEF NextDelta
<1> DEFINE d     == [id |-> i, name |-> m, part |-> p, stop |-> stop]
           c     == Consume(pending, d, Len(calls))
           named == IF call.name = NoName THEN m ELSE call.name
           parts == IF p = NoPart THEN call.parts ELSE Append(call.parts, p)
           y     == [name |-> named, parts |-> parts, open |-> TRUE, over |-> FALSE]
           z     == [name |-> named, parts |-> parts, open |-> ~stop, over |-> FALSE]
           grown == [id |-> n, name |-> named, parts |-> parts]
           sy    == [said EXCEPT ![n] = y]
<1>2. /\ CallTypes /\ Assembling(calls, said, pending)
      /\ n \in Nat /\ n > 0 /\ Len(calls) \in Nat
      /\ MaxCalls \in Nat /\ n <= MaxCalls /\ end = "none" /\ call.open
      /\ end' = end
  <2>1. Reading /\ said # <<>> /\ call.open /\ end' = end
    BY DEF NextDelta
  <2> QED BY <2>1, ReadingAssembles, CallsAssumption, EmptySeq DEF Reading, CallTypes
<1>3. calls \in Seq(Call) /\ said \in Seq(Said) /\ pending \in Tool
  BY <1>2 DEF CallTypes
<1>4. call \in Said
  BY <1>2, <1>3, ElementOfSeq
<1>5. /\ pending # NoTool /\ pending.id = n /\ pending.name = call.name
      /\ pending.parts = call.parts /\ ~call.over
  BY <1>2 DEF Assembling, PendingOK
<1>6. parts \in Seq(Part)
  <2>1. p # NoPart => p \in Part
    BY <1>2 DEF Part
  <2>2. call.parts \in Seq(Part)
    BY <1>4 DEF Said
  <2> QED BY <2>1, <2>2, Appended
<1>7. named \in Names \cup {NoName}
  BY <1>4 DEF Said
<1>8. y \in Said /\ z \in Said /\ grown \in Tool
  <2> HIDE DEF parts, named
  <2> QED BY <1>2, <1>6, <1>7 DEF Said, Tool
<1>9. said' = [said EXCEPT ![n] = z]
  <2>1. [call EXCEPT !.name = IF @ = NoName THEN m ELSE @,
                     !.parts = IF p = NoPart THEN @ ELSE Append(@, p),
                     !.open = ~stop] = z
    <3>1. [call EXCEPT !.name = IF @ = NoName THEN m ELSE @,
                       !.parts = IF p = NoPart THEN @ ELSE Append(@, p),
                       !.open = ~stop]
            = [call EXCEPT !.name = named, !.parts = parts, !.open = ~stop]
      OBVIOUS
    <3> HIDE DEF call, named, parts
    <3>2. [call EXCEPT !.name = named, !.parts = parts, !.open = ~stop]
            = [name |-> named, parts |-> parts, open |-> ~stop, over |-> call.over]
      <4>1. [call EXCEPT !.name = named, !.parts = parts, !.open = ~stop]
              = [[[call EXCEPT !.name = named] EXCEPT !.parts = parts] EXCEPT !.open = ~stop]
        OBVIOUS
      <4>2. [call EXCEPT !.name = named]
              = [name |-> named, parts |-> call.parts, open |-> call.open, over |-> call.over]
        BY <1>4 DEF Said
      <4>3. [[name |-> named, parts |-> call.parts, open |-> call.open, over |-> call.over]
                 EXCEPT !.parts = parts]
              = [name |-> named, parts |-> parts, open |-> call.open, over |-> call.over]
        OBVIOUS
      <4>4. [[name |-> named, parts |-> parts, open |-> call.open, over |-> call.over]
                 EXCEPT !.open = ~stop]
              = [name |-> named, parts |-> parts, open |-> ~stop, over |-> call.over]
        OBVIOUS
      <4> QED BY <4>1, <4>2, <4>3, <4>4
    <3>3. call.over = FALSE
      BY <1>4, <1>5 DEF Said
    <3> QED BY <3>1, <3>2, <3>3
  <2> QED BY <1>1, <2>1
<1>10. /\ stop => c = [call |-> Flush(grown, Len(calls)), pending |-> NoTool]
       /\ ~stop => c = [call |-> <<>>, pending |-> grown]
  <2>1. m = NoName \/ pending.name = NoName \/ m = pending.name
    BY <1>5
  <2>2. i \in {pending.id, NoId} /\ Len(calls) \in Nat
    BY <1>2, <1>5
  <2>3. d.stop = stop /\ d.id \in {pending.id, NoId}
        /\ (d.name = NoName \/ pending.name = NoName \/ d.name = pending.name)
    BY <2>1, <2>2
  <2>4. Longer(pending, d) = grown
    BY <1>5 DEF Longer
  <2> HIDE DEF n, d, grown
  <2>5. /\ d.stop => Consume(pending, d, Len(calls)) =
              [call |-> Flush(Longer(pending, d), Len(calls)), pending |-> NoTool]
        /\ ~d.stop => Consume(pending, d, Len(calls)) = [call |-> <<>>, pending |-> Longer(pending, d)]
    <3>1. pending \in Tool /\ pending # NoTool /\ Len(calls) \in Nat
      BY <1>3, <1>5, <2>2
    <3> QED BY <2>3, <3>1, ConsumeNext
  <2> QED BY <2>3, <2>4, <2>5
<1>11. calls' = calls \o c.call /\ pending' = c.pending
  BY <1>1 DEF Handle
<1>12. /\ grown.id = n /\ grown.name = named /\ grown.parts = parts
       /\ y.open /\ ~y.over /\ y.name = named /\ y.parts = parts
       /\ z.open = ~stop /\ ~z.over /\ z.name = named /\ z.parts = parts
  OBVIOUS
<1> HIDE DEF named, parts, y, z, grown, c
<1>13. /\ said' \in Seq(Said) /\ Len(said') = n
       /\ sy \in Seq(Said) /\ Len(sy) = n
       /\ sy[n] = y /\ said'[n] = z
       /\ \A k \in 1..n : k # n => sy[k] = said[k] /\ said'[k] = said[k]
  BY <1>2, <1>3, <1>8, <1>9
<1>14. Assembling(calls, sy, grown)
  BY <1>2, <1>3, <1>5, <1>8, <1>12, GrownOK
<1> HIDE DEF sy
<1>15. CASE stop
  <2>1. c.call = Flush(grown, Len(calls)) /\ c.pending = NoTool
    BY <1>10, <1>15
  <2>2. ClosedOf(sy, said')
    <3>1. \A k \in 1..n : k # n => ~said[k].open
      BY <1>2 DEF Assembling, PendingOK
    <3>2. ASSUME NEW k \in 1..n
          PROVE  /\ said'[k].name = sy[k].name /\ said'[k].parts = sy[k].parts
                 /\ said'[k].over = sy[k].over /\ ~said'[k].open
      <4>1. CASE k = n
        <5>1. y.over = z.over
          BY <1>8, <1>12 DEF Said
        <5> QED BY <1>12, <1>13, <1>15, <4>1, <5>1
      <4>2. CASE k # n
        BY <1>13, <3>1, <4>2
      <4> QED BY <4>1, <4>2
    <3> QED BY <1>13, <3>2 DEF ClosedOf
  <2>3. calls' \in Seq(Call) /\ Assembling(calls', said', NoTool)
    BY <1>2, <1>3, <1>8, <1>11, <1>13, <1>14, <2>1, <2>2, Release
  <2>4. NoTool \in Tool
    BY <1>2 DEF NoTool, Tool, NoId
  <2> QED BY <1>2, <1>11, <1>13, <2>1, <2>3, <2>4, StillFaithful DEF CallTypes
<1>16. CASE ~stop
  <2>1. c.call = <<>> /\ c.pending = grown
    BY <1>10, <1>16
  <2>2. calls' = calls
    BY <1>3, <1>11, <2>1, ConcatEmptySeq
  <2>3. said' = sy
    BY <1>9, <1>16 DEF sy, y, z
  <2>4. end' = "none" /\ pending' = grown /\ Assembling(calls', said', pending')
    BY <1>2, <1>11, <1>14, <2>1, <2>2, <2>3
  <2> QED BY <1>2, <1>3, <1>8, <1>13, <2>2, <2>4, StillFaithful DEF CallTypes
<1> QED BY <1>15, <1>16

\* ToolUse.
LEMMA ToolUseCalls == ASSUME CallsInv, ToolUse PROVE CallsInv'
<1> DEFINE n     == Len(said) + 1
           first == Flush(pending, Len(calls))
<1>1. PICK name \in Names \cup {NoName}, parts \in {<<>>, <<<<n, 1>>>>} :
          LET second == Flush([id |-> n, name |-> name, parts |-> parts],
                              Len(calls) + Len(first))
          IN  /\ said' = Append(MoveOn, [name |-> name, parts |-> parts,
                                         open |-> FALSE, over |-> FALSE])
              /\ Handle(first \o second, NoTool, Tell(Tell(Quiet, first), second))
  BY DEF ToolUse
<1> DEFINE x      == [name |-> name, parts |-> parts, open |-> FALSE, over |-> FALSE]
           tool   == [id |-> n, name |-> name, parts |-> parts]
           second == Flush(tool, Len(calls) + Len(first))
           ds     == calls \o first
<1>2. /\ CallTypes /\ Assembling(calls, said, pending)
      /\ Len(said) \in Nat /\ Len(calls) \in Nat
      /\ n \in Nat /\ MaxCalls \in Nat /\ n <= MaxCalls /\ end' = "none"
  <2>1. Reading /\ n <= MaxCalls /\ end' = end
    BY DEF ToolUse
  <2> QED BY <2>1, ReadingAssembles, CallsAssumption DEF Reading
<1>3. MoveOn \in Seq(Said) /\ ClosedOf(said, MoveOn) /\ Len(MoveOn) = Len(said)
  BY <1>2, MoveOnCloses DEF CallTypes, ClosedOf
<1>4. parts \in Seq(Part)
  <2>1. <<n, 1>> \in Part
    BY <1>2, CallsAssumption DEF Part
  <2>2. CASE parts = <<>>
    BY <2>2
  <2>3. CASE parts = <<<<n, 1>>>>
    BY <2>1, <2>3
  <2> QED BY <2>2, <2>3
<1>5. said' = Append(MoveOn, x) /\ calls' = calls \o (first \o second) /\ pending' = NoTool
  BY <1>1 DEF Handle
<1>6. x \in Said /\ x.name = name /\ x.parts = parts /\ ~x.open
  BY <1>4 DEF Said
<1>7. tool \in Tool /\ tool.id = Len(MoveOn) + 1 /\ tool.name = name /\ tool.parts = parts
  BY <1>2, <1>3, <1>4 DEF Tool
<1>8. ds \in Seq(Call) /\ Assembling(ds, MoveOn, NoTool)
  BY <1>2, <1>3, Release DEF CallTypes
<1>9. first \in Seq(Call) /\ Len(ds) = Len(calls) + Len(first)
  <2>1. CASE pending.name = NoName
    BY <1>2, <2>1 DEF Flush
  <2>2. CASE pending.name # NoName
    <3>1. Len(first) = 1 /\ first = <<Made(pending, Len(calls))>>
      BY <2>2 DEF Flush, Made
    <3>2. PICK z : first = <<z>>
      BY <3>1
    <3>3. Len(ds) = Len(calls) + 1 /\ ds[Len(calls) + 1] = z
      BY <1>2, <3>2
    <3>4. z \in Call
      BY <1>2, <1>8, <3>3, ElementOfSeq
    <3> QED BY <3>1, <3>2, <3>3, <3>4
  <2> QED BY <2>1, <2>2
<1> HIDE DEF x, tool, first
<1>10. /\ ds \o Flush(tool, Len(ds)) \in Seq(Call)
       /\ Assembling(ds \o Flush(tool, Len(ds)), Append(MoveOn, x), NoTool)
  BY <1>2, <1>3, <1>6, <1>7, <1>8, JoinedReleased
<1>11. second = <<>> \/ \E z : second = <<z>>
  BY DEF Flush
<1>12. calls' = ds \o Flush(tool, Len(ds))
  <2>1. second = Flush(tool, Len(ds))
    BY <1>9
  <2>2. calls \in Seq(Call)
    BY <1>2 DEF CallTypes
  <2> HIDE DEF second
  <2>3. calls \o (first \o second) = (calls \o first) \o second
    BY <1>9, <1>11, <2>2
  <2> QED BY <1>5, <2>1, <2>3
<1>13. said' \in Seq(Said) /\ Len(said') <= MaxCalls
  BY <1>2, <1>3, <1>5, <1>6, Appended
<1>14. NoTool \in Tool
  BY <1>2 DEF NoTool, Tool, NoId
<1>15. Assembling(calls', said', pending')
  BY <1>5, <1>10, <1>12
<1> QED BY <1>2, <1>5, <1>10, <1>12, <1>13, <1>14, <1>15, StillFaithful DEF CallTypes

\* Text.
LEMMA TextCalls == ASSUME CallsInv, Text PROVE CallsInv'
<1>1. /\ CallTypes /\ Assembling(calls, said, pending)
      /\ Len(said) \in Nat /\ MaxCalls \in Nat /\ end' = "none"
  <2>1. Reading /\ end' = end
    BY DEF Text
  <2> QED BY <2>1, ReadingAssembles, CallsAssumption DEF Reading
<1>2. MoveOn \in Seq(Said) /\ ClosedOf(said, MoveOn) /\ Len(MoveOn) = Len(said)
  BY <1>1, MoveOnCloses DEF CallTypes, ClosedOf
<1>3. said' = MoveOn /\ calls' = calls \o Flush(pending, Len(calls)) /\ pending' = NoTool
  BY DEF Text, Handle
<1>4. calls' \in Seq(Call) /\ Assembling(calls', said', pending')
  BY <1>1, <1>2, <1>3, Release DEF CallTypes
<1>5. NoTool \in Tool
  BY <1>1 DEF NoTool, Tool, NoId
<1> QED BY <1>1, <1>2, <1>3, <1>4, <1>5, StillFaithful DEF CallTypes

\* Steps that only write.
LEMMA WritingCalls ==
    ASSUME CallsInv, UNCHANGED <<said, pending, calls, handler>>,
           UNCHANGED end \/ (Reading /\ end' = "broken")
    PROVE  CallsInv'
<1>1. CASE end' = end
  <2>1. CallTypes' /\ (end = "none" => Assembling(calls, said, pending))'
    BY <1>1 DEF CallsInv, CallTypes
  <2>2. DeliveredFaithfully' /\ AllCallsDelivered' /\ CallsNumbered'
    BY <1>1 DEF CallsInv, DeliveredFaithfully, AllCallsDelivered, CallsNumbered, Due, Swallowed
  <2> QED BY <2>1, <2>2 DEF CallsInv
<1>2. CASE Reading /\ end' = "broken"
  <2>1. CallTypes /\ Assembling(calls, said, pending)
    BY <1>2, ReadingAssembles
  <2>2. CallTypes' /\ Assembling(calls', said', pending')
    BY <2>1 DEF CallTypes
  <2> QED BY <1>2, <2>2, StillFaithful
<1> QED BY <1>1, <1>2

\* StreamEnds: what is pending is collected, or left where nothing is promised.
LEMMA StreamEndsCalls ==
    ASSUME CallsInv, NEW how \in {"done", "error", "closed"}, StreamEnds(how)
    PROVE  CallsInv'
<1>1. /\ CallTypes /\ Assembling(calls, said, pending) /\ MaxCalls \in Nat
      /\ said' = said /\ handler' = handler /\ end' = how
      /\ calls' = calls \o Remaining(how)
      /\ pending' = IF how = "closed" /\ handler # "chat" THEN pending ELSE NoTool
  <2>1. Reading
    BY DEF StreamEnds
  <2> QED BY <2>1, ReadingAssembles, CallsAssumption DEF StreamEnds, Handle
<1>2. CASE how = "closed" /\ handler # "chat"
  <2>1. calls' = calls /\ pending' = pending
    BY <1>1, <1>2, ConcatEmptySeq DEF Remaining, CallTypes
  <2>2. CallTypes' /\ Assembling(calls', said', pending')
    BY <1>1, <2>1 DEF CallTypes
  <2> QED BY <1>1, <1>2, <2>2, StillFaithful
<1>3. CASE ~(how = "closed" /\ handler # "chat")
  <2>1. Remaining(how) = Flush(pending, Len(calls)) /\ pending' = NoTool
    BY <1>1, <1>3 DEF Remaining
  <2>2. MoveOn \in Seq(Said) /\ ClosedOf(said, MoveOn)
    BY <1>1, MoveOnCloses DEF CallTypes
  <2>3. calls' \in Seq(Call) /\ Assembling(calls', MoveOn, NoTool)
    BY <1>1, <2>1, <2>2, Release DEF CallTypes
  <2>4. NoTool \in Tool
    BY <1>1 DEF NoTool, Tool, NoId
  <2>5. CallTypes'
    BY <1>1, <2>1, <2>3, <2>4 DEF CallTypes
  <2> QED BY <1>1, <2>2, <2>3, <2>5, FaithfulToTheEnd
<1> QED BY <1>2, <1>3

\* All the rest.
LEMMA InitCalls == ASSUME Init PROVE CallsInv
<1>1. /\ said = <<>> /\ pending = NoTool /\ calls = <<>> /\ end = "none"
      /\ MaxCalls \in Nat
  BY CallsAssumption DEF Init
<1>2. NoTool \in Tool
  BY <1>1 DEF NoTool, Tool, NoId
<1>3. CallTypes
  BY <1>1, <1>2 DEF CallTypes
<1>4. Assembling(<<>>, <<>>, NoTool)
  BY DEF Assembling, PendingOK, CollectedOK, NoneMissing, Numbered
<1> QED BY <1>1, <1>3, <1>4
        DEF CallsInv, DeliveredFaithfully, AllCallsDelivered, CallsNumbered

\* Every branch of the event loop keeps the invariant of the calls.
LEMMA CallsStep == ASSUME CallsInv, [Next]_vars PROVE CallsInv'
<1>1. CASE FirstDelta BY <1>1, FirstDeltaCalls
<1>2. CASE NextDelta  BY <1>2, NextDeltaCalls
<1>3. CASE ToolUse    BY <1>3, ToolUseCalls
<1>4. CASE Text       BY <1>4, TextCalls
<1>5. CASE Reasoning \/ Signature
  <2>1. /\ said' = said /\ pending' = pending /\ calls' = calls \o <<>>
        /\ handler' = handler /\ end' = end
    BY <1>5 DEF Reasoning, Signature, Handle
  <2>2. calls' = calls
    BY <2>1, ConcatEmptySeq DEF CallsInv, CallTypes
  <2> QED BY <2>1, <2>2, WritingCalls, Zenon
<1>6. ASSUME NEW how \in {"done", "error", "closed"}, StreamEnds(how)
      PROVE  CallsInv'
  BY <1>6, StreamEndsCalls
<1>7. CASE StreamBreaks
  <2>1. /\ said' = said /\ pending' = pending /\ calls' = calls
        /\ handler' = handler /\ Reading /\ end' = "broken"
    BY <1>7 DEF StreamBreaks
  <2> QED BY <2>1, WritingCalls, Zenon
<1>8. CASE Yield \/ UNCHANGED vars
  <2>1. /\ said' = said /\ pending' = pending /\ calls' = calls
        /\ handler' = handler /\ end' = end
    BY <1>8 DEF Yield, vars
  <2> QED BY <2>1, WritingCalls, Zenon
<1> QED BY <1>1, <1>2, <1>3, <1>4, <1>5, <1>6, <1>7, <1>8 DEF Next

\* The inductive invariant of the assembly of tool calls.
THEOREM CallsInvHolds == Spec => []CallsInv
BY InitCalls, CallsStep, PTL DEF Spec

\* _consume_tool_delta and the handlers around it: the calls collected are the
\* upstream's, in its order, none twice, each with its name, all its fragments and no
\* other call's, however the deltas are cut.
THEOREM CallsFaithful == Spec => []DeliveredFaithfully
<1>1. CallsInv => DeliveredFaithfully
  BY DEF CallsInv
<1> QED BY <1>1, CallsInvHolds, PTL

\* No call with a name is lost when the stream ends with "done" or an error, or, for
\* _stream_openai_chat, when it just stops; save one that the next call replaces and
\* ends in a single delta.
THEOREM NoCallLost == Spec => []AllCallsDelivered
<1>1. CallsInv => AllCallsDelivered
  BY DEF CallsInv
<1> QED BY <1>1, CallsInvHolds, PTL

\* The indices by which a client puts the calls of _stream_openai_chat together count
\* them from 0, unless a call was swallowed.
THEOREM IndicesCount == Spec => []CallsNumbered
<1>1. CallsInv => CallsNumbered
  BY DEF CallsInv
<1> QED BY <1>1, CallsInvHolds, PTL

-----------------------------------------------------------------------------
(* Writing.  A stage is what the chunks written so far amount to: how many     *)
(* blocks were started, which one of each kind is open, and how the end goes.  *)
(* Every chunk plays a move from stage to stage, and the outbox is always a     *)
(* path from the stage the client has seen to the one the handler is at.       *)

BlockKinds == {"text", "tool_use", "thinking"}

Writer == [text : Int, thinking : Int, next : Nat, content : BOOLEAN]

Chunk == [t : {"start"}, i : Nat, kind : BlockKinds]
            \cup [t : {"delta", "stop", "call", "text", "finish", "done"}, i : Int]

Stage == [next : Nat, open : [BlockKinds -> Int], finished : BOOLEAN, ended : BOOLEAN]

\* No block is open that must be closed before the next one starts.
Free(s) == s.open["text"] = NoBlock /\ s.open["tool_use"] = NoBlock

PlaysStart(s, c, t) ==
    /\ c.t = "start" /\ c.kind \in BlockKinds /\ c.i = s.next
    /\ s.open[c.kind] = NoBlock /\ (c.kind # "thinking" => Free(s))
    /\ t = [next |-> s.next + 1, open |-> [s.open EXCEPT ![c.kind] = s.next],
            finished |-> FALSE, ended |-> FALSE]

PlaysDelta(s, c, t) ==
    c.t = "delta" /\ c.i # NoBlock /\ (\E k \in BlockKinds : s.open[k] = c.i) /\ t = s

PlaysStop(s, c, t) ==
    /\ c.t = "stop" /\ c.i # NoBlock
    /\ \E k \in BlockKinds :
          /\ s.open[k] = c.i
          /\ t = [next |-> s.next, open |-> [s.open EXCEPT ![k] = NoBlock],
                  finished |-> FALSE, ended |-> FALSE]

PlaysPlain(s, c, t) == c.t \in {"call", "text"} /\ t = s

PlaysFinish(s, c, t) ==
    c.t = "finish" /\ t = [next |-> s.next, open |-> s.open, finished |-> TRUE, ended |-> FALSE]

PlaysDone(s, c, t) ==
    /\ c.t = "done" /\ Free(s)
    /\ t = [next |-> s.next, open |-> s.open, finished |-> s.finished, ended |-> TRUE]

Plays(s, c, t) ==
    /\ ~s.ended
    /\ \/ ~s.finished /\ (\/ PlaysStart(s, c, t) \/ PlaysDelta(s, c, t)
                          \/ PlaysStop(s, c, t) \/ PlaysPlain(s, c, t))
       \/ PlaysFinish(s, c, t)
       \/ PlaysDone(s, c, t)

Path(out, s, t) ==
    \E st \in [1..(Len(out) + 1) -> Stage] :
        /\ st[1] = s /\ st[Len(out) + 1] = t
        /\ \A k \in 1..Len(out) : Plays(st[k], out[k], st[k + 1])

\* No chunks lead from a stage to itself only.
LEMMA PathEmpty ==
    ASSUME NEW s \in Stage, NEW t
    PROVE  Path(<<>>, s, t) <=> s = t
<1>1. Path(<<>>, s, t) => s = t
  BY DEF Path
<1>2. Path(<<>>, s, s)
  <2> DEFINE st == [k \in 1..1 |-> s]
  <2>1. /\ st \in [1..(Len(<<>>) + 1) -> Stage]
        /\ st[1] = s /\ st[Len(<<>>) + 1] = s
        /\ \A k \in 1..Len(<<>>) : Plays(st[k], <<>>[k], st[k + 1])
    OBVIOUS
  <2> HIDE DEF st
  <2> QED BY <2>1 DEF Path
<1> QED BY <1>1, <1>2

\* One more chunk at the end.
LEMMA PathAppend ==
    ASSUME NEW out \in Seq(Chunk), NEW s, NEW t, NEW u \in Stage, NEW c \in Chunk,
           Path(out, s, t), Plays(t, c, u)
    PROVE  Append(out, c) \in Seq(Chunk) /\ Path(Append(out, c), s, u)
<1> DEFINE n == Len(out)
           more == Append(out, c)
<1>1. /\ n \in Nat /\ more \in Seq(Chunk) /\ Len(more) = n + 1
      /\ \A k \in 1..n : more[k] = out[k]
      /\ more[n + 1] = c
  BY Appended
<1>2. PICK st \in [1..(n + 1) -> Stage] :
          /\ st[1] = s /\ st[n + 1] = t
          /\ \A k \in 1..n : Plays(st[k], out[k], st[k + 1])
  BY DEF Path
<1> DEFINE su == [k \in 1..(n + 2) |-> IF k <= n + 1 THEN st[k] ELSE u]
<1> HIDE DEF n, more
<1>3. /\ su \in [1..(n + 2) -> Stage]
      /\ su[n + 2] = u /\ su[n + 1] = t /\ su[1] = s
      /\ \A k \in 1..(n + 1) : su[k] = st[k]
  BY <1>1, <1>2
<1> HIDE DEF su
<1>4. ASSUME NEW k \in 1..(n + 1) PROVE Plays(su[k], more[k], su[k + 1])
  <2>1. CASE k = n + 1
    <3>1. su[k] = t /\ more[k] = c /\ su[k + 1] = u
      BY <1>1, <1>3, <2>1
    <3> QED BY <3>1
  <2>2. CASE k # n + 1
    <3>1. k \in 1..n /\ k + 1 \in 1..(n + 1)
      BY <1>1, <2>2
    <3>2. su[k] = st[k] /\ more[k] = out[k] /\ su[k + 1] = st[k + 1]
      BY <1>1, <1>3, <3>1
    <3> QED BY <1>2, <3>1, <3>2
  <2> QED BY <2>1, <2>2
<1>5. /\ su \in [1..(Len(more) + 1) -> Stage]
      /\ su[1] = s /\ su[Len(more) + 1] = u
      /\ \A k \in 1..Len(more) : Plays(su[k], more[k], su[k + 1])
  BY <1>1, <1>3, <1>4
<1> QED BY <1>1, <1>5 DEF Path, more

\* The first chunk goes.
LEMMA PathHead ==
    ASSUME NEW out \in Seq(Chunk), out # <<>>, NEW s, NEW t, Path(out, s, t)
    PROVE  /\ Head(out) \in Chunk /\ Tail(out) \in Seq(Chunk)
           /\ \E u \in Stage : Plays(s, Head(out), u) /\ Path(Tail(out), u, t)
<1> DEFINE n == Len(out)
           rest == Tail(out)
<1>1. /\ n \in Nat /\ n > 0 /\ rest \in Seq(Chunk) /\ Len(rest) = n - 1
      /\ \A k \in 1..(n - 1) : rest[k] = out[k + 1]
      /\ Head(out) = out[1] /\ Head(out) \in Chunk
  BY HeadTailProperties, LenProperties, EmptySeq
<1>2. PICK st \in [1..(n + 1) -> Stage] :
          /\ st[1] = s /\ st[n + 1] = t
          /\ \A k \in 1..n : Plays(st[k], out[k], st[k + 1])
  BY DEF Path
<1> DEFINE su == [k \in 1..n |-> st[k + 1]]
<1> HIDE DEF n, rest
<1>3. su \in [1..n -> Stage] /\ su[1] = st[2] /\ su[n] = t
  BY <1>1, <1>2
<1>4. ASSUME NEW k \in 1..(n - 1) PROVE Plays(su[k], rest[k], su[k + 1])
  <2>1. k \in 1..n /\ k + 1 \in 1..n
    BY <1>1
  <2>2. su[k] = st[k + 1] /\ su[k + 1] = st[k + 2] /\ rest[k] = out[k + 1]
    BY <1>1, <2>1
  <2> QED BY <1>2, <2>1, <2>2
<1> HIDE DEF su
<1>5. /\ su \in [1..(Len(rest) + 1) -> Stage]
      /\ su[1] = st[2] /\ su[Len(rest) + 1] = t
      /\ \A k \in 1..Len(rest) : Plays(su[k], rest[k], su[k + 1])
  BY <1>1, <1>3, <1>4
<1>6. Path(rest, st[2], t)
  BY <1>5 DEF Path
<1>7. Plays(s, Head(out), st[2]) /\ st[2] \in Stage
  BY <1>1, <1>2
<1> QED BY <1>1, <1>6, <1>7 DEF rest

\* The stage the handler is at, from its locals.
OpenIn(w) == [k \in BlockKinds |-> IF k = "text" THEN w.text
                                   ELSE IF k = "thinking" THEN w.thinking
                                   ELSE NoBlock]

StageOf(w, finished, ended) ==
    [next |-> w.next, open |-> OpenIn(w), finished |-> finished, ended |-> ended]

Runs == [writer : Writer, out : Seq(Chunk)]

\* r is a run of a handler from stage s on: its chunks lead where its locals say.
Run(r, s, finished, ended) ==
    /\ r \in Runs
    /\ Path(r.out, s, StageOf(r.writer, finished, ended))

\* The stage of a writer is a stage, with the blocks and the index of that writer.
LEMMA StageOfType ==
    ASSUME NEW w \in Writer, NEW f \in BOOLEAN, NEW e \in BOOLEAN
    PROVE  /\ StageOf(w, f, e) \in Stage
           /\ StageOf(w, f, e).next = w.next
           /\ StageOf(w, f, e).open = OpenIn(w)
           /\ StageOf(w, f, e).finished = f /\ StageOf(w, f, e).ended = e
           /\ OpenIn(w) \in [BlockKinds -> Int]
           /\ OpenIn(w)["text"] = w.text /\ OpenIn(w)["thinking"] = w.thinking
           /\ OpenIn(w)["tool_use"] = NoBlock
<1>1. w.text \in Int /\ w.thinking \in Int /\ w.next \in Nat /\ NoBlock \in Int
  BY DEF Writer, NoBlock
<1>2. /\ OpenIn(w)["text"] = w.text /\ OpenIn(w)["thinking"] = w.thinking
      /\ OpenIn(w)["tool_use"] = NoBlock
  BY DEF OpenIn, BlockKinds
<1>3. OpenIn(w) \in [BlockKinds -> Int]
  BY <1>1 DEF OpenIn
<1> HIDE DEF OpenIn
<1> QED BY <1>1, <1>2, <1>3 DEF StageOf, Stage

\* The chunks themselves.
LEMMA Chunks ==
    /\ \A i \in Nat, k \in BlockKinds : /\ Start(k, i) \in Chunk /\ Start(k, i).t = "start"
                                        /\ Start(k, i).i = i /\ Start(k, i).kind = k
    /\ \A i \in Int : /\ Delta(i) \in Chunk /\ Delta(i).t = "delta" /\ Delta(i).i = i
                      /\ Stop(i) \in Chunk /\ Stop(i).t = "stop" /\ Stop(i).i = i
    /\ \A t \in {"call", "text", "finish", "done"} : Plain(t) \in Chunk /\ Plain(t).t = t
BY DEF Start, Delta, Stop, Plain, Chunk, NoBlock

\* What the writing operators do to a run.
LEMMA AddIs ==
    ASSUME NEW r \in Runs, NEW c
    PROVE  /\ Add(r, c) = [writer |-> r.writer, out |-> Append(r.out, c)]
           /\ Add(r, c).writer = r.writer
<1> DEFINE o == Append(r.out, c)
<1>1. Add(r, c) = [r EXCEPT !.out = o]
  BY DEF Add
<1> HIDE DEF o
<1>2. [r EXCEPT !.out = o] = [writer |-> r.writer, out |-> o]
  BY DEF Runs
<1> QED BY <1>1, <1>2 DEF o

\* One more chunk, with the locals that go with it.
LEMMA RunAdds ==
    ASSUME NEW r, NEW s, NEW f, NEW e, Run(r, s, f, e), NEW c \in Chunk, NEW w \in Writer,
           NEW f2 \in BOOLEAN, NEW e2 \in BOOLEAN,
           Plays(StageOf(r.writer, f, e), c, StageOf(w, f2, e2))
    PROVE  Run([writer |-> w, out |-> Append(r.out, c)], s, f2, e2)
<1>1. r.out \in Seq(Chunk) /\ Path(r.out, s, StageOf(r.writer, f, e))
  BY DEF Run, Runs
<1>2. StageOf(w, f2, e2) \in Stage
  BY StageOfType
<1>3. Append(r.out, c) \in Seq(Chunk) /\ Path(Append(r.out, c), s, StageOf(w, f2, e2))
  BY <1>1, <1>2, PathAppend
<1> QED BY <1>3 DEF Run, Runs

\* The handler has written nothing yet.
LEMMA RunStarts ==
    ASSUME writer \in Writer
    PROVE  Run(Quiet, StageOf(writer, FALSE, FALSE), FALSE, FALSE)
<1>1. Quiet.writer = writer /\ Quiet.out = <<>> /\ Quiet \in Runs
  BY DEF Quiet, Runs
<1>2. StageOf(writer, FALSE, FALSE) \in Stage
  BY StageOfType
<1> QED BY <1>1, <1>2, PathEmpty DEF Run

\* Locals that make no difference to the stage.
SameStage(w, v) == w.text = v.text /\ w.thinking = v.thinking /\ w.next = v.next

\* The stage depends on the blocks and the next index alone.
LEMMA SameStageOf ==
    ASSUME NEW w, NEW v, SameStage(w, v), NEW f, NEW e
    PROVE  StageOf(w, f, e) = StageOf(v, f, e)
<1>1. OpenIn(w) = OpenIn(v)
  BY DEF SameStage, OpenIn
<1> QED BY <1>1 DEF SameStage, StageOf

\* The handler of "chat" notes that it has sent something.
LEMMA ContentIs ==
    ASSUME NEW r \in Runs
    PROVE  LET w == [r.writer EXCEPT !.content = TRUE]
           IN  /\ [r EXCEPT !.writer.content = TRUE] = [writer |-> w, out |-> r.out]
               /\ w \in Writer /\ SameStage(w, r.writer)
<1> DEFINE w == [r.writer EXCEPT !.content = TRUE]
<1>1. r.writer \in Writer
  BY DEF Runs
<1>2. w \in Writer /\ SameStage(w, r.writer)
  BY <1>1 DEF Writer, SameStage
<1>3. [r EXCEPT !.writer.content = TRUE] = [r EXCEPT !.writer = w]
  BY DEF Runs
<1> HIDE DEF w
<1>4. [r EXCEPT !.writer = w] = [writer |-> w, out |-> r.out]
  BY DEF Runs
<1> QED BY <1>2, <1>3, <1>4 DEF w

\* has_content does not matter for what a run has written.
LEMMA RunContent ==
    ASSUME NEW r, NEW s, NEW f, NEW e, Run(r, s, f, e)
    PROVE  /\ Run([r EXCEPT !.writer.content = TRUE], s, f, e)
           /\ SameStage([r EXCEPT !.writer.content = TRUE].writer, r.writer)
<1> DEFINE w == [r.writer EXCEPT !.content = TRUE]
<1>1. r \in Runs /\ Path(r.out, s, StageOf(r.writer, f, e))
  BY DEF Run
<1>2. /\ [r EXCEPT !.writer.content = TRUE] = [writer |-> w, out |-> r.out]
      /\ w \in Writer /\ SameStage(w, r.writer)
  BY <1>1, ContentIs
<1> HIDE DEF w
<1>3. StageOf(w, f, e) = StageOf(r.writer, f, e)
  BY <1>2, SameStageOf
<1>4. /\ [writer |-> w, out |-> r.out] \in Runs
      /\ [writer |-> w, out |-> r.out].writer = w
      /\ [writer |-> w, out |-> r.out].out = r.out
  BY <1>1, <1>2 DEF Runs
<1> QED BY <1>1, <1>2, <1>3, <1>4 DEF Run

\* A text or a call of "chat".
LEMMA RunPlain ==
    ASSUME NEW r, NEW s, Run(r, s, FALSE, FALSE), NEW t \in {"call", "text"}
    PROVE  Run(Add(r, Plain(t)), s, FALSE, FALSE) /\ Add(r, Plain(t)).writer = r.writer
<1>1. r \in Runs /\ r.writer \in Writer
  BY DEF Run, Runs
<1>2. /\ Add(r, Plain(t)) = [writer |-> r.writer, out |-> Append(r.out, Plain(t))]
      /\ Add(r, Plain(t)).writer = r.writer
  BY <1>1, AddIs
<1>3. Plain(t) \in Chunk /\ Plain(t).t = t
  BY Chunks
<1>4. Plays(StageOf(r.writer, FALSE, FALSE), Plain(t), StageOf(r.writer, FALSE, FALSE))
  <2>1. ~StageOf(r.writer, FALSE, FALSE).finished /\ ~StageOf(r.writer, FALSE, FALSE).ended
    BY <1>1, StageOfType
  <2> QED BY <1>3, <2>1 DEF Plays, PlaysPlain
<1>5. Run([writer |-> r.writer, out |-> Append(r.out, Plain(t))], s, FALSE, FALSE)
  BY <1>1, <1>3, <1>4, RunAdds
<1> QED BY <1>2, <1>5, Zenon

\* A finish reason.
LEMMA RunFinish ==
    ASSUME NEW r, NEW s, NEW f \in BOOLEAN, Run(r, s, f, FALSE)
    PROVE  Run(Add(r, Plain("finish")), s, TRUE, FALSE) /\ Add(r, Plain("finish")).writer = r.writer
<1>1. r \in Runs /\ r.writer \in Writer
  BY DEF Run, Runs
<1>2. /\ Add(r, Plain("finish")) = [writer |-> r.writer, out |-> Append(r.out, Plain("finish"))]
      /\ Add(r, Plain("finish")).writer = r.writer
  BY <1>1, AddIs
<1>3. Plain("finish") \in Chunk /\ Plain("finish").t = "finish"
  BY Chunks
<1>4. Plays(StageOf(r.writer, f, FALSE), Plain("finish"), StageOf(r.writer, TRUE, FALSE))
  <2>1. ~StageOf(r.writer, f, FALSE).ended
    BY <1>1, StageOfType
  <2>2. PlaysFinish(StageOf(r.writer, f, FALSE), Plain("finish"), StageOf(r.writer, TRUE, FALSE))
    BY <1>3 DEF PlaysFinish, StageOf
  <2> QED BY <2>1, <2>2 DEF Plays
<1>5. Run([writer |-> r.writer, out |-> Append(r.out, Plain("finish"))], s, TRUE, FALSE)
  BY <1>1, <1>3, <1>4, RunAdds
<1> QED BY <1>2, <1>5, Zenon

\* The end mark.
LEMMA RunDone ==
    ASSUME NEW r, NEW s, NEW f \in BOOLEAN, Run(r, s, f, FALSE), r.writer.text = NoBlock
    PROVE  Run(Add(r, Plain("done")), s, f, TRUE) /\ Add(r, Plain("done")).writer = r.writer
<1>1. r \in Runs /\ r.writer \in Writer
  BY DEF Run, Runs
<1>2. /\ Add(r, Plain("done")) = [writer |-> r.writer, out |-> Append(r.out, Plain("done"))]
      /\ Add(r, Plain("done")).writer = r.writer
  BY <1>1, AddIs
<1>3. Plain("done") \in Chunk /\ Plain("done").t = "done"
  BY Chunks
<1>4. Plays(StageOf(r.writer, f, FALSE), Plain("done"), StageOf(r.writer, f, TRUE))
  <2>1. ~StageOf(r.writer, f, FALSE).ended /\ Free(StageOf(r.writer, f, FALSE))
    BY <1>1, StageOfType DEF Free
  <2>2. PlaysDone(StageOf(r.writer, f, FALSE), Plain("done"), StageOf(r.writer, f, TRUE))
    BY <1>3, <2>1 DEF PlaysDone, StageOf
  <2> QED BY <2>1, <2>2 DEF Plays
<1>5. Run([writer |-> r.writer, out |-> Append(r.out, Plain("done"))], s, f, TRUE)
  BY <1>1, <1>3, <1>4, RunAdds
<1> QED BY <1>2, <1>5, Zenon

\* A delta of an open block.
LEMMA RunDelta ==
    ASSUME NEW r, NEW s, Run(r, s, FALSE, FALSE), NEW k \in BlockKinds,
           OpenIn(r.writer)[k] # NoBlock
    PROVE  LET i == OpenIn(r.writer)[k]
           IN  Run(Add(r, Delta(i)), s, FALSE, FALSE) /\ Add(r, Delta(i)).writer = r.writer
<1> DEFINE i == OpenIn(r.writer)[k]
<1>1. r \in Runs /\ r.writer \in Writer
  BY DEF Run, Runs
<1>2. OpenIn(r.writer) \in [BlockKinds -> Int]
  BY <1>1, StageOfType
<1>3. i \in Int
  BY <1>2
<1>4. /\ Add(r, Delta(i)) = [writer |-> r.writer, out |-> Append(r.out, Delta(i))]
      /\ Add(r, Delta(i)).writer = r.writer
  BY <1>1, AddIs
<1>5. Delta(i) \in Chunk /\ Delta(i).t = "delta" /\ Delta(i).i = i
  BY <1>3, Chunks
<1>6. Plays(StageOf(r.writer, FALSE, FALSE), Delta(i), StageOf(r.writer, FALSE, FALSE))
  <2>1. /\ ~StageOf(r.writer, FALSE, FALSE).finished /\ ~StageOf(r.writer, FALSE, FALSE).ended
        /\ StageOf(r.writer, FALSE, FALSE).open = OpenIn(r.writer)
    BY <1>1, StageOfType
  <2> QED BY <1>5, <2>1 DEF Plays, PlaysDelta
<1> HIDE DEF i
<1>7. Run([writer |-> r.writer, out |-> Append(r.out, Delta(i))], s, FALSE, FALSE)
  BY <1>1, <1>5, <1>6, RunAdds
<1>8. Run(Add(r, Delta(i)), s, FALSE, FALSE) /\ Add(r, Delta(i)).writer = r.writer
  BY <1>4, <1>7, Zenon
<1> QED BY <1>8 DEF i

\* The end of the text or thinking block.
LEMMA RunStop ==
    ASSUME NEW r, NEW s, Run(r, s, FALSE, FALSE), NEW w \in Writer, NEW k \in {"text", "thinking"},
           BlockOf(r.writer, k) # NoBlock,
           w.next = r.writer.next, BlockOf(w, k) = NoBlock,
           k = "text" => w.thinking = r.writer.thinking,
           k = "thinking" => w.text = r.writer.text
    PROVE  Run([writer |-> w, out |-> Append(r.out, Stop(BlockOf(r.writer, k)))], s, FALSE, FALSE)
<1> DEFINE i == BlockOf(r.writer, k)
<1>1. r \in Runs /\ r.writer \in Writer
  BY DEF Run, Runs
<1>2. /\ OpenIn(r.writer) \in [BlockKinds -> Int] /\ OpenIn(w) \in [BlockKinds -> Int]
      /\ OpenIn(r.writer)["text"] = r.writer.text /\ OpenIn(w)["text"] = w.text
      /\ OpenIn(r.writer)["thinking"] = r.writer.thinking /\ OpenIn(w)["thinking"] = w.thinking
      /\ OpenIn(r.writer)["tool_use"] = NoBlock /\ OpenIn(w)["tool_use"] = NoBlock
  BY <1>1, StageOfType
<1>3. k \in BlockKinds /\ i = OpenIn(r.writer)[k] /\ i \in Int
  BY <1>2 DEF BlockOf, BlockKinds
<1>4. OpenIn(w) = [OpenIn(r.writer) EXCEPT ![k] = NoBlock]
  <2>1. \A m \in BlockKinds : OpenIn(w)[m] = [OpenIn(r.writer) EXCEPT ![k] = NoBlock][m]
    BY <1>2, <1>3 DEF BlockOf, BlockKinds
  <2> QED BY <1>2, <2>1
<1>5. Stop(i) \in Chunk /\ Stop(i).t = "stop" /\ Stop(i).i = i
  BY <1>3, Chunks
<1> HIDE DEF i
<1>6. Plays(StageOf(r.writer, FALSE, FALSE), Stop(i), StageOf(w, FALSE, FALSE))
  <2>1. /\ ~StageOf(r.writer, FALSE, FALSE).finished /\ ~StageOf(r.writer, FALSE, FALSE).ended
        /\ StageOf(r.writer, FALSE, FALSE).open = OpenIn(r.writer)
        /\ StageOf(r.writer, FALSE, FALSE).next = r.writer.next
    BY <1>1, StageOfType
  <2>2. StageOf(w, FALSE, FALSE)
           = [next |-> r.writer.next, open |-> [OpenIn(r.writer) EXCEPT ![k] = NoBlock],
              finished |-> FALSE, ended |-> FALSE]
    BY <1>4 DEF StageOf
  <2>3. PlaysStop(StageOf(r.writer, FALSE, FALSE), Stop(i), StageOf(w, FALSE, FALSE))
    BY <1>3, <1>5, <2>1, <2>2 DEF PlaysStop, i
  <2> QED BY <2>1, <2>3 DEF Plays
<1>7. Run([writer |-> w, out |-> Append(r.out, Stop(i))], s, FALSE, FALSE)
  BY <1>1, <1>5, <1>6, RunAdds
<1> QED BY <1>7 DEF i

\* CloseText.
LEMMA RunCloseText ==
    ASSUME NEW r, NEW s, Run(r, s, FALSE, FALSE)
    PROVE  /\ Run(CloseText(r), s, FALSE, FALSE)
           /\ CloseText(r).writer.text = NoBlock
<1>1. r \in Runs /\ r.writer \in Writer
  BY DEF Run, Runs
<1>2. CASE r.writer.text = NoBlock
  <2>1. CloseText(r) = r
    BY <1>2 DEF CloseText
  <2> QED BY <1>2, <2>1, Zenon
<1>3. CASE r.writer.text # NoBlock
  <2> DEFINE w == [r.writer EXCEPT !.text = NoBlock]
             c == [writer |-> w, out |-> Append(r.out, Stop(BlockOf(r.writer, "text")))]
  <2>1. /\ w \in Writer /\ w.next = r.writer.next /\ w.thinking = r.writer.thinking
        /\ w.text = NoBlock
    BY <1>1 DEF Writer, NoBlock
  <2>2. CloseText(r) = c
    BY <1>3 DEF CloseText, BlockOf
  <2>3. c.writer = w
    OBVIOUS
  <2> HIDE DEF w
  <2>4. Run(c, s, FALSE, FALSE)
    <3>1. BlockOf(r.writer, "text") # NoBlock /\ BlockOf(w, "text") = NoBlock
      BY <1>3, <2>1 DEF BlockOf
    <3> QED BY <2>1, <3>1, RunStop
  <2>5. c.writer.text = NoBlock
    BY <2>1, <2>3
  <2> HIDE DEF c
  <2> QED BY <2>2, <2>4, <2>5, Zenon
<1> QED BY <1>2, <1>3

\* The text or thinking block is opened.
LEMMA OpeningIs ==
    ASSUME NEW w \in Writer, NEW k \in {"text", "thinking"}
    PROVE  /\ Opening(w, k) \in Writer
           /\ Opening(w, k).next = w.next + 1
           /\ BlockOf(Opening(w, k), k) = w.next
           /\ k = "text" => Opening(w, k).thinking = w.thinking
           /\ k = "thinking" => Opening(w, k).text = w.text
<1>0. w.next \in Nat /\ w.next + 1 \in Nat /\ w.text \in Int /\ w.thinking \in Int
  BY DEF Writer
<1>1. CASE k = "text"
  <2> DEFINE v == [text |-> w.next, thinking |-> w.thinking, next |-> w.next, content |-> w.content]
             u == [text |-> w.next, thinking |-> w.thinking, next |-> w.next + 1,
                   content |-> w.content]
  <2>1. [w EXCEPT !.text = w.next, !.next = @ + 1] = [[w EXCEPT !.text = w.next] EXCEPT !.next = @ + 1]
    BY DEF Writer
  <2>2. [w EXCEPT !.text = w.next] = v
    BY DEF Writer
  <2>3. [v EXCEPT !.next = @ + 1] = u
    OBVIOUS
  <2>4. Opening(w, k) = u
    BY <1>1, <2>1, <2>2, <2>3 DEF Opening
  <2>5. u \in Writer
    BY <1>0 DEF Writer
  <2> QED BY <1>1, <2>4, <2>5 DEF BlockOf
<1>2. CASE k = "thinking"
  <2> DEFINE v == [text |-> w.text, thinking |-> w.next, next |-> w.next, content |-> w.content]
             u == [text |-> w.text, thinking |-> w.next, next |-> w.next + 1,
                   content |-> w.content]
  <2>1. [w EXCEPT !.thinking = w.next, !.next = @ + 1]
           = [[w EXCEPT !.thinking = w.next] EXCEPT !.next = @ + 1]
    BY DEF Writer
  <2>2. [w EXCEPT !.thinking = w.next] = v
    BY DEF Writer
  <2>3. [v EXCEPT !.next = @ + 1] = u
    OBVIOUS
  <2>4. Opening(w, k) = u
    BY <1>2, <2>1, <2>2, <2>3 DEF Opening
  <2>5. u \in Writer
    BY <1>0 DEF Writer
  <2> QED BY <1>2, <2>4, <2>5 DEF BlockOf
<1> QED BY <1>1, <1>2

\* WriteBlock.
LEMMA RunWriteBlock ==
    ASSUME NEW r, NEW s, Run(r, s, FALSE, FALSE), NEW k \in {"text", "thinking"}
    PROVE  Run(WriteBlock(r, k), s, FALSE, FALSE)
<1> DEFINE i == r.writer.next
           b == BlockOf(r.writer, k)
<1>1. r \in Runs /\ r.writer \in Writer /\ i \in Nat /\ k \in BlockKinds
  BY DEF Run, Runs, Writer, BlockKinds
<1>2. b = OpenIn(r.writer)[k]
  BY <1>1, StageOfType DEF BlockOf
<1>3. CASE b # NoBlock
  <2>1. WriteBlock(r, k) = Add(r, Delta(b))
    BY <1>3 DEF WriteBlock
  <2> HIDE DEF b
  <2>2. Run(Add(r, Delta(b)), s, FALSE, FALSE)
    BY <1>1, <1>2, <1>3, RunDelta
  <2> QED BY <2>1, <2>2, Zenon
<1>4. CASE b = NoBlock
  <2> DEFINE w == Opening(r.writer, k)
             o == [writer |-> w, out |-> r.out]
             p == [writer |-> w, out |-> Append(r.out, Start(k, i))]
  <2>1. /\ w \in Writer /\ w.next = i + 1 /\ BlockOf(w, k) = i
        /\ k = "text" => w.thinking = r.writer.thinking
        /\ k = "thinking" => w.text = r.writer.text
    BY <1>1, OpeningIs
  <2> HIDE DEF w
  <2>2. [r EXCEPT !.writer = w] = o
    BY <1>1 DEF Runs
  <2>3. WriteBlock(r, k) = Add(Add([r EXCEPT !.writer = w], Start(k, i)), Delta(i))
    BY <1>4 DEF WriteBlock, w
  <2>4. o \in Runs
    BY <1>1, <2>1 DEF Runs
  <2>5. o.writer = w /\ o.out = r.out
    OBVIOUS
  <2>6. Add(o, Start(k, i)) = p
    BY <2>4, <2>5, AddIs
  <2> HIDE DEF o
  <2>7. WriteBlock(r, k) = Add(p, Delta(i))
    BY <2>2, <2>3, <2>6, Zenon
  <2>8. Start(k, i) \in Chunk /\ Start(k, i).t = "start" /\ Start(k, i).i = i /\ Start(k, i).kind = k
    BY <1>1, Chunks
  <2>9. /\ OpenIn(r.writer) \in [BlockKinds -> Int] /\ OpenIn(w) \in [BlockKinds -> Int]
        /\ OpenIn(r.writer)["text"] = r.writer.text /\ OpenIn(w)["text"] = w.text
        /\ OpenIn(r.writer)["thinking"] = r.writer.thinking /\ OpenIn(w)["thinking"] = w.thinking
        /\ OpenIn(r.writer)["tool_use"] = NoBlock /\ OpenIn(w)["tool_use"] = NoBlock
    BY <1>1, <2>1, StageOfType
  <2>10. OpenIn(w) = [OpenIn(r.writer) EXCEPT ![k] = i]
    <3>1. \A m \in BlockKinds : OpenIn(w)[m] = [OpenIn(r.writer) EXCEPT ![k] = i][m]
      BY <1>1, <2>1, <2>9 DEF BlockOf, BlockKinds
    <3> QED BY <1>1, <2>9, <3>1
  <2>11. Plays(StageOf(r.writer, FALSE, FALSE), Start(k, i), StageOf(w, FALSE, FALSE))
    <3>1. /\ ~StageOf(r.writer, FALSE, FALSE).finished /\ ~StageOf(r.writer, FALSE, FALSE).ended
          /\ StageOf(r.writer, FALSE, FALSE).open = OpenIn(r.writer)
          /\ StageOf(r.writer, FALSE, FALSE).next = i
      BY <1>1, StageOfType
    <3>2. StageOf(w, FALSE, FALSE) = [next |-> i + 1, open |-> [OpenIn(r.writer) EXCEPT ![k] = i],
                                      finished |-> FALSE, ended |-> FALSE]
      BY <2>1, <2>10 DEF StageOf
    <3>3. k # "thinking" => Free(StageOf(r.writer, FALSE, FALSE))
      BY <1>2, <1>4, <2>9, <3>1 DEF Free
    <3>4. PlaysStart(StageOf(r.writer, FALSE, FALSE), Start(k, i), StageOf(w, FALSE, FALSE))
      BY <1>1, <1>2, <1>4, <2>8, <3>1, <3>2, <3>3 DEF PlaysStart
    <3> QED BY <3>1, <3>4 DEF Plays
  <2>12. Run(p, s, FALSE, FALSE)
    BY <2>1, <2>8, <2>11, RunAdds
  <2>13. p.writer = w
    OBVIOUS
  <2>14. OpenIn(w)[k] = i /\ i # NoBlock
    BY <1>1, <2>1, <2>9 DEF BlockOf, NoBlock
  <2> HIDE DEF p, i
  <2>15. Run(Add(p, Delta(i)), s, FALSE, FALSE)
    <3>1. OpenIn(p.writer)[k] = i
      BY <2>13, <2>14
    <3>2. Run(Add(p, Delta(OpenIn(p.writer)[k])), s, FALSE, FALSE)
      BY <1>1, <2>12, <2>14, <3>1, RunDelta
    <3> QED BY <3>1, <3>2, Zenon
  <2> QED BY <2>7, <2>15, Zenon
<1> QED BY <1>3, <1>4

\* A tool call as a block of its own, with or without a delta.
LEMMA RunToolBlock ==
    ASSUME NEW r, NEW s, Run(r, s, FALSE, FALSE), r.writer.text = NoBlock,
           NEW w \in Writer, w.next = r.writer.next + 1,
           w.text = r.writer.text, w.thinking = r.writer.thinking
    PROVE  LET i == r.writer.next
               b == Append(r.out, Start("tool_use", i))
           IN  /\ Run([writer |-> w, out |-> Append(b, Stop(i))], s, FALSE, FALSE)
               /\ Run([writer |-> w, out |-> Append(Append(b, Delta(i)), Stop(i))], s, FALSE, FALSE)
<1> DEFINE i  == r.writer.next
           b  == Append(r.out, Start("tool_use", i))
           s1 == StageOf(r.writer, FALSE, FALSE)
           o2 == [OpenIn(r.writer) EXCEPT !["tool_use"] = i]
           s2 == [next |-> i + 1, open |-> o2, finished |-> FALSE, ended |-> FALSE]
           s3 == StageOf(w, FALSE, FALSE)
<1>1. /\ r.writer \in Writer /\ i \in Nat /\ i # NoBlock /\ "tool_use" \in BlockKinds
      /\ r.out \in Seq(Chunk) /\ Path(r.out, s, s1)
  <2>1. r \in Runs /\ Path(r.out, s, s1)
    BY DEF Run
  <2>2. r.writer \in Writer /\ r.out \in Seq(Chunk)
    BY <2>1 DEF Runs
  <2>3. i \in Nat
    BY <2>2 DEF Writer
  <2> HIDE DEF i, s1
  <2>4. i # NoBlock
    BY <2>3 DEF NoBlock
  <2> QED BY <2>1, <2>2, <2>3, <2>4 DEF BlockKinds
<1>2. /\ OpenIn(r.writer) \in [BlockKinds -> Int] /\ OpenIn(w) \in [BlockKinds -> Int]
      /\ OpenIn(r.writer)["text"] = r.writer.text /\ OpenIn(w)["text"] = w.text
      /\ OpenIn(r.writer)["thinking"] = r.writer.thinking /\ OpenIn(w)["thinking"] = w.thinking
      /\ OpenIn(r.writer)["tool_use"] = NoBlock /\ OpenIn(w)["tool_use"] = NoBlock
      /\ s1.next = i /\ s1.open = OpenIn(r.writer) /\ ~s1.finished /\ ~s1.ended
      /\ s3 \in Stage
  BY <1>1, StageOfType
<1>3. /\ s2 \in Stage /\ s2.open = [OpenIn(r.writer) EXCEPT !["tool_use"] = i]
      /\ s2.next = i + 1 /\ ~s2.finished /\ ~s2.ended /\ s2.open["tool_use"] = i
  <2>1. o2 \in [BlockKinds -> Int] /\ o2["tool_use"] = i
    BY <1>1, <1>2
  <2>2. i + 1 \in Nat
    BY <1>1
  <2>3. s2.open = [OpenIn(r.writer) EXCEPT !["tool_use"] = i]
    OBVIOUS
  <2> HIDE DEF o2, i
  <2> QED BY <2>1, <2>2, <2>3 DEF Stage
<1>4. s3 = [next |-> i + 1, open |-> [s2.open EXCEPT !["tool_use"] = NoBlock],
            finished |-> FALSE, ended |-> FALSE]
  <2>1. OpenIn(w) = [s2.open EXCEPT !["tool_use"] = NoBlock]
    <3>1. \A m \in BlockKinds : OpenIn(w)[m] = [s2.open EXCEPT !["tool_use"] = NoBlock][m]
      BY <1>1, <1>2, <1>3 DEF BlockKinds
    <3>2. s2.open \in [BlockKinds -> Int]
      BY <1>3 DEF Stage
    <3> QED BY <1>2, <3>1, <3>2
  <2> HIDE DEF s2
  <2> QED BY <2>1 DEF StageOf
<1>5. /\ Start("tool_use", i) \in Chunk /\ Start("tool_use", i).t = "start"
      /\ Start("tool_use", i).i = i /\ Start("tool_use", i).kind = "tool_use"
      /\ Delta(i) \in Chunk /\ Delta(i).t = "delta" /\ Delta(i).i = i
      /\ Stop(i) \in Chunk /\ Stop(i).t = "stop" /\ Stop(i).i = i
  BY <1>1, Chunks
<1>6. Plays(s1, Start("tool_use", i), s2)
  <2>1. PlaysStart(s1, Start("tool_use", i), s2)
    BY <1>1, <1>2, <1>5 DEF PlaysStart, Free
  <2> QED BY <1>2, <2>1 DEF Plays
<1> HIDE DEF s1, s2, s3, i
<1>7. Plays(s2, Delta(i), s2)
  BY <1>1, <1>3, <1>5 DEF Plays, PlaysDelta
<1>8. Plays(s2, Stop(i), s3)
  <2>1. PlaysStop(s2, Stop(i), s3)
    BY <1>1, <1>3, <1>4, <1>5 DEF PlaysStop
  <2> QED BY <1>3, <2>1 DEF Plays
<1>9. b \in Seq(Chunk) /\ Path(b, s, s2)
  BY <1>1, <1>3, <1>5, <1>6, PathAppend
<1> HIDE DEF b
<1>10. Append(b, Delta(i)) \in Seq(Chunk) /\ Path(Append(b, Delta(i)), s, s2)
  BY <1>3, <1>5, <1>7, <1>9, PathAppend
<1>11. ASSUME NEW o \in Seq(Chunk), Path(o, s, s2)
       PROVE  Run([writer |-> w, out |-> Append(o, Stop(i))], s, FALSE, FALSE)
  <2>1. Append(o, Stop(i)) \in Seq(Chunk) /\ Path(Append(o, Stop(i)), s, s3)
    BY <1>2, <1>5, <1>8, <1>11, PathAppend
  <2> QED BY <2>1 DEF Run, Runs, s3
<1>12. Run([writer |-> w, out |-> Append(b, Stop(i))], s, FALSE, FALSE)
  BY <1>9, <1>11
<1>13. Run([writer |-> w, out |-> Append(Append(b, Delta(i)), Stop(i))], s, FALSE, FALSE)
  BY <1>10, <1>11
<1> QED BY <1>12, <1>13 DEF b, i

\* A call that was finished, or none.
Finished(call) == call = <<>> \/ \E c : call = <<c>>

\* Only "messages" has blocks.
Blockless(w) == w.text = NoBlock /\ w.thinking = NoBlock

\* Tell.
LEMMA RunTell ==
    ASSUME handler \in Handlers, NEW r, NEW s, Run(r, s, FALSE, FALSE), NEW call, Finished(call)
    PROVE  /\ Run(Tell(r, call), s, FALSE, FALSE)
           /\ handler # "messages" => SameStage(Tell(r, call).writer, r.writer)
<1>0. r \in Runs /\ r.writer \in Writer
  BY DEF Run, Runs
<1>1. CASE call = <<>> \/ handler = "collect"
  <2>1. Tell(r, call) = r
    BY <1>1 DEF Tell
  <2> QED BY <2>1, Zenon DEF SameStage
<1>2. CASE call # <<>> /\ handler = "chat"
  <2> DEFINE o == [r EXCEPT !.writer.content = TRUE]
  <2>1. Tell(r, call) = Add(o, Plain("call"))
    BY <1>2 DEF Tell
  <2>2. Run(o, s, FALSE, FALSE) /\ SameStage(o.writer, r.writer)
    BY RunContent
  <2> HIDE DEF o
  <2>3. Run(Add(o, Plain("call")), s, FALSE, FALSE) /\ Add(o, Plain("call")).writer = o.writer
    BY <2>2, RunPlain
  <2> QED BY <2>1, <2>2, <2>3, Zenon
<1>3. CASE call # <<>> /\ handler = "messages"
  <2> DEFINE c == CloseText(r)
             i == c.writer.next
             w == [c.writer EXCEPT !.next = i + 1]
             o == [c EXCEPT !.writer.next = i + 1]
             b == Add(o, Start("tool_use", i))
             q == Append(c.out, Start("tool_use", i))
             d == Append(q, Delta(i))
  <2>1. Tell(r, call) = Add(IF call[1].parts = <<>> THEN b ELSE Add(b, Delta(i)), Stop(i))
    BY <1>3 DEF Tell
  <2>2. Run(c, s, FALSE, FALSE) /\ c.writer.text = NoBlock
    BY RunCloseText
  <2> HIDE DEF c
  <2>3. c \in Runs /\ c.writer \in Writer
    BY <2>2 DEF Run, Runs
  <2>4. /\ w \in Writer /\ w.next = i + 1 /\ w.text = c.writer.text
        /\ w.thinking = c.writer.thinking
    BY <2>3 DEF Writer
  <2>5. o = [writer |-> w, out |-> c.out]
    <3>1. o = [c EXCEPT !.writer = w]
      BY <2>3 DEF Runs
    <3> HIDE DEF w, o
    <3>2. [c EXCEPT !.writer = w] = [writer |-> w, out |-> c.out]
      BY <2>3 DEF Runs
    <3> QED BY <3>1, <3>2
  <2> HIDE DEF w, o
  <2>6. Run([writer |-> w, out |-> Append(q, Stop(i))], s, FALSE, FALSE)
    BY <2>2, <2>4, RunToolBlock
  <2>7. Run([writer |-> w, out |-> Append(d, Stop(i))], s, FALSE, FALSE)
    BY <2>2, <2>4, RunToolBlock
  <2>8. /\ c.out \in Seq(Chunk) /\ Start("tool_use", i) \in Chunk /\ Delta(i) \in Chunk
    <3>1. i \in Nat /\ i \in Int /\ "tool_use" \in BlockKinds
      BY <2>3 DEF Writer, BlockKinds
    <3> QED BY <2>3, <3>1, Chunks DEF Runs
  <2>9. q \in Seq(Chunk) /\ d \in Seq(Chunk)
    BY <2>8, Appended
  <2> HIDE DEF i, q, d
  <2>10. o \in Runs /\ o.writer = w /\ o.out = c.out
    BY <2>4, <2>5, <2>8 DEF Runs
  <2>11. b = [writer |-> w, out |-> q]
    BY <2>10, AddIs DEF q
  <2> HIDE DEF b
  <2>12. b \in Runs /\ b.writer = w /\ b.out = q
    BY <2>4, <2>9, <2>11 DEF Runs
  <2>13. Add(b, Delta(i)) = [writer |-> w, out |-> d]
    BY <2>12, AddIs DEF d
  <2>14. Add(b, Delta(i)) \in Runs /\ Add(b, Delta(i)).writer = w /\ Add(b, Delta(i)).out = d
    BY <2>4, <2>9, <2>13 DEF Runs
  <2>15. Add(b, Stop(i)) = [writer |-> w, out |-> Append(q, Stop(i))]
    BY <2>12, AddIs
  <2>16. Add(Add(b, Delta(i)), Stop(i)) = [writer |-> w, out |-> Append(d, Stop(i))]
    BY <2>14, AddIs
  <2>17. CASE call[1].parts = <<>>
    <3>1. Tell(r, call) = [writer |-> w, out |-> Append(q, Stop(i))]
      BY <2>1, <2>15, <2>17
    <3>2. Run(Tell(r, call), s, FALSE, FALSE)
      BY <2>6, <3>1, Zenon
    <3> QED BY <1>3, <3>2
  <2>18. CASE call[1].parts # <<>>
    <3>1. Tell(r, call) = [writer |-> w, out |-> Append(d, Stop(i))]
      BY <2>1, <2>16, <2>18
    <3>2. Run(Tell(r, call), s, FALSE, FALSE)
      BY <2>7, <3>1, Zenon
    <3> QED BY <1>3, <3>2
  <2> QED BY <2>17, <2>18
<1> QED BY <1>1, <1>2, <1>3 DEF Handlers

\* Write.
LEMMA RunWrite ==
    ASSUME handler \in Handlers, NEW r, NEW s, Run(r, s, FALSE, FALSE),
           NEW k \in {"text", "thinking"}
    PROVE  /\ Run(Write(r, k), s, FALSE, FALSE)
           /\ handler # "messages" => SameStage(Write(r, k).writer, r.writer)
<1>1. CASE handler = "collect"
  <2>1. Write(r, k) = r
    BY <1>1 DEF Write
  <2> QED BY <2>1, Zenon DEF SameStage
<1>2. CASE handler = "chat"
  <2> DEFINE o == [r EXCEPT !.writer.content = TRUE]
  <2>1. Write(r, k) = Add(o, Plain("text"))
    BY <1>2 DEF Write
  <2>2. Run(o, s, FALSE, FALSE) /\ SameStage(o.writer, r.writer)
    BY RunContent
  <2> HIDE DEF o
  <2>3. Run(Add(o, Plain("text")), s, FALSE, FALSE) /\ Add(o, Plain("text")).writer = o.writer
    BY <2>2, RunPlain
  <2> QED BY <2>1, <2>2, <2>3, Zenon
<1>3. CASE handler = "messages"
  <2>1. Write(r, k) = WriteBlock(r, k)
    BY <1>3 DEF Write
  <2>2. Run(WriteBlock(r, k), s, FALSE, FALSE)
    BY RunWriteBlock
  <2>3. Run(Write(r, k), s, FALSE, FALSE)
    BY <2>1, <2>2, Zenon
  <2> QED BY <1>3, <2>3
<1> QED BY <1>1, <1>2, <1>3 DEF Handlers

\* An end of a stream: the end mark comes, if there is a stream.
Ends == {"none", "done", "error", "closed", "broken"}

Ended == /\ handler # "collect"
         /\ end \in {"done", "error", "closed"} \/ (end = "broken" /\ handler = "chat")

\* ChatEnding.
LEMMA RunChatEnding ==
    ASSUME handler = "chat", writer \in Writer, Blockless(writer),
           NEW s, Run(Quiet, s, FALSE, FALSE),
           NEW how \in {"done", "error", "closed"}, NEW call, Finished(call)
    PROVE  /\ \E f \in BOOLEAN : Run(ChatEnding(how, call), s, f, TRUE)
           /\ Blockless(ChatEnding(how, call).writer)
<1> DEFINE told == Tell(Quiet, call)
           last == FinishLast(Quiet, call)
           said1 == [last EXCEPT !.writer.content = TRUE]
           r    == CASE how = "done"   -> last
                     [] how = "error"  -> said1
                     [] how = "closed" -> told
           m    == IF r.writer.content THEN r ELSE Add(r, Plain("finish"))
<1>1. ChatEnding(how, call) = Add(m, Plain("done"))
  BY DEF ChatEnding
<1>2. Quiet.writer = writer
  BY DEF Quiet
<1>3. Run(told, s, FALSE, FALSE) /\ SameStage(told.writer, writer)
  BY <1>2, RunTell DEF Handlers
<1>4. last = Add(told, Plain("finish"))
  BY DEF FinishLast
<1> HIDE DEF told, last
<1>5. /\ Run(Add(told, Plain("finish")), s, TRUE, FALSE)
      /\ Add(told, Plain("finish")).writer = told.writer
  BY <1>3, RunFinish
<1>6. Run(last, s, TRUE, FALSE) /\ last.writer = told.writer
  BY <1>4, <1>5, Zenon
<1>7. Run(said1, s, TRUE, FALSE) /\ SameStage(said1.writer, last.writer)
  BY <1>6, RunContent
<1> HIDE DEF said1
<1>8. Blockless(told.writer) /\ Blockless(last.writer) /\ Blockless(said1.writer)
  BY <1>3, <1>6, <1>7 DEF SameStage, Blockless
<1>9. PICK g \in BOOLEAN : Run(r, s, g, FALSE) /\ Blockless(r.writer)
  <2>1. CASE how = "done"
    <3>1. r = last
      BY <2>1
    <3> HIDE DEF r
    <3> QED BY <1>6, <1>8, <3>1, Zenon
  <2>2. CASE how = "error"
    <3>1. r = said1
      BY <2>2
    <3> HIDE DEF r
    <3> QED BY <1>7, <1>8, <3>1, Zenon
  <2>3. CASE how = "closed"
    <3>1. r = told
      BY <2>3
    <3> HIDE DEF r
    <3> QED BY <1>3, <1>8, <3>1, Zenon
  <2> QED BY <2>1, <2>2, <2>3
<1> HIDE DEF r
<1>10. PICK h \in BOOLEAN : Run(m, s, h, FALSE) /\ Blockless(m.writer)
  <2>1. CASE r.writer.content
    <3>1. m = r
      BY <2>1
    <3> HIDE DEF m
    <3> QED BY <1>9, <3>1, Zenon
  <2>2. CASE ~r.writer.content
    <3>1. m = Add(r, Plain("finish"))
      BY <2>2
    <3>2. /\ Run(Add(r, Plain("finish")), s, TRUE, FALSE)
          /\ Add(r, Plain("finish")).writer = r.writer
      BY <1>9, RunFinish
    <3> HIDE DEF m
    <3> QED BY <1>9, <3>1, <3>2, Zenon
  <2> QED BY <2>1, <2>2
<1> HIDE DEF m
<1>11. m.writer.text = NoBlock
  BY <1>10 DEF Blockless
<1>12. Run(Add(m, Plain("done")), s, h, TRUE) /\ Add(m, Plain("done")).writer = m.writer
  BY <1>10, <1>11, RunDone
<1> QED BY <1>1, <1>10, <1>12, Zenon

\* MessagesEnding.
LEMMA RunMessagesEnding ==
    ASSUME handler = "messages", NEW s, Run(Quiet, s, FALSE, FALSE),
           NEW how \in {"done", "error", "closed"}, NEW call, Finished(call)
    PROVE  Run(MessagesEnding(how, call), s, TRUE, TRUE)
<1> DEFINE told == Tell(Quiet, call)
           more == IF how = "error" THEN WriteBlock(told, "text") ELSE told
           r    == CloseText(more)
           last == Add(r, Plain("finish"))
<1>1. MessagesEnding(how, call) = Add(last, Plain("done"))
  BY DEF MessagesEnding
<1>2. Run(told, s, FALSE, FALSE)
  BY RunTell DEF Handlers
<1> HIDE DEF told
<1>3. Run(more, s, FALSE, FALSE)
  <2>1. CASE how = "error"
    <3>1. more = WriteBlock(told, "text")
      BY <2>1
    <3>2. Run(WriteBlock(told, "text"), s, FALSE, FALSE)
      BY <1>2, RunWriteBlock
    <3> HIDE DEF more
    <3> QED BY <3>1, <3>2, Zenon
  <2>2. CASE how # "error"
    <3>1. more = told
      BY <2>2
    <3> HIDE DEF more
    <3> QED BY <1>2, <3>1, Zenon
  <2> QED BY <2>1, <2>2
<1> HIDE DEF more
<1>4. Run(r, s, FALSE, FALSE) /\ r.writer.text = NoBlock
  BY <1>3, RunCloseText
<1> HIDE DEF r
<1>5. Run(last, s, TRUE, FALSE) /\ last.writer = r.writer
  BY <1>4, RunFinish
<1> HIDE DEF last
<1>6. Run(Add(last, Plain("done")), s, TRUE, TRUE)
  <2>1. last.writer.text = NoBlock
    BY <1>4, <1>5
  <2> QED BY <1>5, <2>1, RunDone
<1> QED BY <1>1, <1>6, Zenon

-----------------------------------------------------------------------------
(* The client.                                                                *)

Block == [kind : BlockKinds, open : BOOLEAN]

Client(n) == [blocks : [0..(n - 1) -> Block], cursor : Int, finished : BOOLEAN, ended : BOOLEAN]

\* The client is at stage s.
Matches(s, cl) ==
    /\ cl \in Client(s.next)
    /\ \A i \in 0..(s.next - 1) : cl.blocks[i].open <=> s.open[cl.blocks[i].kind] = i
    /\ \A k \in BlockKinds :
          s.open[k] # NoBlock => s.open[k] \in 0..(s.next - 1) /\ cl.blocks[s.open[k]].kind = k
    /\ cl.finished = s.finished /\ cl.ended = s.ended

\* What the client has yet to get takes it where the handler is.
WriteInv ==
    /\ handler \in Handlers /\ writer \in Writer /\ outbox \in Seq(Chunk) /\ end \in Ends
    /\ handler # "messages" => Blockless(writer)
    /\ \E s \in Stage, f \in BOOLEAN :
          /\ Matches(s, client) /\ Path(outbox, s, StageOf(writer, f, Ended))
          /\ f => Ended

\* When all is written the client is where the handler is.
LEMMA ReadingMatches ==
    ASSUME WriteInv, Reading
    PROVE  /\ Matches(StageOf(writer, FALSE, FALSE), client)
           /\ StageOf(writer, FALSE, FALSE) \in Stage
           /\ Run(Quiet, StageOf(writer, FALSE, FALSE), FALSE, FALSE)
<1>1. PICK s \in Stage, f \in BOOLEAN :
          /\ Matches(s, client) /\ Path(outbox, s, StageOf(writer, f, Ended))
          /\ f => Ended
  BY DEF WriteInv
<1>2. ~Ended /\ outbox = <<>>
  BY DEF Reading, Ended
<1>3. Ended = FALSE /\ f = FALSE
  BY <1>1, <1>2 DEF Ended
<1>4. Path(<<>>, s, StageOf(writer, FALSE, FALSE))
  BY <1>1, <1>2, <1>3, Zenon
<1>5. s = StageOf(writer, FALSE, FALSE)
  BY <1>4, PathEmpty
<1> QED BY <1>1, <1>5, RunStarts, Zenon DEF WriteInv

\* A step that writes the run r and does not end the stream.
LEMMA WriteStep ==
    ASSUME WriteInv, Reading, NEW r, Run(r, StageOf(writer, FALSE, FALSE), FALSE, FALSE),
           handler # "messages" => SameStage(r.writer, writer),
           handler' = handler, client' = client, end' = end,
           writer' = r.writer, outbox' = r.out
    PROVE  WriteInv'
<1> DEFINE s == StageOf(writer, FALSE, FALSE)
<1>1. Matches(s, client) /\ s \in Stage
  BY ReadingMatches
<1>2. r.writer \in Writer /\ r.out \in Seq(Chunk) /\ Path(r.out, s, StageOf(r.writer, FALSE, FALSE))
  BY DEF Run, Runs
<1>3. Ended' = FALSE
  BY DEF Ended, Reading
<1> HIDE DEF s
<1>4. Matches(s, client') /\ Path(outbox', s, StageOf(writer', FALSE, Ended'))
  BY <1>1, <1>2, <1>3, Zenon
<1>5. /\ handler' \in Handlers /\ writer' \in Writer /\ outbox' \in Seq(Chunk) /\ end' \in Ends
      /\ handler' # "messages" => Blockless(writer')
  BY <1>2 DEF WriteInv, Blockless, SameStage
<1> QED BY <1>1, <1>4, <1>5 DEF WriteInv

\* What is returned of a delta, or flushed, is a finished call or none.
LEMMA FlushFinishes == \A tool, index : Finished(Flush(tool, index))
BY DEF Flush, Finished

\* What _consume_tool_delta returns has a name.
LEMMA ConsumeFinishes == \A tool, d, index : Finished(Consume(tool, d, index).call)
<1> TAKE tool, d, index
<1> DEFINE changes  == Changes(tool, d)
           flushed  == IF changes THEN Flush(tool, index) ELSE <<>>
           grown    == Grown(IF changes THEN NoTool ELSE tool, d)
           finished == Flush(grown, FinishedIndex(flushed, index))
<1>1. Finished(flushed) /\ Finished(finished)
  BY FlushFinishes DEF Finished
<1>2. Consume(tool, d, index).call \in {flushed, finished}
  BY DEF Consume
<1> HIDE DEF flushed, finished
<1> QED BY <1>1, <1>2

\* The steps that tell of a call, or write a block, or close one.
LEMMA TellingWrites ==
    ASSUME WriteInv, FirstDelta \/ NextDelta \/ ToolUse
    PROVE  WriteInv'
<1> DEFINE s == StageOf(writer, FALSE, FALSE)
<1>1. Reading /\ end' = end
  BY DEF FirstDelta, NextDelta, ToolUse
<1>2. Run(Quiet, s, FALSE, FALSE) /\ handler \in Handlers /\ Quiet.writer = writer
  BY <1>1, ReadingMatches DEF WriteInv, Quiet
<1>3. ASSUME NEW call, NEW all, NEW tool, Finished(call), Handle(all, tool, Tell(Quiet, call))
      PROVE  WriteInv'
  <2> DEFINE r == Tell(Quiet, call)
  <2>1. Run(r, s, FALSE, FALSE) /\ (handler # "messages" => SameStage(r.writer, writer))
    BY <1>2, <1>3, RunTell
  <2>2. handler' = handler /\ client' = client /\ writer' = r.writer /\ outbox' = r.out
    BY <1>3 DEF Handle
  <2> HIDE DEF r
  <2> QED BY <1>1, <2>1, <2>2, WriteStep
<1>4. CASE FirstDelta
  BY <1>3, <1>4, ConsumeFinishes DEF FirstDelta
<1>5. CASE NextDelta
  BY <1>3, <1>5, ConsumeFinishes DEF NextDelta
<1>6. CASE ToolUse
  <2>1. PICK one, two, all :
            Finished(one) /\ Finished(two) /\ Handle(all, NoTool, Tell(Tell(Quiet, one), two))
    BY <1>6, FlushFinishes DEF ToolUse
  <2> DEFINE q == Tell(Quiet, one)
             r == Tell(q, two)
  <2>2. Run(q, s, FALSE, FALSE) /\ (handler # "messages" => SameStage(q.writer, writer))
    BY <1>2, <2>1, RunTell
  <2>3. handler' = handler /\ client' = client /\ writer' = r.writer /\ outbox' = r.out
    BY <2>1 DEF Handle
  <2> HIDE DEF q
  <2>4. Run(r, s, FALSE, FALSE) /\ (handler # "messages" => SameStage(r.writer, q.writer))
    BY <1>2, <2>1, <2>2, RunTell
  <2> HIDE DEF r
  <2>5. handler # "messages" => SameStage(r.writer, writer)
    BY <2>2, <2>4 DEF SameStage
  <2> QED BY <1>1, <2>3, <2>4, <2>5, WriteStep
<1> QED BY <1>4, <1>5, <1>6

\* Text and thinking keep the invariant of the writing.
LEMMA TextWrites ==
    ASSUME WriteInv, Text \/ Reasoning
    PROVE  WriteInv'
<1> DEFINE s == StageOf(writer, FALSE, FALSE)
<1>1. Reading /\ end' = end
  BY DEF Text, Reasoning
<1>2. Run(Quiet, s, FALSE, FALSE) /\ handler \in Handlers /\ Quiet.writer = writer
  BY <1>1, ReadingMatches DEF WriteInv, Quiet
<1>3. ASSUME NEW q, Run(q, s, FALSE, FALSE), handler # "messages" => SameStage(q.writer, writer),
             NEW k \in {"text", "thinking"}, NEW all, NEW tool, Handle(all, tool, Write(q, k))
      PROVE  WriteInv'
  <2> DEFINE r == Write(q, k)
  <2>1. Run(r, s, FALSE, FALSE) /\ (handler # "messages" => SameStage(r.writer, q.writer))
    BY <1>2, <1>3, RunWrite
  <2>2. handler' = handler /\ client' = client /\ writer' = r.writer /\ outbox' = r.out
    BY <1>3 DEF Handle
  <2> HIDE DEF r
  <2>3. handler # "messages" => SameStage(r.writer, writer)
    BY <1>3, <2>1 DEF SameStage
  <2> QED BY <1>1, <2>1, <2>2, <2>3, WriteStep
<1>4. CASE Text
  <2> DEFINE call == Flush(pending, Len(calls))
             q    == Tell(Quiet, call)
  <2>1. Run(q, s, FALSE, FALSE) /\ (handler # "messages" => SameStage(q.writer, writer))
    BY <1>2, FlushFinishes, RunTell
  <2>2. Handle(call, NoTool, Write(q, "text"))
    BY <1>4 DEF Text
  <2> HIDE DEF q, call
  <2> QED BY <1>3, <2>1, <2>2
<1>5. CASE Reasoning
  <2>1. Handle(<<>>, pending, Write(Quiet, "thinking"))
    BY <1>5 DEF Reasoning
  <2>2. SameStage(Quiet.writer, writer)
    BY <1>2 DEF SameStage
  <2> QED BY <1>2, <1>3, <2>1, <2>2
<1> QED BY <1>4, <1>5

\* So does a signature, which ends the thinking block.
LEMMA SignatureWrites ==
    ASSUME WriteInv, Signature
    PROVE  WriteInv'
<1> DEFINE s == StageOf(writer, FALSE, FALSE)
           w == [writer EXCEPT !.thinking = NoBlock]
           r == [writer |-> w, out |-> <<Stop(writer.thinking)>>]
<1>1. Reading /\ end' = end /\ writer.thinking # NoBlock /\ Handle(<<>>, pending, r)
  BY DEF Signature
<1>2. /\ Run(Quiet, s, FALSE, FALSE) /\ writer \in Writer
      /\ Quiet.writer = writer /\ Quiet.out = <<>>
  BY <1>1, ReadingMatches DEF WriteInv, Quiet
<1>3. /\ w \in Writer /\ w.next = writer.next /\ w.text = writer.text /\ w.thinking = NoBlock
  BY <1>2 DEF Writer, NoBlock
<1>4. handler = "messages"
  BY <1>1 DEF WriteInv, Blockless
<1>5. handler' = handler /\ client' = client /\ writer' = r.writer /\ outbox' = r.out
  BY <1>1 DEF Handle
<1>6. r = [writer |-> w, out |-> Append(Quiet.out, Stop(BlockOf(Quiet.writer, "thinking")))]
  BY <1>2 DEF BlockOf
<1> HIDE DEF w
<1>7. BlockOf(Quiet.writer, "thinking") # NoBlock /\ BlockOf(w, "thinking") = NoBlock
  BY <1>1, <1>2, <1>3 DEF BlockOf
<1>8. Run([writer |-> w, out |-> Append(Quiet.out, Stop(BlockOf(Quiet.writer, "thinking")))],
          s, FALSE, FALSE)
  BY <1>2, <1>3, <1>7, RunStop
<1> HIDE DEF r
<1>9. Run(r, s, FALSE, FALSE)
  BY <1>6, <1>8, Zenon
<1> QED BY <1>1, <1>4, <1>5, <1>9, WriteStep

\* A step that ends the stream.
LEMMA EndStep ==
    ASSUME WriteInv, Reading, NEW r, NEW f \in BOOLEAN, NEW e \in BOOLEAN,
           Run(r, StageOf(writer, FALSE, FALSE), f, e), f => e,
           handler # "messages" => Blockless(r.writer),
           handler' = handler, client' = client, end' \in Ends, Ended' = e,
           writer' = r.writer, outbox' = r.out
    PROVE  WriteInv'
<1> DEFINE s == StageOf(writer, FALSE, FALSE)
<1>1. Matches(s, client) /\ s \in Stage
  BY ReadingMatches
<1>2. r.writer \in Writer /\ r.out \in Seq(Chunk) /\ Path(r.out, s, StageOf(r.writer, f, e))
  BY DEF Run, Runs
<1> HIDE DEF s
<1>3. Matches(s, client') /\ Path(outbox', s, StageOf(writer', f, Ended')) /\ (f => Ended')
  BY <1>1, <1>2, Zenon
<1>4. /\ handler' \in Handlers /\ writer' \in Writer /\ outbox' \in Seq(Chunk)
      /\ handler' # "messages" => Blockless(writer')
  BY <1>2 DEF WriteInv
<1> QED BY <1>1, <1>3, <1>4 DEF WriteInv

\* So does the end of the upstream's stream.
LEMMA EndWrites ==
    ASSUME WriteInv, NEW how \in {"done", "error", "closed"}, StreamEnds(how)
    PROVE  WriteInv'
<1> DEFINE s == StageOf(writer, FALSE, FALSE)
           call == Remaining(how)
           r == Ending(how, call)
<1>1. /\ Reading /\ handler' = handler /\ client' = client /\ end' = how
      /\ writer' = r.writer /\ outbox' = r.out /\ handler \in Handlers
  BY DEF StreamEnds, Handle, WriteInv
<1>2. Run(Quiet, s, FALSE, FALSE) /\ Quiet.writer = writer /\ writer \in Writer
  BY <1>1, ReadingMatches DEF WriteInv, Quiet
<1>3. Finished(call)
  BY FlushFinishes DEF Remaining, Finished
<1>4. end' \in Ends /\ Ended' = (handler # "collect")
  BY <1>1 DEF Ends, Ended
<1>5. CASE handler = "collect"
  <2>1. r = Quiet
    BY <1>5 DEF Ending
  <2>2. Run(r, s, FALSE, FALSE)
    BY <1>2, <2>1, Zenon
  <2>3. Blockless(r.writer)
    BY <1>2, <1>5, <2>1 DEF WriteInv
  <2>4. Ended' = FALSE
    BY <1>4, <1>5
  <2> HIDE DEF r
  <2> QED BY <1>1, <1>4, <2>2, <2>3, <2>4, EndStep
<1>6. CASE handler = "chat"
  <2>1. r = ChatEnding(how, call)
    BY <1>6 DEF Ending
  <2>2. Blockless(writer)
    BY <1>6 DEF WriteInv
  <2> HIDE DEF call
  <2>3. /\ \E f \in BOOLEAN : Run(ChatEnding(how, call), s, f, TRUE)
        /\ Blockless(ChatEnding(how, call).writer)
    BY <1>2, <1>3, <1>6, <2>2, RunChatEnding
  <2> HIDE DEF r
  <2>4. PICK f \in BOOLEAN : Run(r, s, f, TRUE)
    BY <2>1, <2>3, Zenon
  <2>5. Blockless(r.writer)
    BY <2>1, <2>3
  <2>6. Ended' = TRUE
    BY <1>4, <1>6
  <2> QED BY <1>1, <1>4, <2>4, <2>5, <2>6, EndStep
<1>7. CASE handler = "messages"
  <2>1. r = MessagesEnding(how, call)
    BY <1>7 DEF Ending
  <2> HIDE DEF call
  <2>2. Run(MessagesEnding(how, call), s, TRUE, TRUE)
    BY <1>2, <1>3, <1>7, RunMessagesEnding
  <2> HIDE DEF r
  <2>3. Run(r, s, TRUE, TRUE)
    BY <2>1, <2>2, Zenon
  <2>4. Ended' = TRUE
    BY <1>4, <1>7
  <2> QED BY <1>1, <1>4, <1>7, <2>3, <2>4, EndStep
<1> QED BY <1>1, <1>5, <1>6, <1>7 DEF Handlers

\* So does an exception in the middle of it.
LEMMA BreakWrites ==
    ASSUME WriteInv, StreamBreaks
    PROVE  WriteInv'
<1> DEFINE s == StageOf(writer, FALSE, FALSE)
           q == Add(Quiet, Plain("finish"))
           r == Add(q, Plain("done"))
<1>1. /\ Reading /\ handler' = handler /\ client' = client /\ end' = "broken"
      /\ writer' = writer /\ handler \in Handlers
      /\ outbox' = IF handler = "chat" THEN <<Plain("finish"), Plain("done")>> ELSE <<>>
  BY DEF StreamBreaks, WriteInv
<1>2. /\ Run(Quiet, s, FALSE, FALSE) /\ Quiet.writer = writer /\ Quiet.out = <<>>
      /\ writer \in Writer
  BY <1>1, ReadingMatches DEF WriteInv, Quiet
<1>3. end' \in Ends /\ Ended' = (handler = "chat")
  BY <1>1 DEF Ends, Ended
<1>4. CASE handler = "chat"
  <2>1. Run(q, s, TRUE, FALSE) /\ q.writer = writer
    BY <1>2, RunFinish
  <2>2. q = [writer |-> writer, out |-> Append(<<>>, Plain("finish"))]
    <3>1. Quiet \in Runs
      BY <1>2 DEF Run
    <3> QED BY <1>2, <3>1, AddIs
  <2>3. Blockless(writer)
    BY <1>4 DEF WriteInv
  <2>4. q.out = <<Plain("finish")>>
    BY <2>2
  <2> HIDE DEF q
  <2>5. Run(r, s, TRUE, TRUE) /\ r.writer = writer
    BY <2>1, <2>3, RunDone DEF Blockless
  <2>6. r = [writer |-> writer, out |-> Append(<<Plain("finish")>>, Plain("done"))]
    <3>1. q \in Runs
      BY <2>1 DEF Run
    <3> QED BY <2>1, <2>4, <3>1, AddIs
  <2>7. r.out = <<Plain("finish"), Plain("done")>>
    BY <2>6
  <2> HIDE DEF r
  <2>8. /\ Ended' = TRUE /\ Blockless(r.writer)
        /\ writer' = r.writer /\ outbox' = r.out
    BY <1>1, <1>3, <1>4, <2>3, <2>5, <2>7
  <2> QED BY <1>1, <1>3, <2>5, <2>8, EndStep
<1>5. CASE handler # "chat"
  <2>1. Ended' = FALSE /\ writer' = Quiet.writer /\ outbox' = Quiet.out
    BY <1>1, <1>2, <1>3, <1>5
  <2>2. handler # "messages" => Blockless(Quiet.writer)
    BY <1>2 DEF WriteInv
  <2> QED BY <1>1, <1>2, <1>3, <2>1, <2>2, EndStep
<1> QED BY <1>4, <1>5

\* A client after a chunk about a block, field by field.
LEMMA Moved ==
    ASSUME NEW n, NEW cl \in Client(n), NEW bs, NEW i
    PROVE  [cl EXCEPT !.blocks = bs, !.cursor = i]
              = [blocks |-> bs, cursor |-> i, finished |-> cl.finished, ended |-> cl.ended]
<1>1. [cl EXCEPT !.blocks = bs, !.cursor = i] = [[cl EXCEPT !.blocks = bs] EXCEPT !.cursor = i]
  BY DEF Client
<1>2. [cl EXCEPT !.blocks = bs]
         = [blocks |-> bs, cursor |-> cl.cursor, finished |-> cl.finished, ended |-> cl.ended]
  BY DEF Client
<1>3. [[blocks |-> bs, cursor |-> cl.cursor, finished |-> cl.finished, ended |-> cl.ended]
           EXCEPT !.cursor = i]
         = [blocks |-> bs, cursor |-> i, finished |-> cl.finished, ended |-> cl.ended]
  OBVIOUS
<1> QED BY <1>1, <1>2, <1>3

\* What the client's state must be for it to be at stage s.
LEMMA MatchesIf ==
    ASSUME NEW s \in Stage, NEW bs \in [0..(s.next - 1) -> Block], NEW i \in Int,
           \A j \in 0..(s.next - 1) : bs[j].open <=> s.open[bs[j].kind] = j,
           \A k \in BlockKinds :
              s.open[k] # NoBlock => s.open[k] \in 0..(s.next - 1) /\ bs[s.open[k]].kind = k
    PROVE  Matches(s, [blocks |-> bs, cursor |-> i, finished |-> s.finished, ended |-> s.ended])
<1> DEFINE cl == [blocks |-> bs, cursor |-> i, finished |-> s.finished, ended |-> s.ended]
<1>1. cl.blocks = bs /\ cl.finished = s.finished /\ cl.ended = s.ended
  OBVIOUS
<1>2. s.finished \in BOOLEAN /\ s.ended \in BOOLEAN
  BY DEF Stage
<1>3. cl \in Client(s.next)
  BY <1>2 DEF Client
<1> HIDE DEF cl
<1>4. Matches(s, cl)
  BY <1>1, <1>3 DEF Matches
<1> QED BY <1>4 DEF cl

\* A block starts.
LEMMA Starting ==
    ASSUME NEW s \in Stage, NEW u \in Stage, NEW c, NEW cl, Matches(s, cl), PlaysStart(s, c, u)
    PROVE  /\ Matches(u, [blocks |-> Started(cl.blocks, c.i, c.kind), cursor |-> c.i,
                          finished |-> u.finished, ended |-> u.ended])
           /\ ~u.finished /\ ~u.ended
           /\ Cardinality(DOMAIN cl.blocks) = c.i
           /\ c.kind # "thinking" =>
                 \A i \in DOMAIN cl.blocks : cl.blocks[i].open => cl.blocks[i].kind = "thinking"
<1> DEFINE n == s.next
           bs == Started(cl.blocks, n, c.kind)
<1>1. /\ n \in Nat /\ cl \in Client(n) /\ c.i = n /\ c.kind \in BlockKinds
      /\ s.open \in [BlockKinds -> Int] /\ s.open[c.kind] = NoBlock
      /\ c.kind # "thinking" => Free(s)
  BY DEF Matches, PlaysStart, Stage
<1>2. u.next = n + 1 /\ u.open = [s.open EXCEPT ![c.kind] = n] /\ ~u.finished /\ ~u.ended
  BY DEF PlaysStart
<1>3. cl.blocks \in [0..(n - 1) -> Block] /\ DOMAIN cl.blocks = 0..(n - 1)
  BY <1>1 DEF Client
<1>4. 0..(n - 1) \cup {n} = 0..n /\ 0..(u.next - 1) = 0..n
  BY <1>1, <1>2
<1>5. /\ bs \in [0..n -> Block]
      /\ bs[n] = [kind |-> c.kind, open |-> TRUE]
      /\ \A i \in 0..(n - 1) : bs[i] = cl.blocks[i]
  <2> DEFINE new == [kind |-> c.kind, open |-> TRUE]
  <2>1. new \in Block
    BY <1>1 DEF Block
  <2>2. bs = [j \in 0..n |-> IF j = n THEN new ELSE cl.blocks[j]]
    BY <1>3, <1>4 DEF Started
  <2> HIDE DEF bs, new
  <2>3. \A j \in 0..n : j # n => j \in 0..(n - 1) /\ cl.blocks[j] \in Block
    BY <1>1, <1>3
  <2>4. bs \in [0..n -> Block]
    BY <2>1, <2>2, <2>3
  <2>5. bs[n] = new /\ \A i \in 0..(n - 1) : bs[i] = cl.blocks[i]
    BY <1>1, <2>2
  <2> QED BY <2>4, <2>5 DEF new
<1> HIDE DEF bs
<1>6. ASSUME NEW i \in 0..n PROVE bs[i].open <=> u.open[bs[i].kind] = i
  <2>1. CASE i = n
    BY <1>1, <1>2, <1>5, <2>1
  <2>2. CASE i # n
    <3>1. /\ i \in 0..(n - 1) /\ bs[i] = cl.blocks[i] /\ cl.blocks[i] \in Block
      BY <1>1, <1>3, <1>5, <2>2
    <3>2. cl.blocks[i].kind \in BlockKinds
      BY <3>1 DEF Block
    <3>3. cl.blocks[i].open <=> s.open[cl.blocks[i].kind] = i
      BY <1>1, <3>1 DEF Matches
    <3>4. i # n /\ i # NoBlock
      BY <1>1, <3>1 DEF NoBlock
    <3> QED BY <1>1, <1>2, <3>1, <3>2, <3>3, <3>4
  <2> QED BY <2>1, <2>2
<1>7. ASSUME NEW k \in BlockKinds, u.open[k] # NoBlock
      PROVE  u.open[k] \in 0..n /\ bs[u.open[k]].kind = k
  <2>1. CASE k = c.kind
    <3>1. u.open[k] = n
      BY <1>1, <1>2, <2>1
    <3> QED BY <1>1, <1>5, <2>1, <3>1
  <2>2. CASE k # c.kind
    <3>1. u.open[k] = s.open[k]
      BY <1>1, <1>2, <2>2
    <3>2. s.open[k] \in 0..(n - 1) /\ cl.blocks[s.open[k]].kind = k
      BY <1>7, <3>1 DEF Matches
    <3> QED BY <1>1, <1>5, <3>1, <3>2
  <2> QED BY <2>1, <2>2
<1>8. Matches(u, [blocks |-> bs, cursor |-> c.i, finished |-> u.finished, ended |-> u.ended])
  <2>1. bs \in [0..(u.next - 1) -> Block]
    BY <1>4, <1>5
  <2>2. c.i \in Int
    BY <1>1
  <2> QED BY <1>4, <1>6, <1>7, <2>1, <2>2, MatchesIf
<1>9. Cardinality(DOMAIN cl.blocks) = n
  <2>1. 0 \in Int /\ n - 1 \in Int
    BY <1>1
  <2>2. Cardinality(0..(n - 1)) = IF 0 > n - 1 THEN 0 ELSE (n - 1) - 0 + 1
    BY <2>1, FS_Interval
  <2> QED BY <1>1, <1>3, <2>2
<1>10. ASSUME c.kind # "thinking", NEW i \in DOMAIN cl.blocks, cl.blocks[i].open
       PROVE  cl.blocks[i].kind = "thinking"
  <2>1. s.open[cl.blocks[i].kind] = i
    BY <1>3, <1>10 DEF Matches
  <2>2. cl.blocks[i].kind \in BlockKinds
    BY <1>3 DEF Block
  <2>3. s.open["text"] = NoBlock /\ s.open["tool_use"] = NoBlock /\ i # NoBlock
    BY <1>1, <1>3, <1>10 DEF Free, NoBlock
  <2> QED BY <2>1, <2>2, <2>3 DEF BlockKinds
<1> QED BY <1>1, <1>2, <1>8, <1>9, <1>10 DEF bs

\* A block stops.
LEMMA Stopping ==
    ASSUME NEW s \in Stage, NEW u \in Stage, NEW c, NEW cl, Matches(s, cl), PlaysStop(s, c, u)
    PROVE  /\ c.i \in DOMAIN cl.blocks /\ cl.blocks[c.i].open
           /\ ~u.finished /\ ~u.ended
           /\ Matches(u, [blocks |-> [cl.blocks EXCEPT ![c.i].open = FALSE], cursor |-> c.i,
                          finished |-> u.finished, ended |-> u.ended])
<1> DEFINE n == s.next
           m == c.i
           bs == [cl.blocks EXCEPT ![m].open = FALSE]
<1>1. PICK k \in BlockKinds :
          /\ s.open[k] = m /\ m # NoBlock
          /\ u = [next |-> n, open |-> [s.open EXCEPT ![k] = NoBlock],
                  finished |-> FALSE, ended |-> FALSE]
  BY DEF PlaysStop
<1>2. n \in Nat /\ cl \in Client(n) /\ s.open \in [BlockKinds -> Int]
  BY DEF Matches, Stage
<1>3. u.next = n /\ u.open = [s.open EXCEPT ![k] = NoBlock] /\ ~u.finished /\ ~u.ended
  BY <1>1
<1>4. cl.blocks \in [0..(n - 1) -> Block] /\ DOMAIN cl.blocks = 0..(n - 1)
  BY <1>2 DEF Client
<1>5. m \in 0..(n - 1) /\ cl.blocks[m].kind = k /\ cl.blocks[m].open
  BY <1>1 DEF Matches
<1>6. /\ bs \in [0..(n - 1) -> Block]
      /\ bs[m].kind = k /\ ~bs[m].open
      /\ \A i \in 0..(n - 1) : i # m => bs[i] = cl.blocks[i]
  <2> DEFINE new == [cl.blocks[m] EXCEPT !.open = FALSE]
  <2>1. cl.blocks[m] \in Block
    BY <1>4, <1>5
  <2>2. new \in Block /\ new.kind = k /\ ~new.open
    BY <1>5, <2>1 DEF Block
  <2>3. bs = [cl.blocks EXCEPT ![m] = new]
    OBVIOUS
  <2> HIDE DEF bs, new, m
  <2> QED BY <1>4, <1>5, <2>2, <2>3
<1> HIDE DEF bs, m
<1>7. ASSUME NEW i \in 0..(n - 1) PROVE bs[i].open <=> u.open[bs[i].kind] = i
  <2>0. i # NoBlock
    BY <1>2 DEF NoBlock
  <2>1. CASE i = m
    <3>1. u.open[k] = NoBlock
      BY <1>2, <1>3
    <3> QED BY <1>6, <2>0, <2>1, <3>1
  <2>2. CASE i # m
    <3>1. bs[i] = cl.blocks[i] /\ cl.blocks[i].kind \in BlockKinds
      BY <1>4, <1>6, <2>2 DEF Block
    <3>2. cl.blocks[i].open <=> s.open[cl.blocks[i].kind] = i
      BY DEF Matches
    <3>3. CASE cl.blocks[i].kind = k
      BY <1>1, <1>2, <1>3, <2>0, <2>2, <3>1, <3>2, <3>3
    <3>4. CASE cl.blocks[i].kind # k
      BY <1>2, <1>3, <3>1, <3>2, <3>4
    <3> QED BY <3>3, <3>4
  <2> QED BY <2>1, <2>2
<1>8. ASSUME NEW j \in BlockKinds, u.open[j] # NoBlock
      PROVE  u.open[j] \in 0..(n - 1) /\ bs[u.open[j]].kind = j
  <2>1. j # k
    BY <1>2, <1>3, <1>8
  <2>2. u.open[j] = s.open[j]
    BY <1>2, <1>3, <2>1
  <2>3. s.open[j] \in 0..(n - 1) /\ cl.blocks[s.open[j]].kind = j
    BY <1>8, <2>2 DEF Matches
  <2> QED BY <1>5, <1>6, <2>1, <2>2, <2>3
<1>9. Matches(u, [blocks |-> bs, cursor |-> m, finished |-> u.finished, ended |-> u.ended])
  <2>1. bs \in [0..(u.next - 1) -> Block] /\ m \in Int
    BY <1>3, <1>5, <1>6
  <2> QED BY <1>3, <1>7, <1>8, <2>1, MatchesIf
<1> QED BY <1>3, <1>4, <1>5, <1>9 DEF bs, m

\* An open block is written to.
LEMMA WritingTo ==
    ASSUME NEW s \in Stage, NEW c, NEW cl, Matches(s, cl), PlaysDelta(s, c, s)
    PROVE  /\ c.i \in DOMAIN cl.blocks /\ cl.blocks[c.i].open
           /\ Matches(s, [blocks |-> cl.blocks, cursor |-> c.i,
                          finished |-> s.finished, ended |-> s.ended])
<1>1. PICK k \in BlockKinds : s.open[k] = c.i /\ c.i # NoBlock
  BY DEF PlaysDelta
<1>2. cl.blocks \in [0..(s.next - 1) -> Block] /\ DOMAIN cl.blocks = 0..(s.next - 1)
  BY DEF Matches, Client
<1>3. c.i \in 0..(s.next - 1) /\ cl.blocks[c.i].kind = k /\ cl.blocks[c.i].open
  BY <1>1 DEF Matches
<1>4. c.i \in Int /\ s.next \in Nat
  BY <1>3 DEF Stage
<1>5. /\ \A j \in 0..(s.next - 1) : cl.blocks[j].open <=> s.open[cl.blocks[j].kind] = j
      /\ \A j \in BlockKinds :
            s.open[j] # NoBlock => s.open[j] \in 0..(s.next - 1) /\ cl.blocks[s.open[j]].kind = j
  BY DEF Matches
<1> QED BY <1>2, <1>3, <1>4, <1>5, MatchesIf

\* The block protocol counts with a Cardinality of its own.
LEMMA SameCardinality == \A S : Protocol!Cardinality(S) = Cardinality(S)
BY DEF Protocol!Cardinality, Cardinality

\* Yield: the client gets a chunk and is at the next stage; to the block protocol that is
\* a step, or none.
LEMMA YieldMoves ==
    ASSUME NEW s \in Stage, NEW u \in Stage, Matches(s, client), Yield,
           Head(outbox) \in Chunk, Plays(s, Head(outbox), u)
    PROVE  /\ Matches(u, client')
           /\ Protocol!Next \/ UNCHANGED Protocol!vars
           /\ client.finished => Head(outbox).t \in {"finish", "done"}
<1> DEFINE c == Head(outbox)
<1>0. /\ client \in Client(s.next) /\ client.finished = s.finished /\ client.ended = s.ended
      /\ ~client.ended
  BY DEF Matches, Plays
<1>1. /\ c.t = "start"  => client' = [client EXCEPT !.blocks = Started(@, c.i, c.kind),
                                                    !.cursor = c.i]
      /\ c.t = "delta"  => client' = [client EXCEPT !.cursor = c.i]
      /\ c.t = "stop"   => client' = [client EXCEPT !.blocks[c.i].open = FALSE, !.cursor = c.i]
      /\ c.t = "finish" => client' = [client EXCEPT !.finished = TRUE]
      /\ c.t = "done"   => client' = [client EXCEPT !.ended = TRUE]
      /\ c.t \in {"call", "text"} => client' = client
  BY DEF Yield
<1> HIDE DEF c
<1>2. CASE ~s.finished /\ PlaysStart(s, c, u)
  <2> DEFINE bs == Started(client.blocks, c.i, c.kind)
  <2>1. /\ Matches(u, [blocks |-> bs, cursor |-> c.i, finished |-> u.finished, ended |-> u.ended])
        /\ ~u.finished /\ ~u.ended
        /\ Cardinality(DOMAIN client.blocks) = c.i
        /\ c.kind # "thinking" =>
              \A i \in DOMAIN client.blocks :
                  client.blocks[i].open => client.blocks[i].kind = "thinking"
        /\ c.kind \in BlockKinds /\ c.t = "start"
    <3>1. c.kind \in BlockKinds /\ c.t = "start"
      BY <1>2 DEF PlaysStart
    <3> QED BY <1>2, <3>1, Starting
  <2>2. client' = [client EXCEPT !.blocks = bs, !.cursor = c.i]
    BY <1>1, <2>1
  <2> HIDE DEF bs
  <2>3. client' = [blocks |-> bs, cursor |-> c.i,
                   finished |-> client.finished, ended |-> client.ended]
    BY <1>0, <2>2, Moved
  <2>4. /\ client.finished = u.finished /\ client.ended = u.ended
    BY <1>0, <1>2, <2>1 DEF Stage
  <2>5. Matches(u, client')
    BY <2>1, <2>3, <2>4, Zenon
  <2>6. Protocol!StartBlock(c.kind)
    <3>1. Protocol!Cardinality(DOMAIN client.blocks) = c.i
      BY <2>1, SameCardinality
    <3>2. client'.blocks = bs /\ client'.cursor = c.i /\ client'.ended = client.ended
      BY <2>3
    <3>3. c.kind # "thinking" => Protocol!Unclosed = {}
      BY <2>1 DEF Protocol!Unclosed
    <3>4. client'.blocks = [j \in DOMAIN client.blocks \cup {c.i} |->
                               IF j = c.i THEN [kind |-> c.kind, open |-> TRUE]
                               ELSE client.blocks[j]]
      BY <3>2 DEF bs, Started
    <3> QED BY <1>0, <3>1, <3>2, <3>3, <3>4 DEF Protocol!StartBlock
  <2>7. Protocol!Next
    <3>1. c.kind \in Protocol!Kinds
      BY <2>1 DEF Protocol!Kinds, BlockKinds
    <3> QED BY <2>6, <3>1 DEF Protocol!Next
  <2> QED BY <1>0, <1>2, <2>5, <2>7
<1>3. CASE ~s.finished /\ PlaysDelta(s, c, u)
  <2>1. u = s /\ c.t = "delta"
    BY <1>3 DEF PlaysDelta
  <2>2. /\ c.i \in DOMAIN client.blocks /\ client.blocks[c.i].open
        /\ Matches(u, [blocks |-> client.blocks, cursor |-> c.i,
                       finished |-> u.finished, ended |-> u.ended])
    BY <1>3, <2>1, WritingTo
  <2>3. client' = [blocks |-> client.blocks, cursor |-> c.i,
                   finished |-> client.finished, ended |-> client.ended]
    BY <1>0, <1>1, <2>1 DEF Client
  <2>4. Matches(u, client')
    BY <1>0, <2>1, <2>2, <2>3, Zenon
  <2>5. Protocol!WriteTo(c.i)
    <3>1. client'.blocks = client.blocks /\ client'.cursor = c.i /\ client'.ended = client.ended
      BY <2>3
    <3> QED BY <1>0, <2>2, <3>1 DEF Protocol!WriteTo
  <2> QED BY <1>0, <1>3, <2>2, <2>4, <2>5 DEF Protocol!Next
<1>4. CASE ~s.finished /\ PlaysStop(s, c, u)
  <2> DEFINE bs == [client.blocks EXCEPT ![c.i].open = FALSE]
  <2>1. /\ c.i \in DOMAIN client.blocks /\ client.blocks[c.i].open
        /\ ~u.finished /\ ~u.ended
        /\ Matches(u, [blocks |-> bs, cursor |-> c.i, finished |-> u.finished, ended |-> u.ended])
    BY <1>4, Stopping
  <2>2. client' = [client EXCEPT !.blocks = bs, !.cursor = c.i]
    <3>1. c.t = "stop"
      BY <1>4 DEF PlaysStop
    <3> QED BY <1>0, <1>1, <3>1 DEF Client
  <2> HIDE DEF bs
  <2>3. client' = [blocks |-> bs, cursor |-> c.i,
                   finished |-> client.finished, ended |-> client.ended]
    BY <1>0, <2>2, Moved
  <2>4. /\ client.finished = u.finished /\ client.ended = u.ended
    BY <1>0, <1>4, <2>1 DEF Stage
  <2>5. Matches(u, client')
    BY <2>1, <2>3, <2>4, Zenon
  <2>6. Protocol!StopBlock(c.i)
    <3>1. client'.blocks = bs /\ client'.cursor = c.i /\ client'.ended = client.ended
      BY <2>3
    <3> QED BY <1>0, <2>1, <3>1 DEF Protocol!StopBlock, bs
  <2> QED BY <1>0, <1>4, <2>1, <2>5, <2>6 DEF Protocol!Next
<1>5. CASE ~s.finished /\ PlaysPlain(s, c, u)
  <2>1. u = s /\ client' = client
    BY <1>1, <1>5 DEF PlaysPlain
  <2>2. Matches(u, client')
    BY <2>1, Zenon
  <2>3. UNCHANGED Protocol!vars
    BY <2>1 DEF Protocol!vars
  <2> QED BY <1>0, <1>5, <2>2, <2>3
<1>6. CASE PlaysFinish(s, c, u)
  <2>1. /\ c.t = "finish" /\ u.next = s.next /\ u.open = s.open
        /\ u.finished = TRUE /\ u.ended = FALSE
    BY <1>6 DEF PlaysFinish
  <2>2. /\ client' \in Client(s.next) /\ client'.blocks = client.blocks
        /\ client'.cursor = client.cursor /\ client'.finished = TRUE
        /\ client'.ended = client.ended
    BY <1>0, <1>1, <2>1 DEF Client
  <2>3. Matches(u, client')
    <3>1. s.ended = FALSE
      BY <1>0 DEF Client
    <3> QED BY <1>0, <2>1, <2>2, <3>1 DEF Matches
  <2>4. UNCHANGED Protocol!vars
    BY <2>2 DEF Protocol!vars
  <2> QED BY <2>1, <2>3, <2>4 DEF c
<1>7. CASE PlaysDone(s, c, u)
  <2>1. /\ c.t = "done" /\ u.next = s.next /\ u.open = s.open /\ Free(s)
        /\ u.finished = s.finished /\ u.ended = TRUE
    BY <1>7 DEF PlaysDone
  <2>2. /\ client' \in Client(s.next) /\ client'.blocks = client.blocks
        /\ client'.cursor = client.cursor /\ client'.finished = client.finished
        /\ client'.ended = TRUE
    BY <1>0, <1>1, <2>1 DEF Client
  <2>3. Matches(u, client')
    BY <1>0, <2>1, <2>2 DEF Matches
  <2>4. Protocol!Unclosed = {}
    <3> SUFFICES ASSUME NEW i \in DOMAIN client.blocks, client.blocks[i].open,
                        client.blocks[i].kind # "thinking"
                 PROVE  FALSE
      BY DEF Protocol!Unclosed
    <3>1. client.blocks \in [0..(s.next - 1) -> Block] /\ i \in 0..(s.next - 1) /\ i # NoBlock
      <4>1. client.blocks \in [0..(s.next - 1) -> Block]
        BY <1>0 DEF Client
      <4>2. s.next \in Nat
        BY DEF Stage
      <4> QED BY <4>1, <4>2 DEF NoBlock
    <3>2. s.open[client.blocks[i].kind] = i
      BY <3>1 DEF Matches
    <3>3. client.blocks[i].kind \in BlockKinds
      BY <3>1 DEF Block
    <3> QED BY <2>1, <3>1, <3>2, <3>3 DEF Free, BlockKinds
  <2>5. Protocol!StopMessage
    BY <1>0, <2>2, <2>4 DEF Protocol!StopMessage
  <2> QED BY <2>1, <2>3, <2>5 DEF Protocol!Next, c
<1> QED BY <1>2, <1>3, <1>4, <1>5, <1>6, <1>7 DEF Plays, c

\* A chunk yielded is a step of the block protocol, and late only if it may be.
LEMMA YieldWrites ==
    ASSUME WriteInv, Yield
    PROVE  /\ WriteInv'
           /\ Protocol!Next \/ UNCHANGED Protocol!vars
           /\ client.finished => Head(outbox).t \in {"finish", "done"}
<1>1. PICK s \in Stage, f \in BOOLEAN :
          /\ Matches(s, client) /\ Path(outbox, s, StageOf(writer, f, Ended))
          /\ f => Ended
  BY DEF WriteInv
<1>2. /\ outbox \in Seq(Chunk) /\ outbox # <<>> /\ outbox' = Tail(outbox)
      /\ UNCHANGED <<handler, writer, end>>
  BY DEF WriteInv, Yield
<1>3. /\ Head(outbox) \in Chunk /\ outbox' \in Seq(Chunk)
      /\ \E u \in Stage : Plays(s, Head(outbox), u)
                          /\ Path(Tail(outbox), u, StageOf(writer, f, Ended))
  BY <1>1, <1>2, PathHead
<1>4. PICK u \in Stage : /\ Plays(s, Head(outbox), u)
                         /\ Path(Tail(outbox), u, StageOf(writer, f, Ended))
  BY <1>3
<1>5. /\ Matches(u, client')
      /\ Protocol!Next \/ UNCHANGED Protocol!vars
      /\ client.finished => Head(outbox).t \in {"finish", "done"}
  BY <1>1, <1>3, <1>4, YieldMoves
<1>6. Ended' = Ended
  BY <1>2 DEF Ended
<1>7. Path(outbox', u, StageOf(writer', f, Ended')) /\ (f => Ended')
  BY <1>1, <1>2, <1>4, <1>6, Zenon
<1>8. /\ handler' \in Handlers /\ writer' \in Writer /\ outbox' \in Seq(Chunk) /\ end' \in Ends
      /\ handler' # "messages" => Blockless(writer')
  BY <1>2, <1>3 DEF WriteInv
<1>9. WriteInv'
  BY <1>5, <1>7, <1>8 DEF WriteInv
<1> QED BY <1>5, <1>9

\* Nothing is written at first, and the client has seen nothing.
LEMMA InitWrites == ASSUME Init PROVE WriteInv /\ Protocol!Init
<1> DEFINE s == StageOf(NewWriter, FALSE, FALSE)
<1>1. /\ handler \in Handlers /\ writer = NewWriter /\ outbox = <<>> /\ client = NewClient
      /\ end = "none"
  BY DEF Init
<1>2. NewWriter \in Writer /\ Blockless(NewWriter) /\ NewWriter.next = 0
  BY DEF NewWriter, Writer, NoBlock, Blockless
<1>3. s \in Stage /\ s.next = 0 /\ s.open = OpenIn(NewWriter) /\ ~s.finished /\ ~s.ended
      /\ s.finished = FALSE /\ s.ended = FALSE
  BY <1>2, StageOfType
<1>4. \A k \in BlockKinds : s.open[k] = NoBlock
  BY <1>2, <1>3, StageOfType DEF BlockKinds, Blockless
<1>5. NewClient = [blocks |-> <<>>, cursor |-> NoBlock,
                   finished |-> s.finished, ended |-> s.ended]
  BY <1>3 DEF NewClient
<1>6. Matches(s, NewClient)
  <2>1. 0..(s.next - 1) = {}
    <3>1. 0..(0 - 1) = {}
      OBVIOUS
    <3> HIDE DEF s
    <3> QED BY <1>3, <3>1
  <2>2. <<>> \in [0..(s.next - 1) -> Block]
    <3>1. <<>> \in [{} -> Block]
      OBVIOUS
    <3> HIDE DEF s
    <3> QED BY <2>1, <3>1
  <2>3. NoBlock \in Int
    BY DEF NoBlock
  <2> HIDE DEF s
  <2>4. Matches(s, [blocks |-> <<>>, cursor |-> NoBlock,
                    finished |-> s.finished, ended |-> s.ended])
    BY <1>3, <1>4, <2>1, <2>2, <2>3, MatchesIf
  <2> QED BY <1>5, <2>4, Zenon
<1>7. Path(outbox, s, StageOf(writer, FALSE, Ended)) /\ Ended = FALSE
  <2>1. Ended = FALSE
    BY <1>1 DEF Ended
  <2>2. Path(<<>>, s, s)
    BY <1>3, PathEmpty
  <2>3. outbox = <<>> /\ StageOf(writer, FALSE, Ended) = s
    BY <1>1, <2>1
  <2> HIDE DEF s
  <2> QED BY <2>1, <2>2, <2>3, Zenon
<1>8. Matches(s, client)
  BY <1>1, <1>6, Zenon
<1>9. writer \in Writer /\ outbox \in Seq(Chunk) /\ end \in Ends /\ Blockless(writer)
  BY <1>1, <1>2 DEF Ends
<1> HIDE DEF s
<1>10. WriteInv
  BY <1>1, <1>3, <1>7, <1>8, <1>9 DEF WriteInv
<1>11. Protocol!Init
  BY <1>1 DEF Protocol!Init, NewClient, NoBlock
<1> QED BY <1>10, <1>11

\* Every step keeps the invariant of the writing and implements the block protocol.
LEMMA WritesStep ==
    ASSUME WriteInv, [Next]_vars
    PROVE  /\ WriteInv'
           /\ Protocol!Next \/ UNCHANGED Protocol!vars
           /\ Yield /\ client.finished => Head(outbox).t \in {"finish", "done"}
<1>1. CASE Yield
  BY <1>1, YieldWrites
<1>2. ASSUME ~Yield PROVE client' = client
  BY <1>2 DEF Next, vars, FirstDelta, NextDelta, ToolUse, Text, Reasoning, Signature,
              StreamEnds, StreamBreaks, Handle
<1>3. CASE ~Yield
  <2>1. UNCHANGED Protocol!vars
    BY <1>2, <1>3 DEF Protocol!vars
  <2>2. CASE FirstDelta \/ NextDelta \/ ToolUse
    BY <1>3, <2>1, <2>2, TellingWrites
  <2>3. CASE Text \/ Reasoning
    BY <1>3, <2>1, <2>3, TextWrites
  <2>4. CASE Signature
    BY <1>3, <2>1, <2>4, SignatureWrites
  <2>5. ASSUME NEW how \in {"done", "error", "closed"}, StreamEnds(how)
        PROVE  WriteInv'
    BY <2>5, EndWrites
  <2>6. CASE StreamBreaks
    BY <1>3, <2>1, <2>6, BreakWrites
  <2>7. CASE UNCHANGED vars
    <3>1. WriteInv'
      BY <2>7 DEF vars, WriteInv, Ended
    <3> QED BY <1>3, <2>1, <3>1
  <2> QED BY <1>3, <2>1, <2>2, <2>3, <2>4, <2>5, <2>6, <2>7 DEF Next
<1> QED BY <1>1, <1>3

\* The inductive invariant of the writers: what is written and not yet sent is always a
\* legal way from where the client is to where the handler is.
THEOREM WriteInvHolds == Spec => []WriteInv
<1>1. Init => WriteInv
  BY InitWrites
<1>2. WriteInv /\ [Next]_vars => WriteInv'
  BY WritesStep
<1> QED BY <1>1, <1>2, PTL DEF Spec

\* The variables of the three handlers keep their types.
THEOREM TypeCorrect == Spec => []TypeOK
<1>1. CallsInv /\ WriteInv => TypeOK
  <2> SUFFICES ASSUME CallsInv, WriteInv PROVE TypeOK
    OBVIOUS
  <2>1. \A k \in 1..Len(outbox) : outbox[k].t \in {"start", "delta", "stop", "call", "text",
                                                  "finish", "done"}
    <3> TAKE k \in 1..Len(outbox)
    <3>1. outbox[k] \in Chunk
      BY ElementOfSeq DEF WriteInv
    <3> QED BY <3>1 DEF Chunk
  <2>2. writer \in [text : Int, thinking : Int, next : Nat, content : BOOLEAN]
    BY DEF WriteInv, Writer
  <2> QED BY <2>1, <2>2 DEF CallsInv, CallTypes, WriteInv, TypeOK, Said, Call, Ends
<1> QED BY <1>1, CallsInvHolds, WriteInvHolds, PTL

\* _stream_anthropic's chunks follow the block protocol (AnthropicBlocks): blocks numbered
\* in the order they start, written to only while open, text and tools never overlapping,
\* and all of them closed before message_stop.
THEOREM FollowsTheProtocol == Spec => FollowsProtocol
<1>1. Init => Protocol!Init
  BY InitWrites
<1>2. WriteInv /\ [Next]_vars => [Protocol!Next]_(Protocol!vars)
  BY WritesStep
<1> QED BY <1>1, <1>2, WriteInvHolds, PTL DEF Spec, FollowsProtocol, Protocol!Spec

\* After a finish reason _stream_openai_chat and _stream_anthropic send only another one
\* and the end mark: a client that stops reading there misses nothing.
THEOREM FinishIsLast == Spec => NothingAfterFinish
<1> DEFINE Late == outbox # <<>> /\ outbox' = Tail(outbox) /\ client.finished =>
                      Head(outbox).t \in {"finish", "done"}
<1>1. WriteInv /\ [Next]_vars => [Late]_vars
  <2> SUFFICES ASSUME WriteInv, [Next]_vars, outbox # <<>>, outbox' = Tail(outbox),
                      client.finished
               PROVE  Head(outbox).t \in {"finish", "done"}
    OBVIOUS
  <2>1. CASE Yield
    BY <2>1, WritesStep
  <2>2. CASE ~Yield
    <3>1. outbox' # outbox
      <4>1. outbox \in Seq(Chunk) /\ Len(outbox) \in Nat
        BY LenProperties DEF WriteInv
      <4>2. Len(Tail(outbox)) = Len(outbox) - 1
        BY <4>1, HeadTailProperties
      <4>3. ASSUME outbox' = outbox
            PROVE  FALSE
        <5>1. Tail(outbox) = outbox
          BY <4>3
        <5>2. Len(outbox) = Len(outbox) - 1
          BY <4>2, <5>1, Zenon
        <5> QED BY <4>1, <5>2
      <4> QED BY <4>3
    <3>2. outbox = <<>>
      BY <2>2, <3>1 DEF Next, vars, Reading, FirstDelta, NextDelta, ToolUse, Text, Reasoning,
                        Signature, StreamEnds, StreamBreaks
    <3> QED BY <3>2
  <2> QED BY <2>1, <2>2
<1> QED BY <1>1, WriteInvHolds, PTL DEF Spec, NothingAfterFinish

-----------------------------------------------------------------------------
(* The event stream.  Cells are counted through the whole body: the parser is *)
(* done with the first Done of them, those up to got are in the buffer, the   *)
(* others on the wire.  What is said of the things sent is said of any        *)
(* sequence sd of them, so that the upstream's step can be taken apart.       *)

Types == {"", "assistantResponseEvent", "reasoningContentEvent", "toolUseEvent", "exception",
          "messageStopEvent"}

Keys == {"content", "stopReason", "text", "signature", "toolUseId", "message",
         "assistantResponseEvent", "assistantResponseMessage", "reasoningContentEvent",
         "toolUseEvent", "toolUses", "errorMessage", "error"}

EventFrame == [type : Types, keys : SUBSET Keys]

Events == {"text", "reasoning", "reasoning_signature", "tool_delta", "tool_use", "error", "done"}

Cell ==      [cell : {"length"}, size : Nat]
        \cup [cell : {"body"}, frame : EventFrame]
        \cup [cell : {"data"}, frame : EventFrame, last : BOOLEAN]
        \cup {NewLine}

Sent == [thing : Things, legal : BOOLEAN, end : Nat]

StreamTypes ==
    /\ form \in {"binary", "sse"} /\ mode \in {"unknown", "binary", "sse"}
    /\ pc \in {"wait", "binary", "sse", "final", "closed", "failed"}
    /\ sent \in Seq(Sent) /\ wire \in Seq(Cell) /\ buf \in Seq(Cell)
    /\ got \in Nat /\ Len(buf) <= got
    /\ relayed \in Seq(Seq(Events))

\* The cells of thing i are those after StartOf(sd, i), up to its end.
StartOf(sd, i) == IF i = 1 THEN 0 ELSE sd[i - 1].end
CellsOf(sd, i) == (StartOf(sd, i) + 1)..sd[i].end

\* The blank line an SSE event ends with; a frame has none.
BlankLine(fm) == IF fm = "sse" THEN 2 ELSE 0

\* The things lie one after the other, and the body has no other cells.
Laid(fm, sd) ==
    /\ \A i \in 1..Len(sd) : StartOf(sd, i) + MinFrame + BlankLine(fm) <= sd[i].end
    /\ \A i, j \in 1..Len(sd) : i < j => sd[i].end <= StartOf(sd, j)
    /\ \A k \in 1..End(sd) : \E i \in 1..Len(sd) : k \in CellsOf(sd, i)

Carries(frame, t) == Dispatch(frame) = Meaning(t.thing)

\* Cell c is the k-th of the body, as thing i has it there.
IsCell(fm, sd, c, i, k) ==
    IF fm = "binary"
    THEN IF k = StartOf(sd, i) + 1
         THEN /\ c.cell = "length"
              /\ sd[i].legal = Legal(c.size)
              /\ sd[i].legal => c.size = sd[i].end - StartOf(sd, i)
         ELSE c.cell = "body" /\ Carries(c.frame, sd[i])
    ELSE /\ sd[i].legal
         /\ IF k > sd[i].end - 2
            THEN c.cell = "newline"
            ELSE c.cell = "data" /\ c.last = (k = sd[i].end - 2) /\ Carries(c.frame, sd[i])

\* Every cell of the buffer b and the wire w is the one the upstream sent, the
\* first g having arrived.
Carried(fm, sd, b, w, g) ==
    \A i \in 1..Len(sd) : \A k \in CellsOf(sd, i) :
        /\ k \in (g - Len(b) + 1)..g => IsCell(fm, sd, b[k - (g - Len(b))], i, k)
        /\ k \in (g + 1)..(g + Len(w)) => IsCell(fm, sd, w[k - g], i, k)

Done == got - Len(buf)

OnTheWay == /\ got + Len(wire) <= End(sent)
            /\ pc \in {"wait", "binary", "sse"} => got + Len(wire) = End(sent)

\* The mode is the form, unless a corrupted length made the parser give up.
Modes ==
    /\ mode = "unknown" <=> got < Detect
    /\ mode = "unknown" => Done = 0
    /\ mode = "binary" => form = "binary"
    /\ pc = "binary" => mode = "binary"
    /\ pc \in {"sse", "final"} => mode = "sse"
    /\ mode = "sse" /\ form = "binary" =>
          Len(relayed) < Len(sent) /\ ~sent[Len(relayed) + 1].legal

\* How much may be wanting of the last thing relayed.
Released == pc = "closed" /\ mode = "sse"
Missing  == IF Released /\ form = "sse" THEN 2 ELSE 0

\* What is relayed is the first things sent, as what they mean.
Faithful ==
    /\ Len(relayed) <= Len(sent)
    /\ \A i \in 1..Len(relayed) : /\ relayed[i] = Meaning(sent[i].thing)
                                  /\ sent[i].legal /\ sent[i].end <= got + Missing

\* Outside its loops the parser can relay nothing more.
Exhausted ==
    pc \in {"wait", "failed", "closed"} =>
        \A i \in 1..Len(sent) :
            i = Len(relayed) + 1 /\ sent[i].legal => sent[i].end > got + Missing

\* The buffer begins where the last thing relayed ends.
Stands == ~Released => Done = StartOf(sent, Len(relayed) + 1)

ParserInv == /\ StreamTypes /\ Laid(form, sent) /\ Carried(form, sent, buf, wire, got) /\ OnTheWay
             /\ Modes /\ Faithful /\ Exhausted /\ Stands

-----------------------------------------------------------------------------
(* Where the things lie.                                                      *)

LEMMA SentFacts ==
    ASSUME NEW sd \in Seq(Sent)
    PROVE  /\ Len(sd) \in Nat /\ End(sd) \in Nat
           /\ \A i \in 1..Len(sd) : /\ sd[i].thing \in Things /\ sd[i].legal \in BOOLEAN
                                    /\ sd[i].end \in Nat /\ StartOf(sd, i) \in Nat
<1>1. Len(sd) \in Nat /\ \A i \in 1..Len(sd) : sd[i] \in Sent
  BY ElementOfSeq
<1>2. \A i \in 1..Len(sd) : /\ sd[i].thing \in Things /\ sd[i].legal \in BOOLEAN
                            /\ sd[i].end \in Nat
  BY <1>1 DEF Sent
<1>3. \A i \in 1..Len(sd) : StartOf(sd, i) \in Nat
  BY <1>1, <1>2 DEF StartOf
<1>4. End(sd) \in Nat
  BY <1>1, <1>2 DEF End
<1> QED BY <1>1, <1>2, <1>3, <1>4

LEMMA BlankLineType == \A fm : BlankLine(fm) \in Nat
BY DEF BlankLine

\* An earlier thing ends where a later one begins, or before.
LEMMA EndsInOrder ==
    ASSUME NEW fm, NEW sd \in Seq(Sent), Laid(fm, sd), NEW i \in 1..Len(sd), NEW j \in 1..Len(sd)
    PROVE  /\ StartOf(sd, i) + MinFrame <= sd[i].end
           /\ i < j => sd[i].end <= StartOf(sd, j) /\ sd[i].end < sd[j].end
           /\ i <= j => sd[i].end <= sd[j].end
           /\ sd[i].end <= End(sd)
<1>1. Len(sd) \in Nat /\ \A l \in 1..Len(sd) : sd[l].end \in Nat /\ StartOf(sd, l) \in Nat
  BY SentFacts
<1>2. \A l \in 1..Len(sd) : StartOf(sd, l) + MinFrame <= sd[l].end
  BY <1>1, BlankLineType DEF Laid, MinFrame
<1>3. \A l, m \in 1..Len(sd) : l < m => sd[l].end <= StartOf(sd, m) /\ sd[l].end < sd[m].end
  BY <1>1, <1>2 DEF Laid, MinFrame
<1>4. sd # <<>> /\ Len(sd) \in 1..Len(sd)
  BY <1>1
<1>5. sd[i].end <= sd[Len(sd)].end
  BY <1>1, <1>3, <1>4
<1> QED BY <1>1, <1>2, <1>3, <1>4, <1>5 DEF End

\* A cell belongs to one thing.
LEMMA CellOfOne ==
    ASSUME NEW fm, NEW sd \in Seq(Sent), Laid(fm, sd), NEW i \in 1..Len(sd), NEW j \in 1..Len(sd),
           NEW k \in CellsOf(sd, i), k \in CellsOf(sd, j)
    PROVE  i = j
<1>1. Len(sd) \in Nat /\ \A l \in 1..Len(sd) : sd[l].end \in Nat /\ StartOf(sd, l) \in Nat
  BY SentFacts
<1>2. \A l, m \in 1..Len(sd) : l < m => sd[l].end <= StartOf(sd, m)
  BY DEF Laid
<1> QED BY <1>1, <1>2 DEF CellsOf

-----------------------------------------------------------------------------
(* What the invariant is for.                                                 *)

LEMMA MissingType == Missing \in 0..2
BY DEF Missing

\* The things that have arrived are the first ones, up to one that has not or that
\* is corrupted.
LEMMA RelayedIsArrived ==
    ASSUME StreamTypes, Laid(form, sent), Faithful, Exhausted, pc \in {"wait", "failed", "closed"}
    PROVE  Relays(Arrived(Missing))
<1> DEFINE r == Len(relayed)
<1>0. r \in Nat /\ Len(sent) \in Nat /\ got \in Nat /\ Missing \in 0..2
      /\ \A i \in 1..Len(sent) : sent[i].end \in Nat
  BY SentFacts, MissingType DEF StreamTypes
<1>1. ASSUME NEW i \in 1..r PROVE i \in Arrived(Missing)
  <2>1. i \in 1..Len(sent) /\ \A j \in 1..i : j \in 1..r
    BY <1>0 DEF Faithful
  <2> QED BY <2>1 DEF Faithful, Arrived
<1>2. ASSUME NEW i \in Arrived(Missing) PROVE i \in 1..r
  <2> SUFFICES ASSUME i > r PROVE FALSE
    BY <1>0 DEF Arrived
  <2>1. /\ i \in 1..Len(sent) /\ r + 1 \in 1..i /\ r + 1 \in 1..Len(sent)
        /\ sent[i].end <= got + Missing
    BY <1>0 DEF Arrived
  <2>2. sent[r + 1].legal
    BY <2>1 DEF Arrived
  <2>3. sent[r + 1].end > got + Missing
    BY <2>1, <2>2 DEF Exhausted
  <2>4. sent[r + 1].end <= sent[i].end
    BY <2>1, EndsInOrder DEF StreamTypes
  <2> QED BY <1>0, <2>1, <2>3, <2>4
<1>3. relayed = [i \in 1..r |-> Meaning(sent[i].thing)]
  BY SMT DEF Faithful, StreamTypes
<1>4. 1..r = Arrived(Missing)
  BY <1>1, <1>2
<1> QED BY <1>3, <1>4 DEF Relays

\* The two properties follow.
LEMMA InvRelays == ParserInv => RelaysWhatArrived /\ EndReleases
<1> SUFFICES ASSUME ParserInv PROVE RelaysWhatArrived /\ EndReleases
  OBVIOUS
<1>1. CASE pc \in {"wait", "failed"}
  <2>1. Missing = 0
    BY <1>1 DEF Missing, Released
  <2>2. Relays(Arrived(0))
    BY <1>1, <2>1, RelayedIsArrived DEF ParserInv
  <2> QED BY <1>1, <2>2 DEF RelaysWhatArrived, EndReleases
<1>2. CASE pc = "closed"
  <2>1. Missing = IF form = "sse" /\ got >= Detect THEN 2 ELSE 0
    BY <1>2 DEF Missing, Released, ParserInv, StreamTypes, Modes, Detect
  <2>2. Relays(Arrived(Missing))
    BY <1>2, RelayedIsArrived DEF ParserInv
  <2> QED BY <1>2, <2>1, <2>2 DEF RelaysWhatArrived, EndReleases
<1> QED BY <1>1, <1>2 DEF RelaysWhatArrived, EndReleases

-----------------------------------------------------------------------------
(* Cells that move.                                                           *)

LEMMA Cuts ==
    ASSUME NEW S, NEW s \in Seq(S), NEW n \in 0..Len(s)
    PROVE  /\ First(s, n) \in Seq(S) /\ Len(First(s, n)) = n
           /\ \A j \in 1..n : First(s, n)[j] = s[j]
           /\ After(s, n) \in Seq(S) /\ Len(After(s, n)) = Len(s) - n
           /\ \A j \in 1..(Len(s) - n) : After(s, n)[j] = s[n + j]
<1>1. Len(s) \in Nat
  BY LenProperties
<1>2. First(s, n) = SubSeq(s, 1, n)
  BY <1>1 DEF First
<1>3. After(s, n) = SubSeq(s, n + 1, Len(s))
  BY DEF After
<1> QED BY <1>1, <1>2, <1>3, SubSeqProperties

LEMMA Concats ==
    ASSUME NEW S, NEW s \in Seq(S), NEW t \in Seq(S)
    PROVE  /\ s \o t \in Seq(S) /\ Len(s) \in Nat /\ Len(t) \in Nat
           /\ Len(s \o t) = Len(s) + Len(t)
           /\ \A j \in 1..Len(s) : (s \o t)[j] = s[j]
           /\ \A j \in (Len(s) + 1)..(Len(s) + Len(t)) : (s \o t)[j] = t[j - Len(s)]
<1>1. Len(s) \in Nat /\ Len(t) \in Nat
  BY LenProperties
<1> DEFINE c == s \o t
<1>2. /\ c \in Seq(S) /\ Len(c) = Len(s) + Len(t)
      /\ \A i \in 1..(Len(s) + Len(t)) : c[i] = IF i <= Len(s) THEN s[i] ELSE t[i - Len(s)]
  BY ConcatProperties
<1> HIDE DEF c
<1>3. /\ \A j \in 1..Len(s) : c[j] = s[j]
      /\ \A j \in (Len(s) + 1)..(Len(s) + Len(t)) : c[j] = t[j - Len(s)]
  BY <1>1, <1>2
<1> QED BY <1>1, <1>2, <1>3 DEF c

\* A chunk moves cells from the wire to the buffer.
LEMMA CarriedByFeed ==
    ASSUME NEW fm, NEW sd \in Seq(Sent), NEW b \in Seq(Cell), NEW w \in Seq(Cell), NEW g \in Nat,
           NEW n \in 0..Len(w), Len(b) <= g, Carried(fm, sd, b, w, g)
    PROVE  Carried(fm, sd, b \o First(w, n), After(w, n), g + n)
<1> DEFINE c == b \o First(w, n)
           v == After(w, n)
<1>1. /\ Len(b) \in Nat /\ Len(w) \in Nat /\ n \in Nat
      /\ Len(c) = Len(b) + n /\ \A j \in 1..Len(b) : c[j] = b[j]
      /\ \A j \in (Len(b) + 1)..(Len(b) + n) : c[j] = w[j - Len(b)]
      /\ Len(v) = Len(w) - n /\ \A j \in 1..Len(v) : v[j] = w[n + j]
  <2> DEFINE h == First(w, n)
  <2>1. /\ h \in Seq(Cell) /\ Len(h) = n /\ \A j \in 1..n : h[j] = w[j]
        /\ Len(v) = Len(w) - n /\ \A j \in 1..(Len(w) - n) : v[j] = w[n + j]
    BY Cuts
  <2> HIDE DEF h, v
  <2>2. /\ Len(b) \in Nat /\ Len(w) \in Nat /\ n \in Nat
    BY LenProperties
  <2>3. /\ Len(b \o h) = Len(b) + Len(h) /\ \A j \in 1..Len(b) : (b \o h)[j] = b[j]
        /\ \A j \in (Len(b) + 1)..(Len(b) + Len(h)) : (b \o h)[j] = h[j - Len(b)]
    BY <2>1, Concats
  <2>4. c = b \o h
    BY DEF h
  <2> HIDE DEF c
  <2>5. \A j \in (Len(b) + 1)..(Len(b) + n) : c[j] = w[j - Len(b)]
    BY <2>1, <2>2, <2>3, <2>4
  <2> QED BY <2>1, <2>2, <2>3, <2>4, <2>5
<1> HIDE DEF c, v
<1> SUFFICES ASSUME NEW i \in 1..Len(sd), NEW k \in CellsOf(sd, i)
             PROVE  /\ k \in (g + n - Len(c) + 1)..(g + n) =>
                          IsCell(fm, sd, c[k - (g + n - Len(c))], i, k)
                    /\ k \in (g + n + 1)..(g + n + Len(v)) => IsCell(fm, sd, v[k - (g + n)], i, k)
  BY DEF Carried, c, v
<1>2. /\ k \in (g - Len(b) + 1)..g => IsCell(fm, sd, b[k - (g - Len(b))], i, k)
      /\ k \in (g + 1)..(g + Len(w)) => IsCell(fm, sd, w[k - g], i, k)
  BY DEF Carried
<1>3. ASSUME k \in (g - Len(b) + 1)..g
      PROVE  IsCell(fm, sd, c[k - (g + n - Len(c))], i, k)
  <2>1. k - (g - Len(b)) \in 1..Len(b) /\ g + n - Len(c) = g - Len(b)
    BY <1>1, <1>3
  <2> QED BY <1>1, <1>2, <1>3, <2>1
<1>4. ASSUME k \in (g + 1)..(g + n)
      PROVE  IsCell(fm, sd, c[k - (g + n - Len(c))], i, k)
  <2>1. /\ k - (g - Len(b)) \in (Len(b) + 1)..(Len(b) + n) /\ g + n - Len(c) = g - Len(b)
        /\ k - (g - Len(b)) - Len(b) = k - g /\ k \in (g + 1)..(g + Len(w))
    BY <1>1, <1>4
  <2>2. c[k - (g + n - Len(c))] = w[k - g]
    BY <1>1, <2>1
  <2> QED BY <1>2, <2>1, <2>2
<1>5. ASSUME k \in (g + n + 1)..(g + n + Len(v))
      PROVE  IsCell(fm, sd, v[k - (g + n)], i, k)
  <2>1. /\ k - (g + n) \in 1..Len(v) /\ n + (k - (g + n)) = k - g
        /\ k \in (g + 1)..(g + Len(w))
    BY <1>1, <1>5
  <2> QED BY <1>1, <1>2, <2>1
<1>6. k \in (g + n - Len(c) + 1)..(g + n) => k \in (g - Len(b) + 1)..g \/ k \in (g + 1)..(g + n)
  BY <1>1
<1> QED BY <1>3, <1>4, <1>5, <1>6

\* What is cut off the front of the buffer is gone.
LEMMA CarriedByCut ==
    ASSUME NEW fm, NEW sd \in Seq(Sent), NEW b \in Seq(Cell), NEW w, NEW g \in Nat,
           NEW n \in 0..Len(b), Len(b) <= g, Carried(fm, sd, b, w, g)
    PROVE  Carried(fm, sd, After(b, n), w, g)
<1> DEFINE c == After(b, n)
<1>1. /\ Len(b) \in Nat /\ n \in Nat
      /\ Len(c) = Len(b) - n /\ \A j \in 1..Len(c) : c[j] = b[n + j]
  <2>1. Len(c) = Len(b) - n /\ \A j \in 1..(Len(b) - n) : c[j] = b[n + j]
    BY Cuts
  <2>2. Len(b) \in Nat /\ n \in Nat
    BY LenProperties
  <2> HIDE DEF c
  <2> QED BY <2>1, <2>2
<1> HIDE DEF c
<1> SUFFICES ASSUME NEW i \in 1..Len(sd), NEW k \in CellsOf(sd, i),
                    k \in (g - Len(c) + 1)..g
             PROVE  IsCell(fm, sd, c[k - (g - Len(c))], i, k)
  BY DEF Carried, c
<1>2. /\ k - (g - Len(c)) \in 1..Len(c) /\ n + (k - (g - Len(c))) = k - (g - Len(b))
      /\ k \in (g - Len(b) + 1)..g
  BY <1>1
<1> QED BY <1>1, <1>2 DEF Carried

\* What was on the wire is lost.
LEMMA CarriedByEnd ==
    ASSUME NEW fm, NEW sd, NEW b, NEW w, NEW g \in Nat, Carried(fm, sd, b, w, g)
    PROVE  Carried(fm, sd, b, <<>>, g)
BY DEF Carried

-----------------------------------------------------------------------------
(* What the upstream says.                                                    *)

LEMMA NoEvents == \A s \in Seq(Events) : <<>> \o s = s /\ s \o <<>> = s
BY ConcatEmptySeq

LEMMA Meanings ==
    /\ Meaning("text") = <<"text">> /\ Meaning("last text") = <<"text">>
    /\ Meaning("thought") = <<"reasoning", "reasoning_signature">>
    /\ Meaning("call") = <<"tool_delta">> /\ Meaning("whole call") = <<"tool_use">>
    /\ Meaning("error") = <<"error">> /\ Meaning("stop") = <<"done">>
BY DEF Meaning

LEMMA OneOf ==
    ASSUME NEW S, NEW a \in S
    PROVE  <<a>> \in Seq(S) /\ Len(<<a>>) = 1 /\ <<a>>[1] = a
OBVIOUS

LEMMA TwoOf ==
    ASSUME NEW S, NEW a \in S, NEW b \in S
    PROVE  /\ <<a, b>> \in Seq(S) /\ Len(<<a, b>>) = 2 /\ <<a, b>>[1] = a /\ <<a, b>>[2] = b
           /\ <<a>> \o <<b>> = <<a, b>>
<1> DEFINE s == <<a>>
           t == <<b>>
           u == <<a, b>>
<1>1. /\ s \in Seq(S) /\ Len(s) = 1 /\ s[1] = a
      /\ t \in Seq(S) /\ Len(t) = 1 /\ t[1] = b
  BY OneOf
<1>2. u \in Seq(S) /\ Len(u) = 2 /\ u[1] = a /\ u[2] = b
  OBVIOUS
<1> HIDE DEF s, t, u
<1> DEFINE c == s \o t
<1>3. /\ c \in Seq(S) /\ Len(c) = Len(s) + Len(t)
      /\ \A j \in 1..Len(s) : c[j] = s[j]
      /\ \A j \in (Len(s) + 1)..(Len(s) + Len(t)) : c[j] = t[j - Len(s)]
  BY <1>1, Concats
<1> HIDE DEF c
<1>4. Len(c) = 2 /\ c[1] = a /\ c[2] = b
  BY <1>1, <1>3
<1>5. Len(c) = Len(u) /\ \A j \in 1..Len(c) : c[j] = u[j]
  BY <1>2, <1>4
<1>6. c = u
  BY <1>2, <1>3, <1>5, SeqEqual
<1> QED BY <1>2, <1>6 DEF c, s, t, u

LEMMA Reasons ==
    ReasoningEvents({"text", "signature"}) = <<"reasoning", "reasoning_signature">>
<1>1. If("text" \in {"text", "signature"}, "reasoning") = <<"reasoning">>
  BY DEF If
<1>2. If("signature" \in {"text", "signature"}, "reasoning_signature") = <<"reasoning_signature">>
  BY DEF If
<1>3. <<"reasoning">> \o <<"reasoning_signature">> = <<"reasoning", "reasoning_signature">>
  <2>1. "reasoning" \in Events /\ "reasoning_signature" \in Events
    BY DEF Events
  <2> QED BY <2>1, TwoOf
<1> QED BY <1>1, <1>2, <1>3 DEF ReasoningEvents

LEMMA BinaryShapes ==
    ASSUME form = "binary"
    PROVE  /\ Shapes("text") = {Frame("assistantResponseEvent", {"content"})}
           /\ Shapes("last text") =
                 {Frame("assistantResponseEvent", {"content", "stopReason"})}
           /\ Shapes("thought") = {Frame("reasoningContentEvent", {"text", "signature"})}
           /\ Shapes("call") = {Frame("toolUseEvent", {"toolUseId"})}
           /\ Shapes("whole call") = {}
           /\ Shapes("error") = {Frame("exception", {"message"})}
           /\ Shapes("stop") = {Frame("messageStopEvent", {})}
BY DEF Shapes

LEMMA SseShapes ==
    ASSUME form = "sse"
    PROVE  /\ Shapes("text") = {Frame("", {"content"}), Frame("", {"assistantResponseEvent"}),
                                Frame("", {"assistantResponseMessage"})}
           /\ Shapes("last text") = {Frame("", {"content", "stopReason"})}
           /\ Shapes("thought") = {Frame("", {"reasoningContentEvent"})}
           /\ Shapes("call") = {Frame("", {"toolUseEvent"})}
           /\ Shapes("whole call") = {Frame("", {"toolUses"})}
           /\ Shapes("error") = {Frame("", {"content", "errorMessage"}), Frame("", {"error"})}
           /\ Shapes("stop") = {Frame("", {"stopReason"})}
BY DEF Shapes

LEMMA Dispatches ==
    ASSUME NEW K \in SUBSET Keys
    PROVE  /\ \A t \in Types : Frame(t, K) \in EventFrame
           /\ Dispatch(Frame("", K)) = DispatchKeys(Frame("", K))
           /\ Dispatch(Frame("assistantResponseEvent", K))
                 = DispatchKeys(Frame("assistantResponseEvent", K))
           /\ Dispatch(Frame("reasoningContentEvent", K)) = ReasoningEvents(K)
           /\ Dispatch(Frame("toolUseEvent", K)) = <<"tool_delta">>
           /\ Dispatch(Frame("exception", K)) = <<"error">>
           /\ Dispatch(Frame("messageStopEvent", K)) = <<"done">>
<1>1. \A t \in Types : Frame(t, K) \in EventFrame
  BY DEF Frame, EventFrame
<1>2. Dispatch(Frame("", K)) = DispatchKeys(Frame("", K))
  BY DEF Dispatch, Frame
<1>3. Dispatch(Frame("assistantResponseEvent", K))
         = DispatchKeys(Frame("assistantResponseEvent", K))
  BY DEF Dispatch, Frame
<1>4. Dispatch(Frame("reasoningContentEvent", K)) = ReasoningEvents(K)
  BY DEF Dispatch, Frame
<1>5. Dispatch(Frame("toolUseEvent", K)) = <<"tool_delta">>
  BY DEF Dispatch, Frame
<1>6. Dispatch(Frame("exception", K)) = <<"error">>
  BY DEF Dispatch, Frame
<1>7. Dispatch(Frame("messageStopEvent", K)) = <<"done">>
  BY DEF Dispatch, Frame
<1> QED BY <1>1, <1>2, <1>3, <1>4, <1>5, <1>6, <1>7

\* One event, whichever place in the order of precedence it has.
LEMMA Alone ==
    ASSUME NEW s \in Seq(Events)
    PROVE  /\ s \o <<>> \o <<>> \o <<>> \o <<>> \o <<>> = s
           /\ <<>> \o s \o <<>> \o <<>> \o <<>> \o <<>> = s
           /\ <<>> \o <<>> \o s \o <<>> \o <<>> \o <<>> = s
           /\ <<>> \o <<>> \o <<>> \o s \o <<>> \o <<>> = s
           /\ <<>> \o <<>> \o <<>> \o <<>> \o s \o <<>> = s
           /\ <<>> \o <<>> \o <<>> \o <<>> \o <<>> \o s = s
<1>1. s \o <<>> = s /\ <<>> \o s = s
  BY NoEvents
<1>2. <<>> \o <<>> = <<>>
  BY NoEvents, EmptySeq
<1> QED BY <1>1, <1>2

LEMMA EventsAre ==
    /\ <<"text">> \in Seq(Events) /\ <<"tool_use">> \in Seq(Events)
    /\ <<"tool_delta">> \in Seq(Events) /\ <<"error">> \in Seq(Events)
    /\ <<"done">> \in Seq(Events) /\ <<"reasoning", "reasoning_signature">> \in Seq(Events)
<1>1. \A e \in Events : <<e>> \in Seq(Events)
  BY OneOf
<1>2. \A e, f \in Events : <<e, f>> \in Seq(Events)
  BY TwoOf
<1> QED BY <1>1, <1>2 DEF Events

\* The events of each set of keys.
LEMMA KeysDispatch ==
    /\ DispatchKeys(Frame("assistantResponseEvent", {"content"})) = <<"text">>
    /\ DispatchKeys(Frame("assistantResponseEvent", {"content", "stopReason"})) = <<"text">>
    /\ DispatchKeys(Frame("", {"content"})) = <<"text">>
    /\ DispatchKeys(Frame("", {"assistantResponseEvent"})) = <<"text">>
    /\ DispatchKeys(Frame("", {"assistantResponseMessage"})) = <<"text">>
    /\ DispatchKeys(Frame("", {"content", "stopReason"})) = <<"text">>
    /\ DispatchKeys(Frame("", {"reasoningContentEvent"}))
          = <<"reasoning", "reasoning_signature">>
    /\ DispatchKeys(Frame("", {"toolUseEvent"})) = <<"tool_delta">>
    /\ DispatchKeys(Frame("", {"toolUses"})) = <<"tool_use">>
    /\ DispatchKeys(Frame("", {"content", "errorMessage"})) = <<"error">>
    /\ DispatchKeys(Frame("", {"error"})) = <<"error">>
    /\ DispatchKeys(Frame("", {"stopReason"})) = <<"done">>
<1>1. DispatchKeys(Frame("assistantResponseEvent", {"content"}))
         = <<"text">> \o <<>> \o <<>> \o <<>> \o <<>> \o <<>>
  BY DEF DispatchKeys, Frame, If
<1>2. DispatchKeys(Frame("assistantResponseEvent", {"content", "stopReason"}))
         = <<"text">> \o <<>> \o <<>> \o <<>> \o <<>> \o <<>>
  BY DEF DispatchKeys, Frame, If
<1>3. DispatchKeys(Frame("", {"content"}))
         = <<"text">> \o <<>> \o <<>> \o <<>> \o <<>> \o <<>>
  BY DEF DispatchKeys, Frame, If
<1>4. DispatchKeys(Frame("", {"assistantResponseEvent"}))
         = <<"text">> \o <<>> \o <<>> \o <<>> \o <<>> \o <<>>
  BY DEF DispatchKeys, Frame, If
<1>5. DispatchKeys(Frame("", {"assistantResponseMessage"}))
         = <<"text">> \o <<>> \o <<>> \o <<>> \o <<>> \o <<>>
  BY DEF DispatchKeys, Frame, If
<1>6. DispatchKeys(Frame("", {"content", "stopReason"}))
         = <<"text">> \o <<>> \o <<>> \o <<>> \o <<>> \o <<>>
  BY DEF DispatchKeys, Frame, If
<1>7. DispatchKeys(Frame("", {"reasoningContentEvent"}))
         = <<>> \o <<>> \o <<>> \o <<"reasoning", "reasoning_signature">> \o <<>> \o <<>>
  BY Reasons DEF DispatchKeys, Frame, If
<1>8. DispatchKeys(Frame("", {"toolUseEvent"}))
         = <<>> \o <<>> \o <<"tool_delta">> \o <<>> \o <<>> \o <<>>
  BY DEF DispatchKeys, Frame, If
<1>9. DispatchKeys(Frame("", {"toolUses"}))
         = <<>> \o <<"tool_use">> \o <<>> \o <<>> \o <<>> \o <<>>
  BY DEF DispatchKeys, Frame, If
<1>10. DispatchKeys(Frame("", {"content", "errorMessage"}))
         = <<>> \o <<>> \o <<>> \o <<>> \o <<"error">> \o <<>>
  BY DEF DispatchKeys, Frame, If
<1>11. DispatchKeys(Frame("", {"stopReason"}))
         = <<>> \o <<>> \o <<>> \o <<>> \o <<>> \o <<"done">>
  BY DEF DispatchKeys, Frame, If
<1>12. DispatchKeys(Frame("", {"error"}))
         = <<>> \o <<>> \o <<>> \o <<>> \o <<"error">> \o <<>>
  BY DEF DispatchKeys, Frame, If
<1> QED BY Alone, EventsAre, <1>1, <1>2, <1>3, <1>4, <1>5, <1>6, <1>7, <1>8, <1>9, <1>10, <1>11,
           <1>12

\* Every shape of a thing is dispatched as what the thing means.
LEMMA ShapesMean ==
    ASSUME form \in {"binary", "sse"}, NEW thing \in Things, NEW f \in Shapes(thing)
    PROVE  f \in EventFrame /\ Dispatch(f) = Meaning(thing)
<1> DEFINE Good(g, t) == g \in EventFrame /\ Dispatch(g) = Meaning(t)
<1>0. /\ {"content"} \in SUBSET Keys /\ {"content", "stopReason"} \in SUBSET Keys
      /\ {"text", "signature"} \in SUBSET Keys /\ {"toolUseId"} \in SUBSET Keys
      /\ {"message"} \in SUBSET Keys /\ {} \in SUBSET Keys
      /\ {"assistantResponseEvent"} \in SUBSET Keys
      /\ {"assistantResponseMessage"} \in SUBSET Keys
      /\ {"reasoningContentEvent"} \in SUBSET Keys
      /\ {"toolUseEvent"} \in SUBSET Keys /\ {"toolUses"} \in SUBSET Keys
      /\ {"content", "errorMessage"} \in SUBSET Keys /\ {"stopReason"} \in SUBSET Keys
      /\ {"error"} \in SUBSET Keys
  BY DEF Keys
<1>1. \A t \in Types, K \in SUBSET Keys : Frame(t, K) \in EventFrame
  BY Dispatches
<1>2. \A K \in SUBSET Keys : Dispatch(Frame("", K)) = DispatchKeys(Frame("", K))
  BY Dispatches
<1>3. CASE form = "binary"
  <2>1. /\ Dispatch(Frame("assistantResponseEvent", {"content"})) = <<"text">>
        /\ Dispatch(Frame("assistantResponseEvent", {"content", "stopReason"})) = <<"text">>
        /\ Dispatch(Frame("reasoningContentEvent", {"text", "signature"}))
              = <<"reasoning", "reasoning_signature">>
        /\ Dispatch(Frame("toolUseEvent", {"toolUseId"})) = <<"tool_delta">>
        /\ Dispatch(Frame("exception", {"message"})) = <<"error">>
        /\ Dispatch(Frame("messageStopEvent", {})) = <<"done">>
    BY <1>0, Dispatches, KeysDispatch, Reasons
  <2>2. /\ Frame("assistantResponseEvent", {"content"}) \in EventFrame
        /\ Frame("assistantResponseEvent", {"content", "stopReason"}) \in EventFrame
        /\ Frame("reasoningContentEvent", {"text", "signature"}) \in EventFrame
        /\ Frame("toolUseEvent", {"toolUseId"}) \in EventFrame
        /\ Frame("exception", {"message"}) \in EventFrame
        /\ Frame("messageStopEvent", {}) \in EventFrame
    BY <1>0, <1>1 DEF Types
  <2>3. \A g \in Shapes("text") : Good(g, "text")
    BY <1>0, <1>3, <2>1, <2>2, BinaryShapes, Meanings, Zenon
  <2>4. \A g \in Shapes("last text") : Good(g, "last text")
    BY <1>0, <1>3, <2>1, <2>2, BinaryShapes, Meanings, Zenon
  <2>5. \A g \in Shapes("thought") : Good(g, "thought")
    BY <1>0, <1>3, <2>1, <2>2, BinaryShapes, Meanings, Zenon
  <2>6. \A g \in Shapes("call") : Good(g, "call")
    BY <1>0, <1>3, <2>1, <2>2, BinaryShapes, Meanings, Zenon
  <2>7. \A g \in Shapes("whole call") : Good(g, "whole call")
    BY <1>0, <1>3, <2>1, <2>2, BinaryShapes, Meanings, Zenon
  <2>8. \A g \in Shapes("error") : Good(g, "error")
    BY <1>0, <1>3, <2>1, <2>2, BinaryShapes, Meanings, Zenon
  <2>9. \A g \in Shapes("stop") : Good(g, "stop")
    BY <1>0, <1>3, <2>1, <2>2, BinaryShapes, Meanings, Zenon
  <2> HIDE DEF Good
  <2>10. Good(f, thing)
    BY <2>3, <2>4, <2>5, <2>6, <2>7, <2>8, <2>9 DEF Things
  <2> QED BY <2>10 DEF Good
<1>4. CASE form = "sse"
  <2>1. /\ Dispatch(Frame("", {"content"})) = <<"text">>
        /\ Dispatch(Frame("", {"assistantResponseEvent"})) = <<"text">>
        /\ Dispatch(Frame("", {"assistantResponseMessage"})) = <<"text">>
        /\ Dispatch(Frame("", {"content", "stopReason"})) = <<"text">>
        /\ Dispatch(Frame("", {"reasoningContentEvent"}))
              = <<"reasoning", "reasoning_signature">>
        /\ Dispatch(Frame("", {"toolUseEvent"})) = <<"tool_delta">>
        /\ Dispatch(Frame("", {"toolUses"})) = <<"tool_use">>
        /\ Dispatch(Frame("", {"content", "errorMessage"})) = <<"error">>
        /\ Dispatch(Frame("", {"error"})) = <<"error">>
        /\ Dispatch(Frame("", {"stopReason"})) = <<"done">>
    BY <1>0, <1>2, KeysDispatch
  <2>2. \A K \in SUBSET Keys : Frame("", K) \in EventFrame
    BY <1>1 DEF Types
  <2>3. \A g \in Shapes("text") : Good(g, "text")
    BY <1>0, <1>4, <2>1, <2>2, SseShapes, Meanings, Zenon
  <2>4. \A g \in Shapes("last text") : Good(g, "last text")
    BY <1>0, <1>4, <2>1, <2>2, SseShapes, Meanings, Zenon
  <2>5. \A g \in Shapes("thought") : Good(g, "thought")
    BY <1>0, <1>4, <2>1, <2>2, SseShapes, Meanings, Zenon
  <2>6. \A g \in Shapes("call") : Good(g, "call")
    BY <1>0, <1>4, <2>1, <2>2, SseShapes, Meanings, Zenon
  <2>7. \A g \in Shapes("whole call") : Good(g, "whole call")
    BY <1>0, <1>4, <2>1, <2>2, SseShapes, Meanings, Zenon
  <2>8. \A g \in Shapes("error") : Good(g, "error")
    BY <1>0, <1>4, <2>1, <2>2, SseShapes, Meanings, Zenon
  <2>9. \A g \in Shapes("stop") : Good(g, "stop")
    BY <1>0, <1>4, <2>1, <2>2, SseShapes, Meanings, Zenon
  <2> HIDE DEF Good
  <2>10. Good(f, thing)
    BY <2>3, <2>4, <2>5, <2>6, <2>7, <2>8, <2>9 DEF Things
  <2> QED BY <2>10 DEF Good
<1> QED BY <1>3, <1>4

LEMMA CellTypes ==
    /\ \A n \in Nat : Length(n) \in Cell /\ Length(n).cell = "length" /\ Length(n).size = n
    /\ NewLine \in Cell /\ NewLine.cell = "newline"
    /\ \A f \in EventFrame, n \in Nat :
          /\ Body(f, n) \in Seq(Cell) /\ Len(Body(f, n)) = n
          /\ \A j \in 1..n : Body(f, n)[j].cell = "body" /\ Body(f, n)[j].frame = f
          /\ Data(f, n) \in Seq(Cell) /\ Len(Data(f, n)) = n
          /\ \A j \in 1..n : /\ Data(f, n)[j].cell = "data" /\ Data(f, n)[j].frame = f
                             /\ Data(f, n)[j].last = (j = n)
<1>1. \A n \in Nat : Length(n) \in Cell /\ Length(n).cell = "length" /\ Length(n).size = n
  BY DEF Length, Cell
<1>2. NewLine \in Cell /\ NewLine.cell = "newline"
  BY DEF NewLine, Cell
<1>3. ASSUME NEW f \in EventFrame, NEW n \in Nat
      PROVE  /\ Body(f, n) \in Seq(Cell) /\ Len(Body(f, n)) = n
             /\ \A j \in 1..n : Body(f, n)[j].cell = "body" /\ Body(f, n)[j].frame = f
  <2>1. [cell |-> "body", frame |-> f] \in Cell
    BY DEF Cell
  <2> QED BY <2>1 DEF Body
<1>4. ASSUME NEW f \in EventFrame, NEW n \in Nat
      PROVE  /\ Data(f, n) \in Seq(Cell) /\ Len(Data(f, n)) = n
             /\ \A j \in 1..n : /\ Data(f, n)[j].cell = "data" /\ Data(f, n)[j].frame = f
                                /\ Data(f, n)[j].last = (j = n)
  <2>1. \A b \in BOOLEAN : [cell |-> "data", frame |-> f, last |-> b] \in Cell
    BY DEF Cell
  <2>2. \A j \in 1..n : [cell |-> "data", frame |-> f, last |-> j = n] \in Cell
    BY <2>1
  <2> QED BY <2>2 DEF Data
<1> QED BY <1>1, <1>2, <1>3, <1>4

\* What is put on the wire, cell by cell: a frame, and an SSE event.
FramePiece(f, n, size) == <<Length(size)>> \o Body(f, n - 1)

LEMMA FrameCells ==
    ASSUME NEW f \in EventFrame, NEW n \in Nat, n >= MinFrame, NEW size \in Nat, NEW piece,
           piece = FramePiece(f, n, size)
    PROVE  /\ piece \in Seq(Cell) /\ Len(piece) = n
           /\ piece[1].cell = "length" /\ piece[1].size = size
           /\ \A j \in 2..n : piece[j].cell = "body" /\ piece[j].frame = f
<1> DEFINE s == <<Length(size)>>
           t == Body(f, n - 1)
<1>1. n - 1 \in Nat
  BY DEF MinFrame
<1>2. s \in Seq(Cell) /\ Len(s) = 1 /\ s[1] = Length(size)
  BY CellTypes, OneOf
<1>3. /\ t \in Seq(Cell) /\ Len(t) = n - 1
      /\ \A j \in 1..(n - 1) : t[j].cell = "body" /\ t[j].frame = f
  BY <1>1, CellTypes
<1> HIDE DEF s, t
<1> DEFINE c == s \o t
<1>4. /\ c \in Seq(Cell) /\ Len(c) = Len(s) + Len(t)
      /\ \A j \in 1..Len(s) : c[j] = s[j]
      /\ \A j \in (Len(s) + 1)..(Len(s) + Len(t)) : c[j] = t[j - Len(s)]
  BY <1>2, <1>3, Concats
<1> HIDE DEF c
<1>5. c[1] = Length(size) /\ Len(c) = n
  BY <1>2, <1>3, <1>4
<1>6. ASSUME NEW j \in 2..n PROVE c[j].cell = "body" /\ c[j].frame = f
  <2>1. c[j] = t[j - 1] /\ j - 1 \in 1..(n - 1)
    BY <1>2, <1>3, <1>4
  <2> QED BY <1>3, <2>1
<1>7. c[1].cell = "length" /\ c[1].size = size
  BY <1>5, CellTypes
<1>8. piece = c
  BY DEF c, s, t, FramePiece
<1> QED BY <1>4, <1>5, <1>6, <1>7, <1>8, Zenon

LEMMA SseCells ==
    ASSUME NEW f \in EventFrame, NEW n \in Nat, n >= MinFrame, NEW piece,
           piece = Data(f, n) \o <<NewLine, NewLine>>
    PROVE  /\ piece \in Seq(Cell) /\ Len(piece) = n + 2
           /\ \A j \in 1..n : /\ piece[j].cell = "data" /\ piece[j].frame = f
                              /\ piece[j].last = (j = n)
           /\ \A j \in (n + 1)..(n + 2) : piece[j].cell = "newline"
<1> DEFINE s == Data(f, n)
           t == <<NewLine, NewLine>>
<1>1. t \in Seq(Cell) /\ Len(t) = 2 /\ t[1] = NewLine /\ t[2] = NewLine
  BY CellTypes, TwoOf
<1>2. /\ s \in Seq(Cell) /\ Len(s) = n
      /\ \A j \in 1..n : s[j].cell = "data" /\ s[j].frame = f /\ s[j].last = (j = n)
  BY CellTypes
<1> HIDE DEF s, t
<1>0. s \in Seq(Cell) /\ t \in Seq(Cell)
  BY <1>1, <1>2
<1> DEFINE c == s \o t
<1>3. /\ c \in Seq(Cell) /\ Len(c) = Len(s) + Len(t)
      /\ \A j \in 1..Len(s) : c[j] = s[j]
      /\ \A j \in (Len(s) + 1)..(Len(s) + Len(t)) : c[j] = t[j - Len(s)]
  BY <1>0, Concats, Zenon
<1> HIDE DEF c
<1>4. c[n + 1] = NewLine /\ c[n + 2] = NewLine /\ Len(c) = n + 2
  <2>1. /\ n + 1 \in (Len(s) + 1)..(Len(s) + Len(t)) /\ n + 1 - Len(s) = 1
        /\ n + 2 \in (Len(s) + 1)..(Len(s) + Len(t)) /\ n + 2 - Len(s) = 2
    BY <1>1, <1>2
  <2> QED BY <1>1, <1>2, <1>3, <2>1
<1>5. ASSUME NEW j \in 1..n
      PROVE  c[j].cell = "data" /\ c[j].frame = f /\ c[j].last = (j = n)
  <2>1. c[j] = s[j]
    BY <1>2, <1>3
  <2> QED BY <1>2, <2>1
<1>6. \A j \in (n + 1)..(n + 2) : c[j].cell = "newline"
  <2>1. \A j \in (n + 1)..(n + 2) : j = n + 1 \/ j = n + 2
    OBVIOUS
  <2> QED BY <1>4, <2>1, CellTypes
<1>7. piece = c
  BY DEF c, s, t
<1> QED BY <1>3, <1>4, <1>5, <1>6, <1>7, Zenon

\* A thing more leaves the others where they are.
LEMMA SaidMore ==
    ASSUME NEW sd \in Seq(Sent), NEW t \in Sent
    PROVE  /\ Append(sd, t) \in Seq(Sent) /\ Len(Append(sd, t)) = Len(sd) + 1
           /\ Append(sd, t)[Len(sd) + 1] = t
           /\ StartOf(Append(sd, t), Len(sd) + 1) = End(sd)
           /\ End(Append(sd, t)) = t.end
           /\ \A i \in 1..Len(sd) : /\ Append(sd, t)[i] = sd[i]
                                    /\ StartOf(Append(sd, t), i) = StartOf(sd, i)
<1> DEFINE q == Append(sd, t)
<1>1. /\ q \in Seq(Sent) /\ Len(q) = Len(sd) + 1 /\ q[Len(sd) + 1] = t
      /\ \A i \in 1..Len(sd) : q[i] = sd[i]
  BY AppendProperties
<1>2. Len(sd) \in Nat /\ (sd = <<>> <=> Len(sd) = 0)
  BY EmptySeq
<1> HIDE DEF q
<1>3. \A i \in 1..Len(sd) : StartOf(q, i) = StartOf(sd, i)
  <2> SUFFICES ASSUME NEW i \in 1..Len(sd) PROVE StartOf(q, i) = StartOf(sd, i)
    OBVIOUS
  <2>1. CASE i = 1
    BY <2>1 DEF StartOf
  <2>2. CASE i # 1
    <3>1. i - 1 \in 1..Len(sd)
      BY <1>2, <2>2
    <3> QED BY <1>1, <2>2, <3>1 DEF StartOf
  <2> QED BY <2>1, <2>2
<1>4. StartOf(q, Len(sd) + 1) = End(sd)
  <2>1. CASE Len(sd) = 0
    BY <1>2, <2>1 DEF StartOf, End
  <2>2. CASE Len(sd) # 0
    <3>1. Len(sd) + 1 # 1 /\ Len(sd) + 1 - 1 = Len(sd) /\ Len(sd) \in 1..Len(sd) /\ sd # <<>>
      BY <1>2, <2>2
    <3> QED BY <1>1, <3>1 DEF StartOf, End
  <2> QED BY <2>1, <2>2
<1>5. End(q) = t.end
  <2>1. q # <<>>
    BY <1>1, <1>2
  <2> QED BY <1>1, <2>1 DEF End
<1> QED BY <1>1, <1>3, <1>4, <1>5 DEF q

LEMMA LaidMore ==
    ASSUME NEW fm, NEW sd \in Seq(Sent), Laid(fm, sd), NEW t \in Sent,
           End(sd) + MinFrame + BlankLine(fm) <= t.end
    PROVE  Laid(fm, Append(sd, t))
<1> DEFINE q == Append(sd, t)
<1>1. /\ q \in Seq(Sent) /\ Len(q) = Len(sd) + 1 /\ q[Len(sd) + 1] = t
      /\ StartOf(q, Len(sd) + 1) = End(sd) /\ End(q) = t.end
      /\ \A i \in 1..Len(sd) : q[i] = sd[i] /\ StartOf(q, i) = StartOf(sd, i)
  BY SaidMore
<1>2. /\ Len(sd) \in Nat /\ End(sd) \in Nat /\ t.end \in Nat
      /\ \A i \in 1..Len(sd) : sd[i].end \in Nat /\ StartOf(sd, i) \in Nat
  BY SentFacts DEF Sent
<1>3. \A i \in 1..Len(sd) : sd[i].end <= End(sd)
  BY EndsInOrder
<1> HIDE DEF q
<1>4. \A i \in 1..Len(q) : StartOf(q, i) + MinFrame + BlankLine(fm) <= q[i].end
  <2> SUFFICES ASSUME NEW i \in 1..Len(q)
               PROVE  StartOf(q, i) + MinFrame + BlankLine(fm) <= q[i].end
    OBVIOUS
  <2>1. CASE i = Len(sd) + 1
    BY <1>1, <2>1
  <2>2. CASE i # Len(sd) + 1
    <3>1. i \in 1..Len(sd)
      BY <1>1, <1>2, <2>2
    <3> QED BY <1>1, <3>1 DEF Laid
  <2> QED BY <2>1, <2>2
<1>5. \A i, j \in 1..Len(q) : i < j => q[i].end <= StartOf(q, j)
  <2> SUFFICES ASSUME NEW i \in 1..Len(q), NEW j \in 1..Len(q), i < j
               PROVE  q[i].end <= StartOf(q, j)
    OBVIOUS
  <2>1. i \in 1..Len(sd)
    BY <1>1, <1>2
  <2>2. CASE j = Len(sd) + 1
    BY <1>1, <1>3, <2>1, <2>2
  <2>3. CASE j # Len(sd) + 1
    <3>1. j \in 1..Len(sd)
      BY <1>1, <1>2, <2>3
    <3> QED BY <1>1, <2>1, <3>1 DEF Laid
  <2> QED BY <2>2, <2>3
<1>6. ASSUME NEW k \in 1..End(q) PROVE \E i \in 1..Len(q) : k \in CellsOf(q, i)
  <2>1. CASE k <= End(sd)
    <3>1. PICK i \in 1..Len(sd) : k \in CellsOf(sd, i)
      BY <1>2, <2>1 DEF Laid
    <3> QED BY <1>1, <1>2, <3>1 DEF CellsOf
  <2>2. CASE k > End(sd)
    <3>1. k \in CellsOf(q, Len(sd) + 1)
      BY <1>1, <1>2, <2>2 DEF CellsOf
    <3> QED BY <1>1, <1>2, <3>1
  <2> QED BY <1>2, <2>1, <2>2
<1> QED BY <1>4, <1>5, <1>6 DEF Laid, q

LEMMA CarriedMore ==
    ASSUME NEW fm, NEW sd \in Seq(Sent), Laid(fm, sd), NEW t \in Sent,
           NEW b \in Seq(Cell), NEW w \in Seq(Cell), NEW g \in Nat, Len(b) <= g,
           g + Len(w) = End(sd), Carried(fm, sd, b, w, g),
           NEW piece \in Seq(Cell), t.end = End(sd) + Len(piece),
           \A j \in 1..Len(piece) : IsCell(fm, Append(sd, t), piece[j], Len(sd) + 1, End(sd) + j)
    PROVE  Carried(fm, Append(sd, t), b, w \o piece, g)
<1> DEFINE q == Append(sd, t)
           v == w \o piece
<1>1. /\ q \in Seq(Sent) /\ Len(q) = Len(sd) + 1 /\ q[Len(sd) + 1] = t
      /\ StartOf(q, Len(sd) + 1) = End(sd) /\ End(q) = t.end
      /\ \A i \in 1..Len(sd) : q[i] = sd[i] /\ StartOf(q, i) = StartOf(sd, i)
  BY SaidMore
<1>2. /\ Len(sd) \in Nat /\ End(sd) \in Nat /\ t.end \in Nat
      /\ \A i \in 1..Len(sd) : sd[i].end \in Nat /\ StartOf(sd, i) \in Nat
  BY SentFacts DEF Sent
<1>3. \A i \in 1..Len(sd) : sd[i].end <= End(sd)
  BY EndsInOrder
<1>4. /\ Len(b) \in Nat /\ Len(w) \in Nat /\ Len(piece) \in Nat /\ Len(v) = Len(w) + Len(piece)
      /\ \A j \in 1..Len(w) : v[j] = w[j]
      /\ \A j \in (Len(w) + 1)..(Len(w) + Len(piece)) : v[j] = piece[j - Len(w)]
  BY Concats, LenProperties
<1> HIDE DEF q, v
<1>5. \A i \in 1..Len(sd) : \A c, k : IsCell(fm, q, c, i, k) = IsCell(fm, sd, c, i, k)
  <2> SUFFICES ASSUME NEW i \in 1..Len(sd), NEW c, NEW k
               PROVE  IsCell(fm, q, c, i, k) = IsCell(fm, sd, c, i, k)
    OBVIOUS
  <2>1. q[i] = sd[i] /\ StartOf(q, i) = StartOf(sd, i)
    BY <1>1
  <2> QED BY <2>1, Zenon DEF IsCell
<1> SUFFICES ASSUME NEW i \in 1..Len(q), NEW k \in CellsOf(q, i)
             PROVE  /\ k \in (g - Len(b) + 1)..g => IsCell(fm, q, b[k - (g - Len(b))], i, k)
                    /\ k \in (g + 1)..(g + Len(v)) => IsCell(fm, q, v[k - g], i, k)
  BY DEF Carried, q, v
<1>a. k \in Int
  BY DEF CellsOf
<1>6. CASE i \in 1..Len(sd)
  <2>1. k \in CellsOf(sd, i) /\ k <= End(sd)
    <3>1. q[i] = sd[i] /\ StartOf(q, i) = StartOf(sd, i) /\ sd[i].end <= End(sd)
      BY <1>1, <1>3, <1>6
    <3>2. sd[i].end \in Nat
      BY <1>2, <1>6
    <3>3. k \in CellsOf(sd, i)
      BY <3>1 DEF CellsOf
    <3> QED BY <1>2, <3>1, <3>2, <3>3 DEF CellsOf
  <2>2. /\ k \in (g - Len(b) + 1)..g => IsCell(fm, sd, b[k - (g - Len(b))], i, k)
        /\ k \in (g + 1)..(g + Len(w)) => IsCell(fm, sd, w[k - g], i, k)
    BY <1>6, <2>1 DEF Carried
  <2>3. k \in (g + 1)..(g + Len(v)) => k \in (g + 1)..(g + Len(w)) /\ v[k - g] = w[k - g]
    <3>1. k <= g + Len(w)
      BY <2>1
    <3>2. k \in (g + 1)..(g + Len(v)) => k - g \in 1..Len(w) /\ k \in (g + 1)..(g + Len(w))
      BY <1>a, <1>4, <3>1
    <3> QED BY <1>4, <3>2
  <2> QED BY <1>5, <1>6, <2>2, <2>3
<1>7. CASE i = Len(sd) + 1
  <2>1. k \in (End(sd) + 1)..(End(sd) + Len(piece))
    BY <1>1, <1>7 DEF CellsOf
  <2>2. /\ k \notin (g - Len(b) + 1)..g /\ k - End(sd) \in 1..Len(piece)
        /\ k - g \in (Len(w) + 1)..(Len(w) + Len(piece)) /\ k - g - Len(w) = k - End(sd)
        /\ End(sd) + (k - End(sd)) = k
    <3>1. k > End(sd) /\ k <= End(sd) + Len(piece)
      BY <1>2, <1>4, <2>1
    <3>2. k > g + Len(w) /\ k <= g + Len(w) + Len(piece)
      BY <3>1
    <3>3. k \notin (g - Len(b) + 1)..g
      BY <1>a, <1>4, <3>2
    <3>4. k - End(sd) \in 1..Len(piece)
      BY <1>a, <1>2, <1>4, <3>1
    <3>6. End(sd) + (k - End(sd)) = k
      <4>1. \A x, y \in Int : x + (y - x) = y
        OBVIOUS
      <4>2. End(sd) \in Int
        BY <1>2
      <4> QED BY <1>a, <4>1, <4>2
    <3>5. k - g \in (Len(w) + 1)..(Len(w) + Len(piece)) /\ k - g - Len(w) = k - End(sd)
      BY <1>a, <1>2, <1>4, <3>2
    <3> QED BY <3>3, <3>4, <3>5, <3>6
  <2>3. v[k - g] = piece[k - End(sd)] /\ IsCell(fm, q, piece[k - End(sd)], i, k)
    BY <1>4, <1>7, <2>2 DEF q
  <2> QED BY <2>2, <2>3
<1> QED BY <1>1, <1>2, <1>6, <1>7

-----------------------------------------------------------------------------
(* The steps.                                                                 *)

LEMMA Numbers ==
    ASSUME ParserInv
    PROVE  /\ Len(sent) \in Nat /\ End(sent) \in Nat /\ got \in Nat /\ Len(buf) \in Nat
           /\ Len(wire) \in Nat /\ Len(relayed) \in Nat
           /\ Done \in Nat /\ Done + Len(buf) = got
           /\ Len(relayed) <= Len(sent) /\ got <= End(sent)
           /\ \A i \in 1..Len(sent) : /\ sent[i].thing \in Things /\ sent[i].legal \in BOOLEAN
                                      /\ sent[i].end \in Nat /\ StartOf(sent, i) \in Nat
                                      /\ sent[i].end <= End(sent)
<1>1. /\ sent \in Seq(Sent) /\ got \in Nat /\ buf \in Seq(Cell) /\ Len(buf) <= got
      /\ wire \in Seq(Cell) /\ relayed \in Seq(Seq(Events))
  BY DEF ParserInv, StreamTypes
<1>2. Len(buf) \in Nat /\ Len(wire) \in Nat /\ Len(relayed) \in Nat
  BY <1>1, LenProperties
<1>3. Len(relayed) <= Len(sent) /\ got + Len(wire) <= End(sent)
  BY DEF ParserInv, Faithful, OnTheWay
<1>4. /\ Len(sent) \in Nat /\ End(sent) \in Nat
      /\ \A i \in 1..Len(sent) : /\ sent[i].thing \in Things /\ sent[i].legal \in BOOLEAN
                                 /\ sent[i].end \in Nat /\ StartOf(sent, i) \in Nat
  BY <1>1, SentFacts
<1>5. \A i \in 1..Len(sent) : sent[i].end <= End(sent)
  BY <1>1, EndsInOrder DEF ParserInv
<1>6. got <= End(sent)
  BY <1>1, <1>2, <1>3, <1>4
<1> QED BY <1>1, <1>2, <1>3, <1>4, <1>5, <1>6 DEF Done

LEMMA StartAfter ==
    ASSUME NEW sd \in Seq(Sent)
    PROVE  /\ StartOf(sd, 1) = 0 /\ StartOf(sd, Len(sd) + 1) = End(sd)
           /\ \A i \in 1..Len(sd) : StartOf(sd, i + 1) = sd[i].end
<1>1. Len(sd) \in Nat /\ (sd = <<>> <=> Len(sd) = 0)
  BY EmptySeq, LenProperties
<1>2. \A i \in 1..Len(sd) : StartOf(sd, i + 1) = sd[i].end
  <2> SUFFICES ASSUME NEW i \in 1..Len(sd) PROVE StartOf(sd, i + 1) = sd[i].end
    OBVIOUS
  <2>1. i + 1 # 1 /\ i + 1 - 1 = i
    OBVIOUS
  <2> QED BY <2>1 DEF StartOf
<1>3. StartOf(sd, Len(sd) + 1) = End(sd)
  <2>1. CASE Len(sd) = 0
    BY <1>1, <2>1 DEF StartOf, End
  <2>2. CASE Len(sd) # 0
    BY <1>1, <1>2, <2>2 DEF End
  <2> QED BY <2>1, <2>2
<1> QED BY <1>2, <1>3 DEF StartOf

\* A cell of the buffer, as the thing it belongs to has it.
LEMMA BufferCell ==
    ASSUME ParserInv, NEW j \in 1..Len(buf)
    PROVE  /\ \E i \in 1..Len(sent) : Done + j \in CellsOf(sent, i)
           /\ \A i \in 1..Len(sent) :
                 Done + j \in CellsOf(sent, i) => IsCell(form, sent, buf[j], i, Done + j)
<1>0. /\ got \in Nat /\ Len(buf) \in Nat /\ Done \in Nat /\ Done + Len(buf) = got
      /\ got <= End(sent) /\ End(sent) \in Nat
  BY Numbers
<1>1. Done + j \in 1..End(sent)
  BY <1>0
<1>2. Done + j \in (got - Len(buf) + 1)..got /\ Done + j - (got - Len(buf)) = j
  BY <1>0 DEF Done
<1>3. \A k \in 1..End(sent) : \E i \in 1..Len(sent) : k \in CellsOf(sent, i)
  BY DEF ParserInv, Laid
<1>4. \A i \in 1..Len(sent) : \A k \in CellsOf(sent, i) :
         k \in (got - Len(buf) + 1)..got =>
            IsCell(form, sent, buf[k - (got - Len(buf))], i, k)
  BY DEF ParserInv, Carried
<1>5. ASSUME NEW i \in 1..Len(sent), Done + j \in CellsOf(sent, i)
      PROVE  IsCell(form, sent, buf[j], i, Done + j)
  <2> DEFINE k == Done + j
  <2>1. IsCell(form, sent, buf[k - (got - Len(buf))], i, k)
    BY <1>2, <1>4, <1>5
  <2>2. k - (got - Len(buf)) = j
    BY <1>0 DEF Done
  <2> HIDE DEF k
  <2>3. IsCell(form, sent, buf[j], i, k)
    BY <2>1, <2>2
  <2> QED BY <2>3 DEF k
<1> QED BY <1>1, <1>3, <1>5

\* A buffer that is not empty begins with the thing to relay next.
LEMMA NextThing ==
    ASSUME ParserInv, ~Released
    PROVE  /\ Done = StartOf(sent, Len(relayed) + 1)
           /\ Len(buf) > 0 => Len(relayed) + 1 \in 1..Len(sent)
           /\ \A q \in 1..Len(sent) : sent[q].end > Done =>
                 Len(relayed) + 1 \in 1..q /\ sent[Len(relayed) + 1].end <= sent[q].end
<1>0. /\ Len(sent) \in Nat /\ End(sent) \in Nat /\ got \in Nat /\ Len(buf) \in Nat
      /\ Len(relayed) \in Nat /\ Done \in Nat /\ Done + Len(buf) = got
      /\ Len(relayed) <= Len(sent) /\ got <= End(sent)
      /\ \A i \in 1..Len(sent) : sent[i].end \in Nat
  BY Numbers
<1>s. sent \in Seq(Sent) /\ Laid(form, sent)
  BY DEF ParserInv, StreamTypes
<1>1. Done = StartOf(sent, Len(relayed) + 1)
  BY DEF ParserInv, Stands
<1>2. Len(buf) > 0 => Len(relayed) + 1 \in 1..Len(sent)
  <2>1. Len(relayed) = Len(sent) => Done = End(sent)
    BY <1>1, <1>s, StartAfter
  <2> QED BY <1>0, <2>1
<1>3. ASSUME NEW q \in 1..Len(sent), sent[q].end > Done
      PROVE  Len(relayed) + 1 \in 1..q
  <2> SUFFICES ASSUME q <= Len(relayed) PROVE FALSE
    BY <1>0
  <2>1. Len(relayed) \in 1..Len(sent)
    BY <1>0
  <2>2. Done = sent[Len(relayed)].end
    BY <1>1, <1>s, <2>1, StartAfter
  <2>3. sent[q].end <= sent[Len(relayed)].end
    BY <1>s, <2>1, EndsInOrder
  <2> QED BY <1>0, <1>3, <2>1, <2>2, <2>3
<1>4. ASSUME NEW q \in 1..Len(sent), Len(relayed) + 1 \in 1..q
      PROVE  sent[Len(relayed) + 1].end <= sent[q].end
  <2>1. Len(relayed) + 1 \in 1..Len(sent) /\ Len(relayed) + 1 <= q
    BY <1>0, <1>4
  <2> QED BY <1>s, <2>1, EndsInOrder
<1> QED BY <1>1, <1>2, <1>3, <1>4

LEMMA MeaningType == \A thing \in Things : Meaning(thing) \in Seq(Events)
BY EventsAre, Meanings DEF Things

\* The next thing is relayed, and its cells leave the buffer.
LEMMA RelayStep ==
    ASSUME ParserInv, ~Released, pc \in {"binary", "sse", "final"},
           mode = "sse" => form = "sse",
           Len(relayed) + 1 \in 1..Len(sent), sent[Len(relayed) + 1].legal,
           NEW n \in 1..Len(buf), Done + n = sent[Len(relayed) + 1].end,
           buf' = After(buf, n),
           relayed' = Append(relayed, Meaning(sent[Len(relayed) + 1].thing)),
           UNCHANGED <<form, sent, wire, got, pc, mode>>
    PROVE  ParserInv'
<1> DEFINE r == Len(relayed)
           m == Meaning(sent[r + 1].thing)
<1>0. /\ Len(sent) \in Nat /\ End(sent) \in Nat /\ got \in Nat /\ Len(buf) \in Nat
      /\ r \in Nat /\ Done \in Nat /\ Done + Len(buf) = got
      /\ \A i \in 1..Len(sent) : sent[i].thing \in Things /\ sent[i].end \in Nat
  BY Numbers
<1>t. StreamTypes
  BY DEF ParserInv
<1>1. m \in Seq(Events)
  BY <1>0, MeaningType
<1>2. /\ relayed' \in Seq(Seq(Events)) /\ Len(relayed') = r + 1
      /\ relayed'[r + 1] = m /\ \A i \in 1..r : relayed'[i] = relayed[i]
  BY <1>1, <1>t, AppendProperties DEF StreamTypes
<1>3. buf' \in Seq(Cell) /\ Len(buf') = Len(buf) - n
  <2>1. buf \in Seq(Cell) /\ n \in 0..Len(buf)
    BY <1>0, <1>t DEF StreamTypes
  <2>2. After(buf, n) \in Seq(Cell) /\ Len(After(buf, n)) = Len(buf) - n
    BY <2>1, Cuts
  <2> QED BY <2>2
<1>4. Done' = sent[r + 1].end
  BY <1>0, <1>3 DEF Done
<1>5. StreamTypes'
  BY <1>0, <1>2, <1>3, <1>t DEF StreamTypes
<1>6. Carried(form, sent, buf, wire, got)'
  <2>1. n \in 0..Len(buf) /\ Len(buf) <= got
    BY <1>0
  <2>2. Carried(form, sent, After(buf, n), wire, got)
    BY <1>0, <1>t, <2>1, CarriedByCut DEF ParserInv, StreamTypes
  <2> QED BY <2>2
<1>7. Laid(form, sent)' /\ OnTheWay'
  BY DEF ParserInv, OnTheWay
<1>m. Missing = 0 /\ Missing' = 0
  BY DEF Missing, Released
<1>8. Modes'
  <2>1. mode # "unknown"
    BY DEF ParserInv, Modes
  <2> QED BY <2>1 DEF ParserInv, Modes
<1>9. Faithful'
  <2>1. /\ Len(relayed) <= Len(sent)
        /\ \A i \in 1..r : /\ relayed[i] = Meaning(sent[i].thing)
                           /\ sent[i].legal /\ sent[i].end <= got
    BY <1>0, <1>m DEF ParserInv, Faithful
  <2>2. sent[r + 1].end <= got
    BY <1>0
  <2>3. ASSUME NEW i \in 1..(r + 1)
        PROVE  relayed'[i] = Meaning(sent[i].thing) /\ sent[i].legal /\ sent[i].end <= got
    <3>1. CASE i = r + 1
      BY <1>2, <2>2, <3>1
    <3>2. CASE i # r + 1
      <4>1. i \in 1..r
        BY <1>0, <3>2
      <4> QED BY <1>2, <2>1, <4>1
    <3> QED BY <3>1, <3>2
  <2> QED BY <1>0, <1>2, <1>m, <2>3 DEF Faithful
<1>10. Exhausted'
  BY DEF Exhausted
<1>11. Stands'
  <2>1. StartOf(sent, r + 1 + 1) = sent[r + 1].end
    BY <1>t, StartAfter DEF StreamTypes
  <2>2. StartOf(sent', Len(relayed') + 1) = StartOf(sent, r + 1 + 1)
    BY <1>2
  <2> QED BY <1>4, <2>1, <2>2 DEF Stands
<1> QED BY <1>5, <1>6, <1>7, <1>8, <1>9, <1>10, <1>11 DEF ParserInv

\* A frame, its length corrupted or not, has the cells of a thing.
LEMMA FrameIsThing ==
    ASSUME NEW sd \in Seq(Sent), NEW f \in EventFrame, NEW n \in Nat, n >= MinFrame, Legal(n),
           NEW size \in Nat, size # n => ~Legal(size),
           NEW t \in Sent, Carries(f, t), t.legal = (size = n), t.end = End(sd) + n,
           NEW piece, Len(piece) = n, piece[1].cell = "length", piece[1].size = size,
           \A j \in 2..n : piece[j].cell = "body" /\ piece[j].frame = f
    PROVE  \A j \in 1..Len(piece) :
              IsCell("binary", Append(sd, t), piece[j], Len(sd) + 1, End(sd) + j)
<1> DEFINE q == Append(sd, t)
           i == Len(sd) + 1
<1>1. q[i] = t /\ StartOf(q, i) = End(sd)
  BY SaidMore
<1>2. End(sd) \in Nat /\ t.end \in Nat /\ t.legal \in BOOLEAN
  BY SentFacts DEF Sent
<1> HIDE DEF q, i
<1>3. ASSUME NEW j \in 1..n PROVE IsCell("binary", q, piece[j], i, End(sd) + j)
  <2>1. CASE j = 1
    <3>1. n = t.end - End(sd)
      BY <1>2
    <3>2. t.legal = Legal(piece[1].size)
      <4>1. Legal(size) \in BOOLEAN
        BY DEF Legal
      <4>2. (size = n) = Legal(size)
        BY <4>1
      <4> QED BY <4>2
    <3>3. t.legal => piece[1].size = t.end - End(sd)
      BY <3>1
    <3>4. IsCell("binary", q, piece[1], i, End(sd) + 1)
      BY <1>1, <3>2, <3>3 DEF IsCell
    <3> QED BY <2>1, <3>4
  <2>2. CASE j # 1
    <3>1. j \in 2..n /\ End(sd) + j # End(sd) + 1
      BY <1>2, <2>2
    <3>2. piece[j].cell = "body" /\ Carries(piece[j].frame, t)
      BY <3>1
    <3> QED BY <1>1, <3>1, <3>2 DEF IsCell
  <2> QED BY <2>1, <2>2
<1> QED BY <1>3 DEF q, i

\* So has an SSE event.
LEMMA EventIsThing ==
    ASSUME NEW sd \in Seq(Sent), NEW f \in EventFrame, NEW n \in Nat, n >= MinFrame,
           NEW t \in Sent, Carries(f, t), t.legal, t.end = End(sd) + n + 2,
           NEW piece, Len(piece) = n + 2,
           \A j \in 1..n : /\ piece[j].cell = "data" /\ piece[j].frame = f
                           /\ piece[j].last = (j = n),
           \A j \in (n + 1)..(n + 2) : piece[j].cell = "newline"
    PROVE  \A j \in 1..Len(piece) :
              IsCell("sse", Append(sd, t), piece[j], Len(sd) + 1, End(sd) + j)
<1> DEFINE q == Append(sd, t)
           i == Len(sd) + 1
<1>1. q[i] = t /\ StartOf(q, i) = End(sd)
  BY SaidMore
<1>2. End(sd) \in Nat /\ t.end \in Nat
  BY SentFacts DEF Sent
<1> HIDE DEF q, i
<1>3. t.end - 2 = End(sd) + n
  BY <1>2
<1>4. ASSUME NEW j \in 1..(n + 2) PROVE IsCell("sse", q, piece[j], i, End(sd) + j)
  <2>1. CASE j > n
    <3>1. j \in (n + 1)..(n + 2) /\ End(sd) + j > t.end - 2
      BY <1>2, <1>3, <2>1
    <3>2. piece[j].cell = "newline"
      BY <3>1
    <3> QED BY <1>1, <3>1, <3>2 DEF IsCell
  <2>2. CASE j <= n
    <3>1. j \in 1..n /\ ~(End(sd) + j > t.end - 2) /\ (j = n) = (End(sd) + j = t.end - 2)
      BY <1>2, <1>3, <2>2
    <3>2. piece[j].cell = "data" /\ Carries(piece[j].frame, t)
      BY <3>1
    <3>3. piece[j].last = (End(sd) + j = t.end - 2)
      BY <3>1
    <3> QED BY <1>1, <3>1, <3>2, <3>3 DEF IsCell
  <2> QED BY <2>1, <2>2
<1> QED BY <1>4 DEF q, i

\* The upstream says a thing more.
LEMMA SayStep ==
    ASSUME ParserInv, NEW thing \in Things, NEW f \in Shapes(thing), NEW n \in Sizes,
           Say(thing, f, n)
    PROVE  ParserInv'
<1> DEFINE whole == IF form = "binary" THEN n ELSE n + 2
<1>1. PICK size \in IF form = "binary" THEN {n} \cup BadSizes ELSE {n} :
         /\ wire' = wire \o IF form = "binary"
                            THEN <<Length(size)>> \o Body(f, n - 1)
                            ELSE Data(f, n) \o <<NewLine, NewLine>>
         /\ sent' = Append(sent, [thing |-> thing, legal |-> size = n,
                                  end |-> End(sent) + whole])
  BY Zenon DEF Say
<1> DEFINE t == [thing |-> thing, legal |-> size = n, end |-> End(sent) + whole]
           piece == IF form = "binary" THEN <<Length(size)>> \o Body(f, n - 1)
                                       ELSE Data(f, n) \o <<NewLine, NewLine>>
           r == Len(relayed)
<1>2. wire' = wire \o piece /\ sent' = Append(sent, t)
  BY <1>1, Zenon
<1>3. pc = "wait" /\ UNCHANGED <<form, got, buf, mode, pc, relayed>>
  BY DEF Say
<1>0. /\ Len(sent) \in Nat /\ End(sent) \in Nat /\ got \in Nat /\ Len(buf) \in Nat
      /\ Len(wire) \in Nat /\ r \in Nat /\ r <= Len(sent) /\ got <= End(sent)
  BY Numbers
<1>i. ParserInv /\ StreamTypes /\ sent \in Seq(Sent) /\ Laid(form, sent)
  BY DEF ParserInv, StreamTypes
<1>4. n \in Nat /\ n >= MinFrame /\ Legal(n)
  BY SizesAssumption DEF Legal, MinFrame
<1>5. size \in Nat /\ (form = "sse" => size = n) /\ (size # n => ~Legal(size))
  BY <1>4, SizesAssumption DEF Legal, MinFrame
<1>6. f \in EventFrame /\ Dispatch(f) = Meaning(thing)
  BY <1>i, ShapesMean DEF StreamTypes
<1>7. whole \in Nat /\ whole >= MinFrame + BlankLine(form)
  BY <1>4, <1>i DEF BlankLine, StreamTypes, MinFrame
<1>8. t \in Sent /\ t.thing = thing /\ t.legal = (size = n) /\ t.end = End(sent) + whole
  BY <1>0, <1>7 DEF Sent
<1>9. /\ form = "binary" => piece = <<Length(size)>> \o Body(f, n - 1) /\ whole = n
      /\ form = "sse" => piece = Data(f, n) \o <<NewLine, NewLine>> /\ whole = n + 2
  OBVIOUS
<1>c. Carries(f, t)
  BY <1>6, <1>8 DEF Carries
<1> HIDE DEF t, piece, whole
<1>10. /\ piece \in Seq(Cell) /\ t.end = End(sent) + Len(piece)
       /\ \A j \in 1..Len(piece) :
             IsCell(form, Append(sent, t), piece[j], Len(sent) + 1, End(sent) + j)
  <2>1. CASE form = "binary"
    <3>1. whole = n
      BY <1>9, <2>1
    <3>2. /\ piece \in Seq(Cell) /\ Len(piece) = n
          /\ piece[1].cell = "length" /\ piece[1].size = size
          /\ \A j \in 2..n : piece[j].cell = "body" /\ piece[j].frame = f
      <4>1. piece = FramePiece(f, n, size)
        BY <1>9, <2>1, Zenon DEF FramePiece
      <4>2. size \in Nat /\ n \in Nat /\ n >= MinFrame /\ f \in EventFrame
        BY <1>4, <1>5, <1>6
      <4> QED BY <4>1, <4>2, FrameCells
    <3>3. t.end = End(sent) + n
      BY <1>8, <3>1
    <3>4. \A j \in 1..Len(piece) :
             IsCell("binary", Append(sent, t), piece[j], Len(sent) + 1, End(sent) + j)
      BY <1>4, <1>5, <1>6, <1>8, <1>c, <1>i, <3>2, <3>3, FrameIsThing
    <3> QED BY <2>1, <3>2, <3>3, <3>4
  <2>2. CASE form = "sse"
    <3>1. whole = n + 2
      BY <1>9, <2>2
    <3>2. /\ piece \in Seq(Cell) /\ Len(piece) = n + 2
          /\ \A j \in 1..n : /\ piece[j].cell = "data" /\ piece[j].frame = f
                             /\ piece[j].last = (j = n)
          /\ \A j \in (n + 1)..(n + 2) : piece[j].cell = "newline"
      BY <1>4, <1>6, <1>9, <2>2, SseCells, Zenon
    <3>3. t.end = End(sent) + n + 2 /\ t.end = End(sent) + (n + 2) /\ t.legal
      <4>1. t.end = End(sent) + (n + 2)
        BY <1>8, <3>1
      <4>2. t.end = End(sent) + n + 2
        BY <1>0, <1>4, <4>1
      <4>3. t.legal
        BY <1>5, <1>8, <2>2
      <4> QED BY <4>1, <4>2, <4>3
    <3>4. \A j \in 1..Len(piece) :
             IsCell("sse", Append(sent, t), piece[j], Len(sent) + 1, End(sent) + j)
      BY <1>4, <1>6, <1>8, <1>c, <1>i, <3>2, <3>3, EventIsThing
    <3> QED BY <2>2, <3>2, <3>3, <3>4
  <2> QED BY <1>i, <2>1, <2>2 DEF StreamTypes
<1>11. /\ sent' \in Seq(Sent) /\ Len(sent') = Len(sent) + 1 /\ sent'[Len(sent) + 1] = t
       /\ StartOf(sent', Len(sent) + 1) = End(sent) /\ End(sent') = t.end
       /\ \A i \in 1..Len(sent) : sent'[i] = sent[i] /\ StartOf(sent', i) = StartOf(sent, i)
  BY <1>2, <1>8, <1>i, SaidMore
<1>12. Laid(form, sent')
  <2>1. End(sent) + MinFrame + BlankLine(form) <= t.end
    BY <1>0, <1>7, <1>8, BlankLineType DEF MinFrame
  <2> QED BY <1>2, <1>8, <1>i, <2>1, LaidMore
<1>13. Carried(form, sent', buf, wire', got)
  <2>1. /\ buf \in Seq(Cell) /\ wire \in Seq(Cell) /\ Len(buf) <= got
        /\ got + Len(wire) = End(sent)
    BY <1>3, <1>i DEF StreamTypes, ParserInv, OnTheWay
  <2>2. Carried(form, sent, buf, wire, got)
    BY DEF ParserInv
  <2> QED BY <1>0, <1>2, <1>8, <1>10, <1>i, <2>1, <2>2, CarriedMore
<1>14. wire' \in Seq(Cell) /\ Len(wire') = Len(wire) + Len(piece) /\ Len(piece) \in Nat
  BY <1>2, <1>10, <1>i, Concats DEF StreamTypes
<1>15. StreamTypes'
  BY <1>3, <1>11, <1>14, <1>i DEF StreamTypes
<1>16. OnTheWay'
  BY <1>0, <1>3, <1>10, <1>11, <1>14 DEF ParserInv, OnTheWay
<1>17. Modes'
  <2>1. Len(relayed) < Len(sent) => r + 1 \in 1..Len(sent)
    BY <1>0
  <2> QED BY <1>0, <1>3, <1>11, <2>1 DEF ParserInv, Modes, Done
<1>m. Missing = 0 /\ Missing' = 0
  BY <1>3 DEF Missing, Released
<1>18. Faithful'
  <2>1. r <= Len(sent') /\ \A i \in 1..r : sent'[i] = sent[i]
    BY <1>0, <1>11
  <2> QED BY <1>3, <1>m, <2>1 DEF ParserInv, Faithful
<1>19. Exhausted'
  <2>1. ASSUME NEW i \in 1..Len(sent'), i = r + 1, sent'[i].legal
        PROVE  sent'[i].end > got
    <3>1. CASE i \in 1..Len(sent)
      <4>1. sent'[i] = sent[i]
        BY <1>11, <3>1
      <4>2. sent[i].end > got + 0
        BY <1>3, <1>m, <2>1, <3>1, <4>1 DEF ParserInv, Exhausted
      <4> QED BY <1>0, <4>1, <4>2
    <3>2. CASE i \notin 1..Len(sent)
      <4>1. i = Len(sent) + 1 /\ whole >= 4
        BY <1>0, <1>7, <1>11, <3>2, BlankLineType DEF MinFrame
      <4>2. t.end > got
        BY <1>0, <1>7, <1>8, <4>1
      <4> QED BY <1>11, <4>1, <4>2
    <3> QED BY <3>1, <3>2
  <2>2. got' + Missing' = got
    BY <1>0, <1>3, <1>m
  <2>3. Len(relayed') = r
    BY <1>3
  <2> QED BY <2>1, <2>2, <2>3 DEF Exhausted
<1>20. Stands'
  <2>1. StartOf(sent', r + 1) = StartOf(sent, r + 1)
    <3>1. CASE r = Len(sent)
      BY <1>11, <1>i, <3>1, StartAfter
    <3>2. CASE r # Len(sent)
      <4>1. r + 1 \in 1..Len(sent)
        BY <1>0, <3>2
      <4> QED BY <1>11, <4>1
    <3> QED BY <3>1, <3>2
  <2> QED BY <1>3, <2>1 DEF ParserInv, Stands, Released, Done
<1> QED BY <1>3, <1>12, <1>13, <1>15, <1>16, <1>17, <1>18, <1>19, <1>20 DEF ParserInv

LEMMA CarriedCell ==
    ASSUME NEW fm, NEW sd, NEW b, NEW w, NEW g, Carried(fm, sd, b, w, g),
           NEW i \in 1..Len(sd), NEW k \in CellsOf(sd, i), NEW j,
           k \in (g - Len(b) + 1)..g, j = k - (g - Len(b))
    PROVE  IsCell(fm, sd, b[j], i, k)
BY DEF Carried

\* A chunk arrives; the first cell of the body decides what it is taken for.
LEMMA FeedStep ==
    ASSUME ParserInv, NEW n \in 1..Len(wire), Feed(n)
    PROVE  ParserInv'
<1> DEFINE b == buf \o First(wire, n)
           m == IF mode = "unknown" /\ Len(b) >= Detect
                THEN IF LooksBinary(b) THEN "binary" ELSE "sse"
                ELSE mode
           r == Len(relayed)
<1>1. /\ pc = "wait" /\ wire' = After(wire, n) /\ got' = got + n /\ buf' = b
      /\ mode' = m /\ pc' = IF m = "unknown" THEN "wait" ELSE m
      /\ UNCHANGED <<form, sent, relayed>>
  BY Zenon DEF Feed
<1>0. /\ Len(sent) \in Nat /\ End(sent) \in Nat /\ got \in Nat /\ Len(buf) \in Nat
      /\ Len(wire) \in Nat /\ r \in Nat /\ Done \in Nat /\ Done + Len(buf) = got
      /\ r <= Len(sent) /\ got <= End(sent)
      /\ \A i \in 1..Len(sent) : /\ sent[i].end \in Nat /\ sent[i].legal \in BOOLEAN
                                 /\ StartOf(sent, i) \in Nat
  BY Numbers
<1>i. /\ StreamTypes /\ Laid(form, sent) /\ Carried(form, sent, buf, wire, got) /\ OnTheWay
      /\ Modes /\ Faithful /\ Exhausted /\ Stands
      /\ sent \in Seq(Sent) /\ buf \in Seq(Cell) /\ wire \in Seq(Cell) /\ Len(buf) <= got
  BY DEF ParserInv, StreamTypes
<1>2. n \in 0..Len(wire) /\ n \in Nat /\ n >= 1
  BY <1>0
<1>3. /\ First(wire, n) \in Seq(Cell) /\ Len(First(wire, n)) = n
      /\ wire' \in Seq(Cell) /\ Len(wire') = Len(wire) - n
  BY <1>1, <1>2, <1>i, Cuts
<1>4. b \in Seq(Cell) /\ Len(b) = Len(buf) + n
  BY <1>3, <1>i, Concats
<1>5. Carried(form, sent, b, wire', got + n)
  BY <1>0, <1>1, <1>2, <1>i, CarriedByFeed
<1>6. (mode = "unknown" /\ m # "unknown") <=> (mode = "unknown" /\ Len(b) >= Detect)
  OBVIOUS
<1>7. /\ mode # "unknown" \/ Len(b) < Detect => m = mode
      /\ mode = "unknown" /\ Len(b) >= Detect =>
            m = IF LooksBinary(b) THEN "binary" ELSE "sse"
  BY <1>4 DEF Detect
<1> HIDE DEF b, m
<1>8. m \in {"unknown", "binary", "sse"}
  BY <1>0, <1>4, <1>7, <1>i DEF StreamTypes, Detect
<1>9. StreamTypes'
  BY <1>0, <1>1, <1>2, <1>3, <1>4, <1>8, <1>i DEF StreamTypes
<1>10. Done' = Done
  BY <1>0, <1>1, <1>2, <1>4 DEF Done
<1>11. got + n <= End(sent) /\ OnTheWay'
  <2>1. got + Len(wire) = End(sent)
    BY <1>1, <1>i DEF OnTheWay
  <2>2. /\ got + n <= End(sent) /\ got' + Len(wire') = End(sent') /\ End(sent') \in Nat
    BY <1>0, <1>1, <1>2, <1>3, <2>1
  <2> QED BY <2>2 DEF OnTheWay
<1>12. mode = "unknown" => Done = 0 /\ Len(b) = got + n
  <2>1. mode = "unknown" => Done = 0
    BY <1>i DEF Modes
  <2>2. got \in Nat /\ Len(buf) \in Nat /\ Done + Len(buf) = got /\ n \in Nat
    BY <1>0, <1>2
  <2>3. Done = 0 => Len(buf) = got
    BY <2>2
  <2> QED BY <1>4, <2>1, <2>2, <2>3
<1>13. m = "unknown" <=> got + n < Detect
  BY <1>0, <1>2, <1>4, <1>6, <1>7, <1>12, <1>i DEF Modes, Detect
<1>r. Done = StartOf(sent, r + 1)
  BY <1>1, <1>i DEF Stands, Released
<1>14. mode = "unknown" => r = 0 /\ 1 \in 1..Len(sent) /\ sent[1].end >= MinFrame + BlankLine(form)
  <2> SUFFICES ASSUME mode = "unknown"
               PROVE  r = 0 /\ 1 \in 1..Len(sent)
                      /\ sent[1].end >= MinFrame + BlankLine(form)
    OBVIOUS
  <2>1. Len(sent) # 0
    <3>1. Len(sent) = 0 => End(sent) = 0
      BY <1>i, EmptySeq DEF End
    <3> QED BY <1>0, <1>2, <1>11, <3>1
  <2>2. 1 \in 1..Len(sent) /\ StartOf(sent, 1) = 0
    BY <1>0, <2>1 DEF StartOf
  <2>3. sent[1].end >= MinFrame + BlankLine(form)
    BY <1>0, <1>i, <2>2, BlankLineType DEF Laid, MinFrame
  <2>4. r # 0 => FALSE
    <3> SUFFICES ASSUME r # 0 PROVE FALSE
      OBVIOUS
    <3>1. r \in 1..Len(sent)
      BY <1>0
    <3>2. Done = sent[r].end
      BY <1>r, <1>i, <3>1, StartAfter
    <3>3. StartOf(sent, r) + MinFrame <= sent[r].end
      BY <1>i, <3>1, EndsInOrder
    <3> QED BY <1>0, <1>12, <3>1, <3>2, <3>3 DEF MinFrame
  <2> QED BY <2>2, <2>3, <2>4
<1>15. mode = "unknown" => IsCell(form, sent, b[1], 1, 1)
  <2> SUFFICES ASSUME mode = "unknown" PROVE IsCell(form, sent, b[1], 1, 1)
    OBVIOUS
  <2>1. 1 \in CellsOf(sent, 1) /\ 1 \in 1..Len(sent)
    BY <1>0, <1>14, BlankLineType DEF CellsOf, StartOf, MinFrame
  <2>2. Len(b) = got + n
    BY <1>12
  <2>4. \A g : g = got + n => IsCell(form, sent, b[1], 1, 1)
    <3> SUFFICES ASSUME NEW g, g = got + n PROVE IsCell(form, sent, b[1], 1, 1)
      OBVIOUS
    <3>1. 1 \in (g - Len(b) + 1)..g /\ 1 = 1 - (g - Len(b)) /\ Carried(form, sent, b, wire', g)
      BY <1>0, <1>2, <1>5, <2>2
    <3> QED BY <2>1, <3>1, CarriedCell
  <2> QED BY <2>4
<1>16. m = "binary" => form = "binary"
  <2>1. CASE mode = "unknown" /\ Len(b) >= Detect
    <3> SUFFICES ASSUME m = "binary", form = "sse" PROVE FALSE
      BY <1>i DEF StreamTypes
    <3>1. b[1].cell = "length"
      BY <1>7, <2>1 DEF LooksBinary
    <3>2. ~(1 > sent[1].end - 2)
      BY <1>0, <1>14, <2>1 DEF BlankLine, MinFrame
    <3>3. b[1].cell = "data"
      BY <1>15, <2>1, <3>2 DEF IsCell
    <3> QED BY <3>1, <3>3
  <2>2. CASE ~(mode = "unknown" /\ Len(b) >= Detect)
    <3>1. m = mode
      BY <1>0, <1>2, <1>4, <1>7, <2>2 DEF Detect
    <3> QED BY <1>i, <3>1 DEF Modes
  <2> QED BY <2>1, <2>2
<1>17. m = "sse" /\ form = "binary" => r < Len(sent) /\ ~sent[r + 1].legal
  <2> SUFFICES ASSUME m = "sse", form = "binary" PROVE r < Len(sent) /\ ~sent[r + 1].legal
    OBVIOUS
  <2>1. CASE mode = "unknown" /\ Len(b) >= Detect
    <3>1. ~LooksBinary(b)
      BY <1>7, <2>1
    <3>2. StartOf(sent, 1) + 1 = 1
      BY DEF StartOf
    <3>3. /\ b[1].cell = "length" /\ sent[1].legal = Legal(b[1].size)
          /\ sent[1].legal => b[1].size = sent[1].end - StartOf(sent, 1)
      BY <1>15, <2>1, <3>2 DEF IsCell
    <3>4. ~sent[1].legal
      <4> SUFFICES ASSUME sent[1].legal PROVE FALSE
        OBVIOUS
      <4>1. b[1].size \in Nat /\ MinFrame <= b[1].size /\ b[1].size <= MaxSize
        BY <1>0, <1>14, <2>1, <3>3 DEF Legal, StartOf
      <4>2. b[1].size \in MinFrame..MaxSize
        BY <4>1, SizesAssumption DEF MinFrame
      <4> QED BY <3>1, <3>3, <4>2 DEF LooksBinary
    <3> QED BY <1>0, <1>14, <2>1, <3>4
  <2>2. CASE ~(mode = "unknown" /\ Len(b) >= Detect)
    <3>1. m = mode
      BY <1>0, <1>2, <1>4, <1>7, <2>2 DEF Detect
    <3> QED BY <1>i, <3>1 DEF Modes
  <2> QED BY <2>1, <2>2
<1>18. Modes'
  <2>1. mode' = "unknown" => Done' = 0
    BY <1>1, <1>6, <1>7, <1>8, <1>10, <1>12, <1>i, <1>0, <1>4 DEF Modes, Detect
  <2> QED BY <1>1, <1>8, <1>13, <1>16, <1>17, <2>1 DEF Modes
<1>m. Missing = 0 /\ Missing' = 0 /\ ~Released /\ ~Released'
  BY <1>1, <1>8 DEF Missing, Released
<1>19. Faithful'
  <2>1. ASSUME NEW i \in 1..r
        PROVE  relayed[i] = Meaning(sent[i].thing) /\ sent[i].legal /\ sent[i].end <= got + n
    <3>1. i \in 1..Len(sent)
      BY <1>0
    <3>2. sent[i].end <= got + 0
      BY <1>i, <1>m DEF Faithful
    <3>3. sent[i].end <= got + n
      BY <1>0, <1>2, <3>1, <3>2
    <3> QED BY <1>i, <3>3 DEF Faithful
  <2>2. got' + Missing' = got + n
    BY <1>0, <1>1, <1>2, <1>m
  <2> QED BY <1>0, <1>1, <2>1, <2>2 DEF Faithful
<1>20. Exhausted'
  <2> SUFFICES ASSUME pc' = "wait", NEW i \in 1..Len(sent), i = r + 1
               PROVE  sent[i].end > got + n
    <3>1. got' + Missing' = got + n
      BY <1>0, <1>1, <1>2, <1>m
    <3>2. pc' \notin {"failed", "closed"}
      BY <1>1, <1>8
    <3> QED BY <1>1, <3>1, <3>2 DEF Exhausted
  <2>1. got + n < Detect
    BY <1>1, <1>8, <1>13
  <2>2. StartOf(sent, i) + MinFrame <= sent[i].end
    BY <1>i, EndsInOrder
  <2> QED BY <1>0, <1>2, <2>1, <2>2 DEF MinFrame, Detect
<1>21. Stands'
  BY <1>1, <1>10, <1>r DEF Stands
<1>22. Laid(form, sent)' /\ Carried(form, sent, buf, wire, got)'
  BY <1>1, <1>5, <1>i
<1> QED BY <1>9, <1>11, <1>18, <1>19, <1>20, <1>21, <1>22 DEF ParserInv

\* A loop that finds nothing more to relay waits for the next chunk.
LEMMA WaitStep ==
    ASSUME ParserInv, pc \in {"binary", "sse"}, pc' = "wait",
           UNCHANGED <<form, sent, wire, got, buf, relayed>>,
           mode' \in {"binary", "sse"}, mode' = "binary" => form = "binary",
           mode' = "sse" /\ form = "binary" =>
              Len(relayed) < Len(sent) /\ ~sent[Len(relayed) + 1].legal,
           Len(relayed) + 1 \in 1..Len(sent) /\ sent[Len(relayed) + 1].legal =>
              sent[Len(relayed) + 1].end > got
    PROVE  ParserInv'
<1>0. got \in Nat
  BY Numbers
<1>i. /\ StreamTypes /\ Laid(form, sent) /\ Carried(form, sent, buf, wire, got) /\ OnTheWay
      /\ Modes /\ Faithful /\ Exhausted /\ Stands
  BY DEF ParserInv
<1>1. StreamTypes'
  BY <1>i DEF StreamTypes
<1>2. Laid(form, sent)' /\ Carried(form, sent, buf, wire, got)' /\ OnTheWay' /\ Done' = Done
  BY <1>i DEF OnTheWay, Done
<1>m. Missing = 0 /\ Missing' = 0 /\ ~Released /\ ~Released'
  BY DEF Missing, Released
<1>3. mode # "unknown"
  BY <1>i DEF Modes
<1>4. Modes'
  BY <1>3, <1>i DEF Modes
<1>5. Faithful'
  BY <1>i, <1>m DEF Faithful
<1>6. Exhausted'
  <2>1. got' + Missing' = got
    BY <1>0, <1>m
  <2> QED BY <2>1 DEF Exhausted
<1>7. Stands'
  BY <1>2, <1>i, <1>m DEF Stands
<1> QED BY <1>1, <1>2, <1>4, <1>5, <1>6, <1>7 DEF ParserInv

\* One turn of _drain_binary.
LEMMA BinaryStep ==
    ASSUME ParserInv, DrainBinary
    PROVE  ParserInv'
<1> DEFINE r == Len(relayed)
           next == sent[r + 1]
<1>0. /\ Len(sent) \in Nat /\ End(sent) \in Nat /\ got \in Nat /\ Len(buf) \in Nat
      /\ r \in Nat /\ Done \in Nat /\ Done + Len(buf) = got
      /\ r <= Len(sent) /\ got <= End(sent)
  BY Numbers
<1>t. \A i \in 1..Len(sent) : /\ sent[i].end \in Nat /\ sent[i].legal \in BOOLEAN
                              /\ StartOf(sent, i) \in Nat
  BY Numbers
<1>1. pc = "binary" /\ UNCHANGED <<form, sent, wire, got>>
  BY DEF DrainBinary
<1>i. /\ StreamTypes /\ Laid(form, sent) /\ Modes /\ sent \in Seq(Sent)
  BY DEF ParserInv, StreamTypes
<1>2. mode = "binary" /\ form = "binary" /\ ~Released
  BY <1>1, <1>i DEF Modes, Released
<1>3. /\ Done = StartOf(sent, r + 1)
      /\ Len(buf) > 0 => r + 1 \in 1..Len(sent)
  BY <1>2, NextThing
<1>4. r + 1 \in 1..Len(sent) => Done + MinFrame <= next.end /\ next.end \in Nat
                                /\ next.legal \in BOOLEAN
  BY <1>3, <1>i, <1>t, EndsInOrder
<1>5. ASSUME Len(buf) > 0
      PROVE  /\ next.legal = Legal(buf[1].size)
             /\ next.legal => buf[1].size = next.end - Done
  <2>1. r + 1 \in 1..Len(sent) /\ 1 \in 1..Len(buf)
    BY <1>0, <1>3, <1>5
  <2>2. Done + 1 \in CellsOf(sent, r + 1)
    BY <1>0, <1>3, <1>4, <2>1 DEF CellsOf, MinFrame
  <2>3. IsCell(form, sent, buf[1], r + 1, Done + 1)
    BY <2>1, <2>2, BufferCell
  <2> QED BY <1>2, <1>3, <2>3 DEF IsCell
<1>6. CASE Len(buf) < MinFrame
  <2>1. pc' = "wait" /\ UNCHANGED <<buf, mode, relayed>>
    BY <1>0, <1>6 DEF DrainBinary, MinFrame
  <2>2. r + 1 \in 1..Len(sent) => next.end > got
    BY <1>0, <1>4, <1>6 DEF MinFrame
  <2> QED BY <1>1, <1>2, <2>1, <2>2, WaitStep
<1>7. CASE Len(buf) >= MinFrame /\ ~Legal(buf[1].size)
  <2>1. pc' = "wait" /\ mode' = "sse" /\ UNCHANGED <<buf, relayed>>
    BY <1>0, <1>7 DEF DrainBinary, MinFrame
  <2>2. Len(buf) > 0
    BY <1>0, <1>7 DEF MinFrame
  <2>3. r + 1 \in 1..Len(sent) /\ ~next.legal
    BY <1>3, <1>5, <1>7, <2>2
  <2>4. r < Len(sent)
    BY <1>0, <2>3
  <2> QED BY <1>1, <1>2, <2>1, <2>3, <2>4, WaitStep
<1>8. CASE Len(buf) >= MinFrame /\ Legal(buf[1].size) /\ ~HasFrame(buf)
  <2>1. pc' = "wait" /\ UNCHANGED <<buf, mode, relayed>>
    BY <1>0, <1>8 DEF DrainBinary, MinFrame
  <2>2. Len(buf) > 0
    BY <1>0, <1>8 DEF MinFrame
  <2>3. next.end > got
    <3>1. buf[1].size = next.end - Done /\ r + 1 \in 1..Len(sent)
      BY <1>3, <1>4, <1>5, <1>8, <2>2
    <3>2. ~(Len(buf) >= next.end - Done)
      BY <1>8, <3>1 DEF HasFrame
    <3> QED BY <1>0, <1>4, <3>1, <3>2
  <2> QED BY <1>1, <1>2, <2>1, <2>3, WaitStep
<1>9. CASE Len(buf) >= MinFrame /\ Legal(buf[1].size) /\ HasFrame(buf)
  <2> DEFINE n == buf[1].size
  <2>1. Len(buf) > 0 /\ r + 1 \in 1..Len(sent)
    BY <1>0, <1>3, <1>9 DEF MinFrame
  <2>2. next.legal /\ n = next.end - Done /\ next.end \in Nat /\ Done + MinFrame <= next.end
    BY <1>4, <1>5, <1>9, <2>1
  <2>3. Len(buf) >= n
    BY <1>9 DEF HasFrame
  <2>4. n \in 1..Len(buf) /\ Done + n = next.end /\ n >= MinFrame /\ n # 0
    BY <1>0, <2>2, <2>3 DEF MinFrame
  <2>5. /\ buf' = After(buf, n)
        /\ relayed' = IF n = 0 THEN relayed ELSE Append(relayed, Dispatch(buf[2].frame))
        /\ UNCHANGED <<pc, mode>>
    BY <1>0, <1>9 DEF DrainBinary, MinFrame
  <2>6. Dispatch(buf[2].frame) = Meaning(next.thing)
    <3>1. 2 \in 1..Len(buf) /\ Done + 2 \in CellsOf(sent, r + 1) /\ Done + 2 # Done + 1
      <4>1. Done + 2 <= next.end /\ Done \in Nat /\ next.end \in Nat
        BY <1>0, <2>2 DEF MinFrame
      <4>2. Done + 2 \in (Done + 1)..next.end /\ Done + 2 # Done + 1
        BY <4>1
      <4>3. CellsOf(sent, r + 1) = (Done + 1)..next.end
        BY <1>3 DEF CellsOf
      <4>4. 2 \in 1..Len(buf)
        BY <1>0, <1>9 DEF MinFrame
      <4> QED BY <4>2, <4>3, <4>4
    <3>2. IsCell(form, sent, buf[2], r + 1, Done + 2)
      BY <2>1, <3>1, BufferCell
    <3> QED BY <1>2, <1>3, <3>1, <3>2 DEF IsCell, Carries
  <2>7. relayed' = Append(relayed, Meaning(next.thing))
    BY <2>4, <2>5, <2>6
  <2> HIDE DEF n
  <2> QED BY <1>1, <1>2, <2>1, <2>2, <2>4, <2>5, <2>7, RelayStep
<1>10. Len(buf) < MinFrame \/ Len(buf) >= MinFrame
  BY <1>0 DEF MinFrame
<1> QED BY <1>6, <1>7, <1>8, <1>9, <1>10

\* What the SSE parser looks for in what it is given.
LastCells(cells) == {i \in 1..Len(cells) : cells[i].cell = "data" /\ cells[i].last}

LEMMA DispatchesNothing ==
    ASSUME NEW cells, DispatchSse(cells), LastCells(cells) = {}
    PROVE  relayed' = relayed
BY DEF DispatchSse, LastCells

LEMMA DispatchesOne ==
    ASSUME NEW cells, NEW i, DispatchSse(cells), LastCells(cells) = {i}
    PROVE  relayed' = Append(relayed, Dispatch(cells[i].frame))
<1>1. LastCells(cells) # {} /\ (CHOOSE j \in LastCells(cells) : TRUE) = i
  OBVIOUS
<1> QED BY <1>1, Zenon DEF DispatchSse, LastCells

\* In a binary body there is neither a blank line nor an SSE event.
LEMMA NoSseCells ==
    ASSUME ParserInv, form = "binary"
    PROVE  Breaks = {} /\ LastCells(buf) = {}
<1>0. Len(buf) \in Nat
  BY Numbers
<1>1. ASSUME NEW j \in 1..Len(buf) PROVE buf[j].cell \notin {"newline", "data"}
  <2>1. PICK i \in 1..Len(sent) : Done + j \in CellsOf(sent, i)
    BY BufferCell
  <2>2. IsCell(form, sent, buf[j], i, Done + j)
    BY <2>1, BufferCell
  <2>3. buf[j].cell = "length" \/ buf[j].cell = "body"
    BY <2>2 DEF IsCell
  <2> QED BY <2>3
<1>2. Breaks = {}
  <2>1. ASSUME NEW j \in Breaks PROVE FALSE
    <3>1. j \in 1..Len(buf) /\ buf[j].cell = "newline"
      BY <1>0 DEF Breaks
    <3> QED BY <1>1, <3>1
  <2> QED BY <2>1
<1>3. LastCells(buf) = {}
  BY <1>1 DEF LastCells
<1> QED BY <1>2, <1>3

\* Two newlines are the end of one event.
LEMMA BreakEnds ==
    ASSUME ParserInv, form = "sse", NEW i \in Breaks
    PROVE  \E q \in 1..Len(sent) : sent[q].end = Done + i + 1
<1>0. Done \in Nat /\ Len(buf) \in Nat
  BY Numbers
<1>s. sent \in Seq(Sent) /\ Laid(form, sent)
  BY DEF ParserInv, StreamTypes
<1>1. /\ i \in 1..Len(buf) /\ i + 1 \in 1..Len(buf)
      /\ buf[i].cell = "newline" /\ buf[i + 1].cell = "newline"
  BY <1>0 DEF Breaks
<1>2. PICK q \in 1..Len(sent) : Done + i \in CellsOf(sent, q)
  BY <1>1, BufferCell
<1>3. PICK p \in 1..Len(sent) : Done + (i + 1) \in CellsOf(sent, p)
  BY <1>1, BufferCell
<1>4. /\ sent[q].end \in Nat /\ sent[p].end \in Nat
      /\ StartOf(sent, q) \in Nat /\ StartOf(sent, p) \in Nat
  BY Numbers
<1>5. /\ Done + i <= sent[q].end /\ StartOf(sent, p) < Done + (i + 1)
      /\ Done + (i + 1) <= sent[p].end
  BY <1>0, <1>1, <1>2, <1>3, <1>4 DEF CellsOf
<1>6. Done + i > sent[q].end - 2
  <2>1. IsCell(form, sent, buf[i], q, Done + i)
    BY <1>1, <1>2, BufferCell
  <2> QED BY <1>1, <2>1 DEF IsCell
<1>7. Done + (i + 1) > sent[p].end - 2
  <2>1. IsCell(form, sent, buf[i + 1], p, Done + (i + 1))
    BY <1>1, <1>3, BufferCell
  <2> QED BY <1>1, <2>1 DEF IsCell
<1>8. sent[p].end >= StartOf(sent, p) + 6
  BY <1>s, <1>4 DEF Laid, BlankLine, MinFrame
<1>9. Done + i # sent[q].end
  <2> SUFFICES ASSUME Done + i = sent[q].end PROVE FALSE
    OBVIOUS
  <2>1. q < p
    <3>1. p <= q => sent[p].end <= sent[q].end
      BY <1>s, EndsInOrder
    <3> QED BY <1>0, <1>1, <1>4, <1>5, <3>1
  <2>2. sent[q].end <= StartOf(sent, p)
    BY <1>s, <2>1, EndsInOrder
  <2> QED BY <1>0, <1>1, <1>4, <1>7, <1>8, <2>2
<1>10. sent[q].end = Done + i + 1
  <2>1. \A e, k \in Int : k <= e /\ k > e - 2 /\ k # e => e = k + 1
    OBVIOUS
  <2>2. Done + i \in Int /\ sent[q].end \in Int
    BY <1>0, <1>1, <1>4
  <2> QED BY <1>5, <1>6, <1>9, <2>1, <2>2
<1> QED BY <1>10

\* An event of which everything has arrived ends in two newlines.
LEMMA EndBreaks ==
    ASSUME ParserInv, form = "sse", ~Released, Len(relayed) + 1 \in 1..Len(sent),
           sent[Len(relayed) + 1].end <= got
    PROVE  sent[Len(relayed) + 1].end - 1 - Done \in Breaks
<1> DEFINE q == Len(relayed) + 1
           e == sent[q].end
           i == e - 1 - Done
<1>0. Done \in Nat /\ Len(buf) \in Nat /\ got \in Nat /\ Done + Len(buf) = got /\ e \in Nat
  BY Numbers
<1>1. Done = StartOf(sent, q)
  BY NextThing
<1>2. Done + 6 <= e
  <2>1. StartOf(sent, q) + MinFrame + BlankLine(form) <= e
    BY DEF ParserInv, Laid
  <2> QED BY <1>0, <1>1, <2>1 DEF MinFrame, BlankLine
<1>3. e <= got
  OBVIOUS
<1>4. CellsOf(sent, q) = (Done + 1)..e /\ q \in 1..Len(sent)
  BY <1>1 DEF CellsOf
<1> HIDE DEF e
<1>5. i \in 1..(Len(buf) - 1) /\ i \in 1..Len(buf) /\ i + 1 \in 1..Len(buf)
      /\ Done + i = e - 1 /\ Done + (i + 1) = e
  BY <1>0, <1>2, <1>3
<1> HIDE DEF i
<1>6. Done + i \in CellsOf(sent, q) /\ Done + (i + 1) \in CellsOf(sent, q)
  BY <1>0, <1>2, <1>4, <1>5
<1>7. IsCell(form, sent, buf[i], q, Done + i) /\ IsCell(form, sent, buf[i + 1], q, Done + (i + 1))
  BY <1>4, <1>5, <1>6, BufferCell
<1>8. Done + i > e - 2 /\ Done + (i + 1) > e - 2
  BY <1>0, <1>5
<1>9. buf[i].cell = "newline" /\ buf[i + 1].cell = "newline"
  BY <1>7, <1>8 DEF IsCell, e
<1> QED BY <1>5, <1>9 DEF Breaks, i, e

\* The last data of an event.
LEMMA LastIs ==
    ASSUME ParserInv, form = "sse", ~Released, NEW j \in LastCells(buf)
    PROVE  \E q \in 1..Len(sent) :
              /\ sent[q].end = Done + j + 2 /\ Len(relayed) + 1 \in 1..q
              /\ sent[Len(relayed) + 1].end <= sent[q].end
              /\ IsCell(form, sent, buf[j], q, Done + j)
<1>0. Done \in Nat /\ Len(buf) \in Nat
  BY Numbers
<1>1. j \in 1..Len(buf) /\ buf[j].cell = "data" /\ buf[j].last
  BY DEF LastCells
<1>2. PICK q \in 1..Len(sent) : Done + j \in CellsOf(sent, q)
  BY <1>1, BufferCell
<1>3. IsCell(form, sent, buf[j], q, Done + j) /\ sent[q].end \in Nat
  BY <1>1, <1>2, BufferCell, Numbers
<1>4. Done + j = sent[q].end - 2
  BY <1>1, <1>3 DEF IsCell
<1>5. sent[q].end = Done + j + 2 /\ sent[q].end > Done
  <2>1. \A d, i \in Nat, e \in Nat : d + i = e - 2 => e = d + i + 2 /\ e > d
    OBVIOUS
  <2>2. j \in Nat
    BY <1>1
  <2> QED BY <1>0, <1>3, <1>4, <2>1, <2>2
<1> QED BY <1>2, <1>3, <1>5, NextThing

\* The data of the next event, as far as it has arrived.
LEMMA LastOfNext ==
    ASSUME ParserInv, form = "sse", ~Released, Len(relayed) + 1 \in 1..Len(sent),
           NEW j \in Nat, Done + j + 2 = sent[Len(relayed) + 1].end, j <= Len(buf)
    PROVE  /\ j \in LastCells(buf)
           /\ Dispatch(buf[j].frame) = Meaning(sent[Len(relayed) + 1].thing)
           /\ sent[Len(relayed) + 1].legal
           /\ \A k \in 1..j : k \in LastCells(buf) => k = j
<1> DEFINE q == Len(relayed) + 1
           e == sent[q].end
<1>0. Done \in Nat /\ Len(buf) \in Nat /\ e \in Nat
  BY Numbers
<1>1. Done = StartOf(sent, q)
  BY NextThing
<1>2. Done + 6 <= e
  <2>1. StartOf(sent, q) + MinFrame + BlankLine(form) <= e
    BY DEF ParserInv, Laid
  <2> QED BY <1>0, <1>1, <2>1 DEF MinFrame, BlankLine
<1>3. CellsOf(sent, q) = (Done + 1)..e /\ q \in 1..Len(sent) /\ Done + j + 2 = e
  BY <1>1 DEF CellsOf
<1> HIDE DEF e
<1>4. ASSUME NEW k \in 1..j
      PROVE  /\ k \in 1..Len(buf) /\ IsCell(form, sent, buf[k], q, Done + k)
             /\ ~(Done + k > e - 2) /\ (k = j) = (Done + k = e - 2)
  <2>1. k \in 1..Len(buf) /\ Done + k \in (Done + 1)..e
    BY <1>0, <1>3
  <2>2. IsCell(form, sent, buf[k], q, Done + k)
    BY <1>3, <2>1, BufferCell
  <2>3. ~(Done + k > e - 2) /\ (k = j) = (Done + k = e - 2)
    BY <1>0, <1>3
  <2> QED BY <2>1, <2>2, <2>3
<1>5. ASSUME NEW k \in 1..j
      PROVE  /\ buf[k].cell = "data" /\ buf[k].last = (k = j) /\ Carries(buf[k].frame, sent[q])
             /\ sent[q].legal
  BY <1>4 DEF IsCell, e
<1>6. j \in 1..j
  BY <1>0, <1>2, <1>3
<1>7. j \in LastCells(buf)
  BY <1>4, <1>5, <1>6 DEF LastCells
<1>8. \A k \in 1..j : k \in LastCells(buf) => k = j
  BY <1>5 DEF LastCells
<1> QED BY <1>5, <1>6, <1>7, <1>8 DEF Carries

\* One turn of _drain_sse, the event cut out of it dispatched.
LEMMA SseEventStep ==
    ASSUME ParserInv, DrainSse, Breaks # {}
    PROVE  ParserInv'
<1> DEFINE r == Len(relayed)
           next == sent[r + 1]
<1>0. /\ Len(sent) \in Nat /\ got \in Nat /\ Len(buf) \in Nat /\ r \in Nat
      /\ Done \in Nat /\ Done + Len(buf) = got
  BY Numbers
<1>t. \A i \in 1..Len(sent) : sent[i].end \in Nat
  BY Numbers
<1>1. pc \in {"sse", "final"} /\ UNCHANGED <<form, sent, wire, got, mode>>
  BY DEF DrainSse
<1>2. PICK i \in Breaks :
         /\ \A j \in Breaks : i <= j
         /\ DispatchSse(First(buf, i - 1))
         /\ buf' = After(buf, i + 1)
         /\ UNCHANGED pc
  BY DEF DrainSse
<1>3. form = "sse" /\ ~Released
  BY <1>1, NoSseCells DEF ParserInv, StreamTypes, Released
<1>4. i \in 1..(Len(buf) - 1) /\ i + 1 \in 1..Len(buf) /\ i - 1 \in 0..Len(buf)
  BY <1>0 DEF Breaks
<1>5. PICK q \in 1..Len(sent) : sent[q].end = Done + i + 1
  BY <1>3, BreakEnds
<1>6. r + 1 \in 1..q /\ next.end <= sent[q].end
  <2>1. sent[q].end > Done
    BY <1>0, <1>4, <1>5
  <2> QED BY <1>3, <2>1, NextThing
<1>7. r + 1 \in 1..Len(sent) /\ next.end \in Nat
  BY <1>0, <1>6, <1>t
<1>8. next.end = Done + i + 1
  <2>1. next.end <= got
    BY <1>0, <1>4, <1>5, <1>6, <1>7
  <2>2. next.end - 1 - Done \in Breaks
    BY <1>3, <1>7, <2>1, EndBreaks
  <2>3. i <= next.end - 1 - Done
    BY <1>2, <2>2
  <2>4. \A d, e, k \in Int : k <= e - 1 - d /\ e <= d + k + 1 => e = d + k + 1
    OBVIOUS
  <2>5. Done \in Int /\ next.end \in Int /\ i \in Int
    BY <1>0, <1>4, <1>7
  <2>6. next.end <= Done + i + 1
    BY <1>5, <1>6
  <2> QED BY <2>3, <2>4, <2>5, <2>6
<1>s. Done + 6 <= next.end
  <2>1. StartOf(sent, r + 1) + MinFrame + BlankLine(form) <= next.end
    BY <1>7 DEF ParserInv, Laid
  <2> QED BY <1>0, <1>3, <1>7, <2>1, NextThing DEF MinFrame, BlankLine
<1> DEFINE j == i - 1
           c == First(buf, j)
<1>9. j \in 1..Len(buf) /\ Done + j + 2 = next.end /\ j <= Len(buf) /\ j \in Nat
  BY <1>0, <1>4, <1>8, <1>s
<1>10. /\ j \in LastCells(buf) /\ Dispatch(buf[j].frame) = Meaning(next.thing) /\ next.legal
       /\ \A k \in 1..j : k \in LastCells(buf) => k = j
  BY <1>3, <1>7, <1>9, LastOfNext
<1>11. Len(c) = j /\ \A k \in 1..j : c[k] = buf[k]
  <2>1. buf \in Seq(Cell) /\ j \in 0..Len(buf)
    BY <1>4 DEF ParserInv, StreamTypes
  <2> HIDE DEF j
  <2> QED BY <2>1, Cuts
<1> HIDE DEF j, c
<1>12. LastCells(c) = {j}
  <2>1. ASSUME NEW k \in 1..j
        PROVE  k \in LastCells(c) <=> k \in LastCells(buf)
    <3>1. k \in 1..Len(buf) /\ c[k] = buf[k] /\ k \in 1..Len(c)
      BY <1>0, <1>9, <1>11
    <3> QED BY <3>1 DEF LastCells
  <2>2. j \in 1..j
    BY <1>9
  <2>3. LastCells(c) \subseteq 1..j
    BY <1>11 DEF LastCells
  <2> QED BY <1>10, <2>1, <2>2, <2>3
<1>13. relayed' = Append(relayed, Meaning(next.thing))
  <2>1. DispatchSse(c)
    BY <1>2 DEF c, j
  <2>2. relayed' = Append(relayed, Dispatch(c[j].frame))
    BY <1>12, <2>1, DispatchesOne
  <2>3. c[j] = buf[j]
    BY <1>9, <1>11
  <2> QED BY <1>10, <2>2, <2>3
<1>14. Done + (i + 1) = next.end
  BY <1>0, <1>4, <1>8
<1> QED BY <1>1, <1>2, <1>3, <1>4, <1>7, <1>10, <1>13, <1>14, RelayStep

\* Its last turn before a chunk.
LEMMA SseWaitStep ==
    ASSUME ParserInv, DrainSse, Breaks = {}, pc = "sse"
    PROVE  ParserInv'
<1>1. pc' = "wait" /\ UNCHANGED <<buf, relayed, form, sent, wire, got, mode>>
  BY DEF DrainSse
<1>2. mode = "sse" /\ ~Released
  BY DEF ParserInv, Modes, Released
<1>3. mode' = "sse" /\ form = "binary" =>
         Len(relayed) < Len(sent) /\ ~sent[Len(relayed) + 1].legal
  BY <1>2 DEF ParserInv, Modes
<1>4. ASSUME Len(relayed) + 1 \in 1..Len(sent), sent[Len(relayed) + 1].legal
      PROVE  sent[Len(relayed) + 1].end > got
  <2>1. form = "sse"
    BY <1>1, <1>2, <1>3, <1>4 DEF ParserInv, StreamTypes
  <2>2. ~(sent[Len(relayed) + 1].end <= got)
    BY <1>2, <1>4, <2>1, EndBreaks
  <2>3. got \in Nat /\ sent[Len(relayed) + 1].end \in Nat
    BY <1>4, Numbers
  <2> QED BY <2>2, <2>3
<1> QED BY <1>1, <1>2, <1>3, <1>4, WaitStep

\* What is left in the buffer at the end of the body.
LEMMA SseFinalStep ==
    ASSUME ParserInv, DrainSse, Breaks = {}, pc = "final"
    PROVE  ParserInv'
<1> DEFINE r == Len(relayed)
           next == sent[r + 1]
<1>0. /\ Len(sent) \in Nat /\ got \in Nat /\ Len(buf) \in Nat /\ r \in Nat /\ r <= Len(sent)
      /\ Done \in Nat /\ Done + Len(buf) = got
  BY Numbers
<1>t. \A i \in 1..Len(sent) : sent[i].end \in Nat /\ sent[i].thing \in Things
  BY Numbers
<1>1. /\ pc' = "closed" /\ DispatchSse(buf) /\ buf' = <<>>
      /\ UNCHANGED <<form, sent, wire, got, mode>>
  BY DEF DrainSse
<1>2. mode = "sse" /\ ~Released /\ Released' /\ Missing = 0
  BY <1>1 DEF ParserInv, Modes, Released, Missing
<1>i. /\ StreamTypes /\ Laid(form, sent) /\ OnTheWay /\ Modes /\ Faithful
      /\ sent \in Seq(Sent)
  BY DEF ParserInv, StreamTypes
<1>3. Len(buf') = 0 /\ buf' \in Seq(Cell)
  BY <1>1
<1>4. Carried(form, sent, buf, wire, got)'
  <2> SUFFICES ASSUME NEW i \in 1..Len(sent), NEW k \in CellsOf(sent, i)
               PROVE  /\ k \notin (got - 0 + 1)..got
                      /\ k \in (got + 1)..(got + Len(wire)) =>
                            IsCell(form, sent, wire[k - got], i, k)
    BY <1>0, <1>1, <1>3 DEF Carried
  <2>1. k \notin (got - 0 + 1)..got
    BY <1>0
  <2> QED BY <2>1 DEF ParserInv, Carried
<1>5. Laid(form, sent)' /\ OnTheWay'
  BY <1>1, <1>i DEF OnTheWay
<1>6. Stands'
  BY <1>2 DEF Stands
\* It is enough to tell what is relayed.
<1>7. ASSUME NEW n \in {r, r + 1}, n <= Len(sent), Len(relayed') = n,
             relayed' \in Seq(Seq(Events)), \A i \in 1..r : relayed'[i] = relayed[i],
             n = r + 1 => /\ relayed'[n] = Meaning(next.thing) /\ next.legal
                          /\ next.end <= got + Missing',
             n + 1 \in 1..Len(sent) /\ sent[n + 1].legal => sent[n + 1].end > got + Missing',
             form = "binary" => n = r
      PROVE  ParserInv'
  <2>1. StreamTypes'
    BY <1>0, <1>1, <1>3, <1>7, <1>i DEF StreamTypes
  <2>2. Modes'
    <3>1. form = "binary" => r < Len(sent) /\ ~sent[r + 1].legal
      BY <1>2, <1>i DEF Modes
    <3>2. mode' = "sse" /\ pc' = "closed" /\ got' >= Detect
      BY <1>0, <1>1, <1>2, <1>i DEF Modes, Detect
    <3>3. ~(got' < Detect)
      BY <1>0, <1>1, <3>2 DEF Detect
    <3> QED BY <1>1, <1>7, <3>1, <3>2, <3>3 DEF Modes
  <2>3. Faithful'
    <3>1. ASSUME NEW i \in 1..n
          PROVE  relayed'[i] = Meaning(sent[i].thing) /\ sent[i].legal
                 /\ sent[i].end <= got + Missing'
      <4>1. CASE i \in 1..r
        <5>1. sent[i].end <= got + 0 /\ sent[i].end \in Nat /\ Missing' \in 0..2
          BY <1>0, <1>2, <1>i, <1>t, <4>1 DEF Faithful, Missing
        <5>2. sent[i].end <= got + Missing'
          BY <1>0, <5>1
        <5> QED BY <1>7, <1>i, <4>1, <5>2 DEF Faithful
      <4>2. CASE i \notin 1..r
        <5>1. n = r + 1 /\ i = n
          BY <1>0, <1>7, <4>2
        <5> QED BY <1>7, <5>1
      <4> QED BY <4>1, <4>2
    <3> QED BY <1>1, <1>7, <3>1 DEF Faithful
  <2>4. Exhausted'
    BY <1>1, <1>7 DEF Exhausted
  <2> QED BY <1>4, <1>5, <1>6, <2>1, <2>2, <2>3, <2>4 DEF ParserInv
<1>8. relayed \in Seq(Seq(Events))
  BY <1>i DEF StreamTypes
<1>9. CASE form = "binary"
  <2>1. relayed' = relayed
    BY <1>1, <1>9, NoSseCells, DispatchesNothing
  <2>2. ~sent[r + 1].legal
    BY <1>2, <1>9, <1>i DEF Modes
  <2>3. r # r + 1
    BY <1>0
  <2> QED BY <1>0, <1>7, <1>8, <1>9, <2>1, <2>2, <2>3
<1>10. CASE form = "sse"
  <2>1. Missing' = 2
    BY <1>1, <1>2, <1>10 DEF Missing
  <2>2. r + 1 \in 1..Len(sent) => next.end > got /\ next.end \in Nat
    <3>1. r + 1 \in 1..Len(sent) => ~(next.end <= got) /\ next.end \in Nat
      BY <1>2, <1>10, <1>t, EndBreaks
    <3> QED BY <1>0, <3>1
  <2>3. ASSUME NEW j \in LastCells(buf)
        PROVE  r + 1 \in 1..Len(sent) /\ next.end = Done + j + 2
    <3>1. PICK q \in 1..Len(sent) :
             /\ sent[q].end = Done + j + 2 /\ r + 1 \in 1..q
             /\ next.end <= sent[q].end
      BY <1>2, <1>10, LastIs
    <3>2. r + 1 \in 1..Len(sent) /\ j \in 1..Len(buf)
      BY <1>0, <3>1 DEF LastCells
    <3>3. q = r + 1
      <4> SUFFICES ASSUME r + 1 < q PROVE FALSE
        BY <1>0, <3>1
      <4>1. StartOf(sent, q) + MinFrame + BlankLine(form) <= sent[q].end
        BY <1>i DEF Laid
      <4>2. next.end <= StartOf(sent, q)
        BY <1>i, <3>2, EndsInOrder
      <4>3. StartOf(sent, q) \in Nat
        BY Numbers
      <4>4. StartOf(sent, q) + 6 <= Done + j + 2
        BY <1>10, <3>1, <4>1, <4>3 DEF BlankLine, MinFrame
      <4>5. StartOf(sent, q) <= got
        BY <1>0, <3>2, <4>3, <4>4
      <4> QED BY <1>0, <2>2, <3>2, <4>2, <4>3, <4>5
    <3> QED BY <3>1, <3>2, <3>3
  <2>4. CASE r + 1 \in 1..Len(sent) /\ next.end <= got + 2
    <3> DEFINE j == next.end - 2 - Done
    <3>1. Done + 6 <= next.end
      <4>1. StartOf(sent, r + 1) + MinFrame + BlankLine(form) <= next.end
        BY <1>i, <2>4 DEF Laid
      <4>2. Done = StartOf(sent, r + 1)
        BY <1>2, NextThing
      <4> QED BY <1>0, <1>10, <2>2, <2>4, <4>1, <4>2 DEF MinFrame, BlankLine
    <3>2. j \in Nat /\ Done + j + 2 = next.end /\ j <= Len(buf)
      BY <1>0, <2>2, <2>4, <3>1
    <3> HIDE DEF j
    <3>3. /\ j \in LastCells(buf) /\ Dispatch(buf[j].frame) = Meaning(next.thing)
          /\ next.legal
      BY <1>2, <1>10, <2>4, <3>2, LastOfNext
    <3>4. \A k \in LastCells(buf) : k = j
      <4>1. ASSUME NEW k \in LastCells(buf) PROVE k = j
        <5>1. next.end = Done + k + 2 /\ k \in 1..Len(buf)
          BY <2>3 DEF LastCells
        <5> QED BY <1>0, <3>2, <5>1
      <4> QED BY <4>1
    <3>5. LastCells(buf) = {j}
      BY <3>3, <3>4
    <3>6. relayed' = Append(relayed, Meaning(next.thing))
      BY <1>1, <3>3, <3>5, DispatchesOne
    <3>7. /\ relayed' \in Seq(Seq(Events)) /\ Len(relayed') = r + 1
          /\ relayed'[r + 1] = Meaning(next.thing) /\ \A i \in 1..r : relayed'[i] = relayed[i]
      <4>1. Meaning(next.thing) \in Seq(Events)
        BY <1>t, <2>4, MeaningType
      <4> QED BY <1>8, <3>6, <4>1, AppendProperties
    <3>8. ASSUME r + 1 + 1 \in 1..Len(sent) PROVE sent[r + 1 + 1].end > got + 2
      <4>1. StartOf(sent, r + 1 + 1) + MinFrame + BlankLine(form) <= sent[r + 1 + 1].end
        BY <1>i, <3>8 DEF Laid
      <4>2. StartOf(sent, r + 1 + 1) = next.end
        BY <1>i, <2>4, StartAfter
      <4>3. next.end + 6 <= sent[r + 1 + 1].end /\ sent[r + 1 + 1].end \in Nat
        BY <1>10, <1>t, <2>2, <2>4, <3>8, <4>1, <4>2 DEF MinFrame, BlankLine
      <4> QED BY <1>0, <2>2, <2>4, <4>3
    <3>9. r + 1 \in {r, r + 1} /\ r + 1 <= Len(sent) /\ next.end <= got + Missing'
      BY <1>0, <2>1, <2>4
    <3> QED BY <1>7, <1>10, <2>1, <3>3, <3>7, <3>8, <3>9
  <2>5. CASE ~(r + 1 \in 1..Len(sent) /\ next.end <= got + 2)
    <3>1. LastCells(buf) = {}
      <4>1. ASSUME NEW j \in LastCells(buf) PROVE FALSE
        <5>1. r + 1 \in 1..Len(sent) /\ next.end = Done + j + 2 /\ j \in 1..Len(buf)
          BY <2>3 DEF LastCells
        <5> QED BY <1>0, <2>5, <5>1
      <4> QED BY <4>1
    <3>2. relayed' = relayed
      BY <1>1, <3>1, DispatchesNothing
    <3>3. r + 1 \in 1..Len(sent) => next.end > got + 2
      BY <1>0, <2>2, <2>5
    <3>4. r # r + 1
      BY <1>0
    <3> QED BY <1>0, <1>7, <1>8, <1>10, <2>1, <3>2, <3>3, <3>4
  <2> QED BY <2>4, <2>5
<1> QED BY <1>9, <1>10, <1>i DEF StreamTypes

\* The body ends or breaks off.
LEMMA CloseStep ==
    ASSUME ParserInv, Close \/ Fail
    PROVE  ParserInv'
<1>1. /\ pc = "wait" /\ wire' = <<>> /\ UNCHANGED <<form, sent, got, buf, mode, relayed>>
      /\ \/ pc' = IF mode = "sse" THEN "final" ELSE "closed"
         \/ pc' = "failed"
  BY DEF Close, Fail, EndOfFeed
<1>0. got \in Nat /\ End(sent) \in Nat /\ got <= End(sent)
  BY Numbers
<1>i. /\ StreamTypes /\ Laid(form, sent) /\ Carried(form, sent, buf, wire, got) /\ OnTheWay
      /\ Modes /\ Faithful /\ Exhausted /\ Stands
  BY DEF ParserInv
<1>2. pc' \in {"final", "closed", "failed"} /\ (pc' = "final" => mode = "sse")
      /\ (pc' = "closed" => mode # "sse")
  BY <1>1
<1>m. Missing = 0 /\ Missing' = 0 /\ ~Released /\ ~Released'
  BY <1>1, <1>2 DEF Missing, Released
<1>3. wire' \in Seq(Cell) /\ Len(wire') = 0
  BY <1>1
<1>4. StreamTypes'
  BY <1>1, <1>2, <1>3, <1>i DEF StreamTypes
<1>5. Laid(form, sent)' /\ Done' = Done
  BY <1>1, <1>i DEF Done
<1>6. Carried(form, sent, buf, wire, got)'
  <2>1. Carried(form, sent, buf, <<>>, got)
    BY <1>0, <1>i, CarriedByEnd
  <2> QED BY <1>1, <2>1
<1>7. OnTheWay'
  <2>1. got' + Len(wire') <= End(sent')
    BY <1>0, <1>1, <1>3
  <2> QED BY <1>2, <2>1 DEF OnTheWay
<1>8. Modes'
  BY <1>1, <1>2, <1>5, <1>i DEF Modes
<1>9. Faithful'
  BY <1>1, <1>i, <1>m DEF Faithful
<1>10. Exhausted'
  BY <1>1, <1>i, <1>m DEF Exhausted
<1>11. Stands'
  BY <1>1, <1>5, <1>i, <1>m DEF Stands
<1> QED BY <1>4, <1>5, <1>6, <1>7, <1>8, <1>9, <1>10, <1>11 DEF ParserInv

LEMMA InitParser == ParserInit => ParserInv
<1> SUFFICES ASSUME ParserInit PROVE ParserInv
  OBVIOUS
<1>1. /\ form \in {"binary", "sse"} /\ sent = <<>> /\ wire = <<>> /\ got = 0 /\ buf = <<>>
      /\ mode = "unknown" /\ pc = "wait" /\ relayed = <<>>
  BY DEF ParserInit
<1>2. Len(sent) = 0 /\ Len(wire) = 0 /\ Len(buf) = 0 /\ Len(relayed) = 0 /\ End(sent) = 0
  BY <1>1 DEF End
<1>3. StreamTypes
  BY <1>1, <1>2 DEF StreamTypes
<1>4. Laid(form, sent) /\ Carried(form, sent, buf, wire, got)
  BY <1>2 DEF Laid, Carried
<1>5. Done = 0
  <2>1. got = 0 /\ Len(buf) = 0
    BY <1>1, <1>2
  <2> QED BY <2>1 DEF Done
<1>6. OnTheWay /\ Modes /\ Faithful /\ Exhausted
  BY <1>1, <1>2, <1>5 DEF OnTheWay, Modes, Faithful, Exhausted, Detect
<1>7. Stands
  BY <1>2, <1>5 DEF Stands, StartOf
<1> QED BY <1>3, <1>4, <1>6, <1>7 DEF ParserInv

LEMMA ParserStep == ParserInv /\ [ParserNext]_parserVars => ParserInv'
<1> SUFFICES ASSUME ParserInv, [ParserNext]_parserVars PROVE ParserInv'
  OBVIOUS
<1>1. CASE SayAnything
  BY <1>1, SayStep DEF SayAnything
<1>2. CASE FeedAny
  BY <1>2, FeedStep DEF FeedAny
<1>3. CASE DrainBinary
  BY <1>3, BinaryStep
<1>4. CASE DrainSse
  <2>1. pc \in {"sse", "final"}
    BY <1>4 DEF DrainSse
  <2> QED BY <1>4, <2>1, SseEventStep, SseWaitStep, SseFinalStep
<1>5. CASE Close \/ Fail
  BY <1>5, CloseStep
<1>6. CASE UNCHANGED parserVars
  BY <1>6 DEF parserVars, ParserInv, StreamTypes, OnTheWay, Modes, Faithful, Exhausted, Stands,
              Missing, Released, Done
<1> QED BY <1>1, <1>2, <1>3, <1>4, <1>5, <1>6 DEF ParserNext

\* Everything the parser has cut out of the body, and where it stands in it.
THEOREM ParserInvariant == ParserSpec => []ParserInv
BY InitParser, ParserStep, PTL DEF ParserSpec

\* For frames, chunks and corrupted lengths of every size: what is relayed while
\* the parser waits is all that has arrived, once and in order, and nothing else.
THEOREM WhatArrivedIsRelayed == ParserSpec => []RelaysWhatArrived
<1>1. ParserInv => RelaysWhatArrived
  BY InvRelays
<1> QED BY <1>1, ParserInvariant, PTL

\* The end of the body releases an SSE event that lacks its blank line, and
\* nothing of one cut short.
THEOREM TheEndReleases == ParserSpec => []EndReleases
<1>1. ParserInv => EndReleases
  BY InvRelays
<1> QED BY <1>1, ParserInvariant, PTL
=============================================================================
