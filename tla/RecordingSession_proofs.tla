---------------------- MODULE RecordingSession_proofs ----------------------
(***************************************************************************)
(* Proofs about RecordingSession for any sources and any bounds, and what  *)
(* TimeAlignment, which it uses, promises for every set of rules and ids.  *)
(***************************************************************************)
EXTENDS RecordingSession, SequenceTheorems, WellFoundedInduction, TLAPS

Time(lineage) == INSTANCE TimeAlignment WITH Lineage <- lineage

-----------------------------------------------------------------------------
(* Types *)

Rule == [mode : {"remote_clock", "manual"}, offset : Int]
IsTable(table) == DOMAIN table \in SUBSET Sources /\ table \in [DOMAIN table -> Rule]
IsClocks(known) == DOMAIN known \in SUBSET {Agent} /\ known \in [DOMAIN known -> Int]

Batch == [src : {Agent}, id : 1..MaxChunks, ends : {TRUE}]
Value == [line : {l \in Line : l # <<>>}, time : Int]

SourcesOK ==
  /\ connecting \in SUBSET Sources /\ open \in SUBSET Sources
  /\ received \in 0..MaxChunks /\ switches \in 0..MaxSwitches
  /\ batch \in Seq(Batch) /\ aligned \in Int /\ (aligned # 0 => batch # <<>>)
  /\ estimate \in Int /\ estimates \in 0..MaxEstimates

AlignmentOK == IsTable(rules) /\ IsTable(kept) /\ IsClocks(clocks) /\ frozen \in BOOLEAN

GuiOK ==
  /\ gui \in {"idle", "leaving", "listed", "starting", "startFlush", "stopFlush"}
  /\ chosen \in SUBSET Sources /\ sessions \in 0..MaxSessions

SessionOK ==
  /\ declared \in SUBSET Sources /\ recording \in BOOLEAN
  /\ raw \in Seq(Chunk) /\ values \in Seq(Value)

PipelineOK ==
  /\ queue \in Seq(LocalChunk) /\ hand \in Seq(LocalChunk) /\ Len(hand) <= 1
  /\ unit \in Seq(LocalChunk) /\ pending \in [Local -> Seq(LocalChunk)]

TypeOK == SourcesOK /\ AlignmentOK /\ GuiOK /\ SessionOK /\ PipelineOK

\* A line is handed out before its last chunk leaves the worker's hand.
UnitInv == unit # <<>> => hand # <<>> /\ hand[1].ends /\ Last(unit) = hand[1]

\* What was received of a session is recorded, or the worker or the queue has it; a session that
\* was ended has nothing under way.
LogsInv ==
  /\ ~recording => RecordedEnds = ReceivedEnds
  /\ recording =>
       RecordedEnds \o (Among(hand, LocalEnd) \o Among(queue, LocalEnd)) = ReceivedEnds

IInv == TypeOK /\ UnitInv /\ LogsInv

-----------------------------------------------------------------------------
(* Induction, with the set of the numbers for which a statement holds. *)

LEMMA LeastMember ==
  ASSUME NEW S \in SUBSET Nat, S # {}
  PROVE  \E m \in S : \A k \in S : m <= k
<1>1. \E m \in S : \A k \in S : ~(<<k, m>> \in OpToRel(<, Nat))
  BY WFMin, NatLessThanWellFounded, Zenon
<1>2. PICK m \in S : \A k \in S : ~(<<k, m>> \in OpToRel(<, Nat))
  BY <1>1
<1>3. \A k \in S : ~(k < m)
  BY <1>2, Zenon DEF OpToRel
<1>. QED
  BY <1>3, SMT

LEMMA Induction ==
  ASSUME NEW S \in SUBSET Nat, 0 \in S, \A n \in S : n + 1 \in S
  PROVE  \A n \in Nat : n \in S
<1>. SUFFICES ASSUME Nat \ S # {} PROVE FALSE
  OBVIOUS
<1>1. PICK m \in Nat \ S : \A k \in Nat \ S : m <= k
  BY LeastMember
<1>2. m - 1 \in S
  BY <1>1
<1>. QED
  BY <1>1, <1>2

-----------------------------------------------------------------------------
(* The elements of a sequence that are in a set *)

\* Among() after each of the elements: the last of these is its result.
Steps(first, s, S) ==
  /\ first[0] = <<>>
  /\ \A n \in 1..Len(s) :
       first[n] = IF s[n] \in S THEN Append(first[n - 1], s[n]) ELSE first[n - 1]
  /\ Among(s, S) = first[Len(s)]

LEMMA AmongSteps ==
  ASSUME NEW T, NEW s \in Seq(T), NEW S
  PROVE  \E first : Steps(first, s, S)
<1>. DEFINE Step(f, n) == IF n = 0 THEN <<>>
                          ELSE IF s[n] \in S THEN Append(f[n - 1], s[n]) ELSE f[n - 1]
            Is(f, m) == f = [n \in 0..m |-> Step(f, n)]
            M == {m \in Nat : \E f : Is(f, m)}
<1>1. 0 \in M
  <2>. DEFINE f == [n \in 0..0 |-> <<>>]
  <2>1. Is(f, 0)
    OBVIOUS
  <2>. QED
    BY <2>1
<1>2. ASSUME NEW m \in M PROVE m + 1 \in M
  <2>1. PICK f : Is(f, m)
    OBVIOUS
  <2>. DEFINE g == [n \in 0..(m + 1) |-> IF n <= m THEN f[n] ELSE Step(f, m + 1)]
  <2>2. ASSUME NEW n \in 0..(m + 1) PROVE g[n] = Step(g, n)
    <3>. HIDE DEF Step
    <3>1. \A k \in 0..m : f[k] = Step(f, k) /\ g[k] = f[k]
      <4>1. f = [k \in 0..m |-> Step(f, k)]
        BY <2>1
      <4>2. \A k \in 0..m : g[k] = f[k]
        OBVIOUS
      <4>3. \A k \in 0..m : f[k] = Step(f, k)
        BY <4>1, Zenon
      <4>. QED
        BY <4>2, <4>3
    <3>2. g[m + 1] = Step(f, m + 1)
      OBVIOUS
    <3>. HIDE DEF g
    <3>. USE DEF Step
    <3>3. CASE n = 0
      BY <3>1, <3>3
    <3>4. CASE n \in 1..m
      <4>1. n - 1 \in 0..m /\ n \in 0..m
        BY <3>4
      <4>2. g[n] = Step(f, n) /\ g[n - 1] = f[n - 1]
        BY <3>1, <4>1
      <4>. QED
        BY <4>2
    <3>5. CASE n = m + 1
      <4>1. (m + 1) - 1 = m /\ m \in 0..m
        OBVIOUS
      <4>2. g[m] = f[m]
        BY <3>1, <4>1
      <4>. QED
        BY <3>2, <3>5, <4>1, <4>2
    <3>. QED
      BY <3>3, <3>4, <3>5
  <2>3. Is(g, m + 1)
    BY <2>2
  <2>. HIDE DEF g, Is
  <2>. QED
    BY <2>3
<1>3. Len(s) \in M
  <2>1. M \in SUBSET Nat /\ Len(s) \in Nat
    OBVIOUS
  <2>. HIDE DEF M
  <2>. QED
    BY <1>1, <1>2, <2>1, Induction
<1>. DEFINE first == CHOOSE f : Is(f, Len(s))
<1>4. Is(first, Len(s))
  BY <1>3
<1>5. Among(s, S) = first[Len(s)]
  BY DEF Among
<1>. HIDE DEF first
<1>6. \A n \in 0..Len(s) : first[n] = Step(first, n)
  BY <1>4
<1>7. Len(s) \in Nat
  OBVIOUS
<1>. QED
  BY <1>5, <1>6, <1>7 DEF Steps

LEMMA AmongType ==
  ASSUME NEW T, NEW s \in Seq(T), NEW S
  PROVE  Among(s, S) \in Seq(T)
<1>1. PICK first : Steps(first, s, S)
  BY AmongSteps
<1>. DEFINE M == {n \in Nat : n <= Len(s) => first[n] \in Seq(T)}
<1>2. 0 \in M
  <2>1. first[0] = <<>> /\ <<>> \in Seq(T)
    BY <1>1 DEF Steps
  <2>. QED
    BY <2>1
<1>3. ASSUME NEW n \in M, n + 1 <= Len(s) PROVE first[n + 1] \in Seq(T)
  <2>1. n + 1 \in 1..Len(s) /\ first[n] \in Seq(T) /\ s[n + 1] \in T
    BY <1>3
  <2>2. first[n + 1] = IF s[n + 1] \in S THEN Append(first[n], s[n + 1]) ELSE first[n]
    BY <1>1, <2>1 DEF Steps
  <2>. QED
    BY <2>1, <2>2
<1>4. Len(s) \in M
  <2>1. M \in SUBSET Nat /\ Len(s) \in Nat /\ \A n \in M : n + 1 \in M
    BY <1>3
  <2>. HIDE DEF M
  <2>. QED
    BY <1>2, <2>1, Induction
<1>. QED
  BY <1>1, <1>4 DEF Steps

LEMMA AmongNothing ==
  ASSUME NEW S
  PROVE  Among(<<>>, S) = <<>>
<1>1. <<>> \in Seq({}) /\ Len(<<>>) = 0
  OBVIOUS
<1>2. PICK first : Steps(first, <<>>, S)
  BY <1>1, AmongSteps
<1>. QED
  BY <1>1, <1>2 DEF Steps

LEMMA AmongAppend ==
  ASSUME NEW T, NEW s \in Seq(T), NEW e \in T, NEW S
  PROVE  Among(Append(s, e), S) = IF e \in S THEN Append(Among(s, S), e) ELSE Among(s, S)
<1>. DEFINE t == Append(s, e)
            N == Len(s)
<1>1. /\ t \in Seq(T) /\ N \in Nat /\ Len(t) = N + 1 /\ t[N + 1] = e
      /\ \A n \in 1..N : t[n] = s[n]
  OBVIOUS
<1>. HIDE DEF t
<1>2. PICK f : Steps(f, s, S)
  BY AmongSteps
<1>3. PICK g : Steps(g, t, S)
  BY <1>1, AmongSteps
<1>. DEFINE M == {n \in Nat : n <= N => f[n] = g[n]}
<1>4. N \in M
  <2>1. 0 \in M
    BY <1>2, <1>3 DEF Steps
  <2>2. ASSUME NEW n \in M, n + 1 <= N PROVE f[n + 1] = g[n + 1]
    <3>1. n + 1 \in 1..N /\ n + 1 \in 1..(N + 1) /\ f[n] = g[n] /\ (n + 1) - 1 = n
      BY <1>1, <2>2
    <3>2. f[n + 1] = IF s[n + 1] \in S THEN Append(f[n], s[n + 1]) ELSE f[n]
      BY <1>2, <3>1 DEF Steps
    <3>3. g[n + 1] = IF t[n + 1] \in S THEN Append(g[n], t[n + 1]) ELSE g[n]
      BY <1>1, <1>3, <3>1 DEF Steps
    <3>. QED
      BY <1>1, <3>1, <3>2, <3>3
  <2>3. M \in SUBSET Nat /\ \A n \in M : n + 1 \in M
    <3>1. \A n \in M : n + 1 \in Nat
      OBVIOUS
    <3>. QED
      BY <2>2, <3>1
  <2>. HIDE DEF M
  <2>. QED
    BY <1>1, <2>1, <2>3, Induction
<1>5. f[N] = g[N] /\ (N + 1) - 1 = N /\ N + 1 \in 1..(N + 1)
  BY <1>1, <1>4
<1>6. g[N + 1] = IF e \in S THEN Append(g[N], e) ELSE g[N]
  BY <1>1, <1>3, <1>5 DEF Steps
<1>. QED
  BY <1>1, <1>2, <1>3, <1>5, <1>6 DEF Steps, t

LEMMA AmongOne ==
  ASSUME NEW e, NEW S
  PROVE  Among(<<e>>, S) = IF e \in S THEN <<e>> ELSE <<>>
<1>1. <<>> \in Seq({e}) /\ e \in {e} /\ Append(<<>>, e) = <<e>>
  OBVIOUS
<1>2. Among(Append(<<>>, e), S) = IF e \in S THEN Append(Among(<<>>, S), e) ELSE Among(<<>>, S)
  BY <1>1, AmongAppend
<1>. QED
  BY <1>1, <1>2, AmongNothing

LEMMA AppendConcat ==
  ASSUME NEW T, NEW a \in Seq(T), NEW b \in Seq(T), NEW e \in T
  PROVE  Append(a \o b, e) = a \o Append(b, e) /\ Append(b, e) \in Seq(T)
<1>1. <<e>> \in Seq(T) /\ a \o b \in Seq(T)
  OBVIOUS
<1>2. Append(b, e) = b \o <<e>> /\ Append(a \o b, e) = (a \o b) \o <<e>>
  BY <1>1, AppendIsConcat
<1>3. (a \o b) \o <<e>> = a \o (b \o <<e>>)
  BY <1>1, ConcatAssociative
<1>4. b \o <<e>> \in Seq(T)
  BY <1>1, ConcatProperties
<1>. QED
  BY <1>2, <1>3, <1>4

LEMMA AmongHead ==
  ASSUME NEW T, NEW s \in Seq(T), s # <<>>, NEW S
  PROVE  Among(s, S) = Among(<<Head(s)>>, S) \o Among(Tail(s), S)
<1>. DEFINE t == Tail(s)
            N == Len(t)
            one == Among(<<Head(s)>>, S)
<1>1. /\ t \in Seq(T) /\ N \in Nat /\ Len(s) = N + 1 /\ Head(s) = s[1] /\ s[1] \in T
      /\ \A n \in 1..N : t[n] = s[n + 1] /\ t[n] \in T
  <2>1. /\ t \in Seq(T) /\ Len(t) = Len(s) - 1 /\ Head(s) \in T
        /\ \A n \in 1..Len(t) : t[n] = s[n + 1]
    BY HeadTailProperties
  <2>2. Head(s) = s[1] /\ Len(s) \in Nat /\ N \in Nat
    BY <2>1
  <2>3. \A n \in 1..N : t[n] \in T
    BY <2>1, ElementOfSeq
  <2>. QED
    BY <2>1, <2>2, <2>3
<1>2. one \in Seq(T) /\ one = IF s[1] \in S THEN <<s[1]>> ELSE <<>>
  <2>1. <<s[1]>> \in Seq(T)
    BY <1>1
  <2>2. one \in Seq(T)
    BY <1>1, <2>1, AmongType
  <2>. QED
    BY <1>1, <2>2, AmongOne
<1>. HIDE DEF t, one
<1>3. PICK f : Steps(f, s, S)
  BY AmongSteps
<1>4. PICK g : Steps(g, t, S)
  BY <1>1, AmongSteps
<1>. DEFINE M == {n \in Nat : n <= N => g[n] \in Seq(T) /\ f[n + 1] = one \o g[n]}
<1>5. N \in M
  <2>1. 0 \in M
    <3>1. g[0] = <<>> /\ f[0] = <<>> /\ 1 \in 1..Len(s) /\ 1 - 1 = 0
      BY <1>1, <1>3, <1>4 DEF Steps
    <3>2. f[1] = IF s[1] \in S THEN Append(f[0], s[1]) ELSE f[0]
      BY <1>3, <3>1 DEF Steps
    <3>3. f[1] = one
      BY <1>1, <1>2, <3>1, <3>2
    <3>4. one \o <<>> = one /\ <<>> \in Seq(T)
      BY <1>2, ConcatEmptySeq, EmptySeq
    <3>5. g[0] \in Seq(T) /\ f[0 + 1] = one \o g[0]
      BY <3>1, <3>3, <3>4
    <3>. QED
      BY <3>5
  <2>2. ASSUME NEW n \in M, n + 1 <= N
        PROVE  g[n + 1] \in Seq(T) /\ f[(n + 1) + 1] = one \o g[n + 1]
    <3>1. /\ n + 1 \in 1..N /\ (n + 1) + 1 \in 1..Len(s)
          /\ (n + 1) - 1 = n /\ ((n + 1) + 1) - 1 = n + 1
          /\ g[n] \in Seq(T) /\ f[n + 1] = one \o g[n]
      BY <1>1, <2>2
    <3>. DEFINE e == t[n + 1]
    <3>2. e \in T /\ e = s[(n + 1) + 1]
      BY <1>1, <3>1
    <3>3. g[n + 1] = IF e \in S THEN Append(g[n], e) ELSE g[n]
      BY <1>4, <3>1 DEF Steps
    <3>4. f[(n + 1) + 1] = IF e \in S THEN Append(f[n + 1], e) ELSE f[n + 1]
      BY <1>3, <3>1, <3>2 DEF Steps
    <3>. HIDE DEF e
    <3>5. Append(one \o g[n], e) = one \o Append(g[n], e) /\ Append(g[n], e) \in Seq(T)
      <4>1. one \in Seq(T) /\ g[n] \in Seq(T) /\ e \in T
        BY <1>2, <3>1, <3>2
      <4>. QED
        BY <4>1, AppendConcat, Zenon
    <3>. QED
      BY <3>1, <3>3, <3>4, <3>5
  <2>3. M \in SUBSET Nat /\ \A n \in M : n + 1 \in M
    <3>1. \A n \in M : n + 1 \in Nat
      OBVIOUS
    <3>. QED
      BY <2>2, <3>1
  <2>. HIDE DEF M
  <2>. QED
    BY <1>1, <2>1, <2>3, Induction
<1>6. f[N + 1] = one \o g[N]
  BY <1>1, <1>5
<1>. QED
  BY <1>1, <1>3, <1>4, <1>6 DEF Steps, one, t

-----------------------------------------------------------------------------
(* The time a sample is given *)

LEMMA MinIsMember ==
  ASSUME NEW lineage, NEW S \in SUBSET Nat, S # {}
  PROVE  Time(lineage)!Min(S) \in S
<1>1. \E x \in S : \A y \in S : ~(<<y, x>> \in OpToRel(<, Nat))
  BY WFMin, NatLessThanWellFounded, Zenon
<1>2. PICK x \in S : \A y \in S : ~(<<y, x>> \in OpToRel(<, Nat))
  BY <1>1
<1>3. \A y \in S : ~(y < x)
  BY <1>2, Zenon DEF OpToRel
<1>4. \A y \in S : x <= y
  BY <1>3, SMT
<1>. QED
  BY <1>4, Zenon DEF Time!Min

AreRules(table) ==
  \A r \in DOMAIN table : table[r] = [mode |-> table[r].mode, offset |-> table[r].offset]

\* A source and the one its rule is for look at the same clock.
SameClock(lineage, table, known, id) ==
  Time(lineage)!Has(table, id) =>
    LET owner == Time(lineage)!Owner(table, id)
    IN  /\ Time(lineage)!Has(known, id) <=> Time(lineage)!Has(known, owner)
        /\ Time(lineage)!Has(known, id) =>
             Time(lineage)!Match(known, id) = Time(lineage)!Match(known, owner)

\* startSession() writes the offsets of the clocks into the rules that use them and then
\* forgets the clocks: from there on, and in every replay, a sample is given the time it was
\* given before, provided that the clock a source uses is the one its rule's source uses.
THEOREM FreezeKeepsAlignment ==
  ASSUME NEW lineage, NEW table, AreRules(table), NEW known, NEW nothing, DOMAIN nothing = {},
         NEW id, DOMAIN lineage[id] \in SUBSET Nat, SameClock(lineage, table, known, id),
         NEW source, NEW receive
  PROVE  Time(lineage)!Align(Time(lineage)!SnapshotRules(table, known), nothing, id, source, receive)
           = Time(lineage)!Align(table, known, id, source, receive)
<1>. DEFINE snapshot == Time(lineage)!SnapshotRules(table, known)
            r == Time(lineage)!Owner(table, id)
<1>1. DOMAIN snapshot = DOMAIN table
  BY DEF Time!SnapshotRules
<1>2. Time(lineage)!Known(snapshot, id) = Time(lineage)!Known(table, id)
  BY <1>1 DEF Time!Known
<1>3. Time(lineage)!Has(snapshot, id) = Time(lineage)!Has(table, id) /\ Time(lineage)!Owner(snapshot, id) = r
  BY <1>2 DEF Time!Has, Time!Owner
<1>4. ~Time(lineage)!Has(nothing, id)
  BY DEF Time!Has, Time!Known
<1>5. CASE ~Time(lineage)!Has(table, id)
  <2>1. Time(lineage)!Offset(snapshot, nothing, id) = Time(lineage)!Offset(table, known, id)
    BY <1>3, <1>5 DEF Time!Offset
  <2>. QED
    BY <2>1, <1>3, <1>5 DEF Time!Align, Time!Chosen
<1>6. CASE Time(lineage)!Has(table, id)
  <2>1. r \in DOMAIN table
    <3>1. Time(lineage)!Known(table, id) \in SUBSET Nat /\ Time(lineage)!Known(table, id) # {}
      BY <1>6 DEF Time!Known, Time!Has
    <3>2. Time(lineage)!Min(Time(lineage)!Known(table, id)) \in Time(lineage)!Known(table, id)
      BY <3>1, MinIsMember
    <3>. QED
      BY <3>2 DEF Time!Known, Time!Owner
  <2>2. table[r] = [mode |-> table[r].mode, offset |-> table[r].offset]
    BY <2>1 DEF AreRules
  <2>3. snapshot[r] = IF table[r].mode = "remote_clock" /\ Time(lineage)!Has(known, r)
                      THEN [table[r] EXCEPT !.offset = -Time(lineage)!Match(known, r)] ELSE table[r]
    BY <2>1 DEF Time!SnapshotRules
  <2>4. snapshot[r].mode = table[r].mode
    BY <2>2, <2>3
  <2>5. snapshot[r].offset = IF table[r].mode = "remote_clock" /\ Time(lineage)!Has(known, r)
                             THEN -Time(lineage)!Match(known, r) ELSE table[r].offset
    BY <2>2, <2>3
  <2>6. Time(lineage)!Match(snapshot, id) = snapshot[r] /\ Time(lineage)!Match(table, id) = table[r]
    BY <1>3 DEF Time!Match
  <2>7. Time(lineage)!Offset(snapshot, nothing, id) = Time(lineage)!Offset(table, known, id)
    BY <1>3, <1>4, <1>6, <2>4, <2>5, <2>6 DEF SameClock, Time!Offset
  <2>. QED
    BY <2>7, <2>4, <2>6, <1>3, <1>6 DEF Time!Align, Time!Chosen
<1>. QED
  BY <1>5, <1>6

\* A measurement of the agent's clock is off by at most half of the round trip, whatever
\* the delays on the two ways, up to the unit that the division rounds off
\* (docs/REMOTE_AGENT_PROTOCOL.md: uncertainty = round_trip / 2).
THEOREM EstimateIsNear ==
  ASSUME NEW send \in Int, NEW ahead \in Int, NEW there \in Nat, NEW back \in Nat
  PROVE  LET m == Alignment!Measured(send, send + there + ahead, send + there + back)
         IN /\ m.trip = there + back
            /\ -(m.trip \div 2) <= m.offset - ahead
            /\ m.offset - ahead <= m.trip \div 2 + 1
<1>. DEFINE trip == there + back
            half == trip \div 2
<1>1. half \in Int /\ 2 * half <= trip /\ trip <= 2 * half + 1
  BY SMT
<1>2. (send + there + back) - send = trip
  BY SMT
<1>3. Alignment!Measured(send, send + there + ahead, send + there + back)
        = [offset |-> (send + there + ahead) - (send + half), trip |-> trip]
  BY <1>2 DEF Alignment!Measured
<1>4. (send + there + ahead) - (send + half) - ahead = there - half
  BY <1>1, SMT
<1>5. -half <= there - half /\ there - half <= half + 1
  BY <1>1, SMT
<1>. QED
  BY <1>3, <1>4, <1>5

-----------------------------------------------------------------------------
(* The time a source of the session is given *)

Ids == Sources \cup {Topic}

LEMMA LineageOfId ==
  ASSUME NEW id \in Ids
  PROVE  /\ Lineages[id] = IF id = Topic THEN <<Topic, Agent>> ELSE <<id>>
         /\ DOMAIN Lineages[id] \in SUBSET Nat
         /\ \A i \in DOMAIN Lineages[id] :
              Lineages[id][i] \in IF id = Topic THEN {Topic, Agent} ELSE {id}
         /\ id = Topic => DOMAIN Lineages[id] = 1..2 /\ Lineages[id][2] = Agent
         /\ id # Topic => DOMAIN Lineages[id] = 1..1 /\ Lineages[id][1] = id
<1>1. Lineages[id] = IF id = Topic THEN <<Topic, Agent>> ELSE <<id>>
  BY DEF Lineages, Ids
<1>2. CASE id = Topic
  <2>1. Lineages[id] = <<Topic, Agent>>
    BY <1>1, <1>2
  <2>. HIDE DEF Topic
  <2>. QED
    BY <1>2, <2>1
<1>3. CASE id # Topic
  <2>1. Lineages[id] = <<id>>
    BY <1>1, <1>3
  <2>. QED
    BY <1>1, <1>3, <2>1
<1>. QED
  BY <1>2, <1>3

\* The alignment of the session is that of its lineages.
LEMMA SameAlignment ==
  ASSUME NEW table, NEW known, NEW id
  PROVE  /\ Alignment!Known(table, id) = Time(Lineages)!Known(table, id)
         /\ Alignment!Has(table, id) = Time(Lineages)!Has(table, id)
         /\ Alignment!Owner(table, id) = Time(Lineages)!Owner(table, id)
         /\ Alignment!Match(table, id) = Time(Lineages)!Match(table, id)
         /\ Alignment!SnapshotRules(table, known) = Time(Lineages)!SnapshotRules(table, known)
         /\ \A source, receive :
              Alignment!Align(table, known, id, source, receive)
                = Time(Lineages)!Align(table, known, id, source, receive)
<1>1. \A t, i : Alignment!Known(t, i) = Time(Lineages)!Known(t, i)
  BY DEF Alignment!Known, Time!Known
<1>2. \A t, i : Alignment!Has(t, i) = Time(Lineages)!Has(t, i)
  BY <1>1 DEF Alignment!Has, Time!Has
<1>3. \A t, i : Alignment!Owner(t, i) = Time(Lineages)!Owner(t, i)
  BY <1>1 DEF Alignment!Owner, Time!Owner, Alignment!Min, Time!Min
<1>4. \A t, i : Alignment!Match(t, i) = Time(Lineages)!Match(t, i)
  BY <1>3 DEF Alignment!Match, Time!Match
<1>5. \A t, k : Alignment!SnapshotRules(t, k) = Time(Lineages)!SnapshotRules(t, k)
  BY <1>2, <1>4 DEF Alignment!SnapshotRules, Time!SnapshotRules
<1>6. \A t, k, i : Alignment!Offset(t, k, i) = Time(Lineages)!Offset(t, k, i)
  BY <1>2, <1>4 DEF Alignment!Offset, Time!Offset
<1>7. Alignment!none = Time(Lineages)!none
  BY DEF Alignment!none, Time!none
<1>8. \A t, k, i, a, b : Alignment!Chosen(t, k, i, a, b) = Time(Lineages)!Chosen(t, k, i, a, b)
  BY <1>2, <1>4, <1>6, <1>7 DEF Alignment!Chosen, Time!Chosen
<1>9. \A t, k, i, a, b : Alignment!Align(t, k, i, a, b) = Time(Lineages)!Align(t, k, i, a, b)
  BY <1>8 DEF Alignment!Align, Time!Align
<1>. QED
  BY <1>1, <1>2, <1>3, <1>4, <1>5, <1>9

LEMMA OwnerOfId ==
  ASSUME NEW table, NEW id \in Ids, Alignment!Has(table, id)
  PROVE  /\ Alignment!Owner(table, id) \in DOMAIN table
         /\ Alignment!Owner(table, id) \in IF id = Topic THEN {Topic, Agent} ELSE {id}
<1>. DEFINE K == Alignment!Known(table, id)
<1>1. K \in SUBSET Nat /\ K # {}
  BY LineageOfId DEF Alignment!Known, Alignment!Has
<1>2. Time(Lineages)!Min(K) \in K
  BY <1>1, MinIsMember
<1>3. Alignment!Min(K) \in K
  BY <1>2 DEF Alignment!Min, Time!Min
<1>. QED
  BY <1>3, LineageOfId DEF Alignment!Known, Alignment!Owner

LEMMA TimeType ==
  ASSUME NEW table, IsTable(table), NEW known, IsClocks(known), NEW s \in Sources
  PROVE  TimeOf(table, known, s) \in Int
<1>. DEFINE id == Channel(s)
<1>1. id \in Ids
  BY DEF Channel, Ids
<1>. HIDE DEF id
<1>2. Alignment!Has(table, id) => Alignment!Match(table, id).offset \in Int
  BY <1>1, OwnerOfId DEF IsTable, Rule, Alignment!Match
<1>3. Alignment!Has(known, id) => Alignment!Match(known, id) \in Int
  BY <1>1, OwnerOfId DEF IsClocks, Alignment!Match
<1>4. Alignment!Offset(table, known, id) \in Int
  BY <1>2, <1>3 DEF Alignment!Offset
<1>5. Alignment!Chosen(table, known, id, 50, 50) \in Int
  BY <1>4 DEF Alignment!Chosen
<1>6. Alignment!Align(table, known, id, 50, 50) \in Int
  BY <1>5 DEF Alignment!Align
<1>. QED
  BY <1>6 DEF TimeOf, SourceTime, id

LEMMA SnapshotType ==
  ASSUME NEW table, IsTable(table), NEW known, IsClocks(known)
  PROVE  IsTable(Alignment!SnapshotRules(table, known))
<1>. DEFINE frozenTable == Alignment!SnapshotRules(table, known)
<1>1. DOMAIN frozenTable = DOMAIN table /\ DOMAIN table \in SUBSET Sources
  BY DEF Alignment!SnapshotRules, IsTable
<1>2. ASSUME NEW s \in DOMAIN table PROVE frozenTable[s] \in Rule
  <2>1. s \in Ids /\ table[s] \in Rule
    BY <1>1 DEF Ids, IsTable
  <2>2. Alignment!Has(known, s) => Alignment!Match(known, s) \in Int
    BY <2>1, OwnerOfId DEF IsClocks, Alignment!Match
  <2>3. CASE table[s].mode = "remote_clock" /\ Alignment!Has(known, s)
    <3>1. frozenTable[s] = [table[s] EXCEPT !.offset = -Alignment!Match(known, s)]
      BY <2>3 DEF Alignment!SnapshotRules
    <3>. DEFINE offset == -Alignment!Match(known, s)
    <3>2. offset \in Int
      BY <2>2, <2>3
    <3>. HIDE DEF offset
    <3>. QED
      BY <2>1, <3>1, <3>2 DEF Rule, offset
  <2>4. CASE ~(table[s].mode = "remote_clock" /\ Alignment!Has(known, s))
    BY <2>1, <2>4 DEF Alignment!SnapshotRules
  <2>. QED
    BY <2>3, <2>4
<1>3. frozenTable = [s \in DOMAIN table |-> frozenTable[s]]
  BY DEF Alignment!SnapshotRules
<1>. HIDE DEF frozenTable
<1>4. frozenTable \in [DOMAIN table -> Rule]
  BY <1>2, <1>3
<1>. QED
  BY <1>1, <1>4 DEF IsTable, frozenTable

\* A topic and its agent look at the same clock, since only agents have one.
LEMMA FrozenTimes ==
  ASSUME NEW table, IsTable(table), NEW known, IsClocks(known), NEW s \in Sources
  PROVE  TimeOf(Alignment!SnapshotRules(table, known), NoClocks, s) = TimeOf(table, known, s)
<1>. DEFINE id == Channel(s)
            owner == Alignment!Owner(table, id)
<1>1. id \in Ids /\ (id = Topic \/ id = s)
  BY DEF Channel, Ids
<1>. HIDE DEF id
<1>2. ASSUME Alignment!Has(table, id), id = Topic
      PROVE  /\ Alignment!Has(known, id) <=> Alignment!Has(known, owner)
             /\ Alignment!Has(known, id) => Alignment!Match(known, id) = Alignment!Match(known, owner)
  <2>1. owner = Agent /\ Agent # Topic /\ Agent \in Ids
    <3>1. owner \in DOMAIN table /\ owner \in {Topic, Agent}
      BY <1>1, <1>2, OwnerOfId
    <3>. QED
      BY <3>1, TopicAssumption DEF IsTable, Sources, Ids
  <2>2. Alignment!Has(known, id) <=> Agent \in DOMAIN known
    <3>1. /\ DOMAIN Lineages[id] = 1..2 /\ Lineages[id][2] = Agent
          /\ \A i \in 1..2 : Lineages[id][i] \in {Topic, Agent}
      BY <1>1, <1>2, LineageOfId
    <3>2. DOMAIN known \in SUBSET {Agent}
      BY DEF IsClocks
    <3>. QED
      BY <2>1, <3>1, <3>2 DEF Alignment!Has, Alignment!Known
  <2>3. Alignment!Has(known, owner) <=> Agent \in DOMAIN known
    <3>1. DOMAIN Lineages[Agent] = 1..1 /\ Lineages[Agent][1] = Agent
      BY <2>1, LineageOfId
    <3>. QED
      BY <2>1, <3>1 DEF Alignment!Has, Alignment!Known
  <2>4. ASSUME Alignment!Has(known, id)
        PROVE  Alignment!Match(known, id) = Alignment!Match(known, owner)
    <3>1. Alignment!Owner(known, id) \in DOMAIN known
      BY <1>1, <2>4, OwnerOfId
    <3>2. Alignment!Owner(known, owner) \in DOMAIN known
      BY <2>1, <2>2, <2>3, <2>4, OwnerOfId
    <3>3. DOMAIN known \in SUBSET {Agent}
      BY DEF IsClocks
    <3>. HIDE DEF owner
    <3>. QED
      BY <3>1, <3>2, <3>3 DEF Alignment!Match
  <2>. QED
    BY <2>2, <2>3, <2>4
<1>3. ASSUME Alignment!Has(table, id), id # Topic PROVE owner = id
  BY <1>1, <1>3, OwnerOfId
<1>4. Alignment!Has(table, id) =>
        /\ Alignment!Has(known, id) <=> Alignment!Has(known, owner)
        /\ Alignment!Has(known, id) => Alignment!Match(known, id) = Alignment!Match(known, owner)
  <2>. HIDE DEF owner
  <2>. QED
    BY <1>2, <1>3
<1>5. SameClock(Lineages, table, known, id)
  BY <1>4, SameAlignment, Zenon DEF SameClock
<1>6. AreRules(table)
  BY DEF IsTable, Rule, AreRules
<1>7. DOMAIN NoClocks = {} /\ DOMAIN Lineages[id] \in SUBSET Nat
  BY <1>1, LineageOfId DEF NoClocks
<1>. HIDE DEF owner
<1>8. ASSUME NEW nothing, DOMAIN nothing = {}
      PROVE  Alignment!Align(Alignment!SnapshotRules(table, known), nothing, id, 50, 50)
               = Alignment!Align(table, known, id, 50, 50)
  <2>. DEFINE snapshot == Alignment!SnapshotRules(table, known)
  <2>1. snapshot = Time(Lineages)!SnapshotRules(table, known)
    BY SameAlignment
  <2>2. Time(Lineages)!Align(Time(Lineages)!SnapshotRules(table, known), nothing, id, 50, 50)
          = Time(Lineages)!Align(table, known, id, 50, 50)
    <3>1. DOMAIN Lineages[id] \in SUBSET Nat
      BY <1>7
    <3>. HIDE DEF snapshot
    <3>2. \A source, receive :
            Time(Lineages)!Align(Time(Lineages)!SnapshotRules(table, known), nothing, id, source, receive)
              = Time(Lineages)!Align(table, known, id, source, receive)
      BY <1>5, <1>6, <1>8, <3>1, FreezeKeepsAlignment, SMTT(90)
    <3>. QED
      BY <3>2
  <2>. HIDE DEF snapshot
  <2>3. Alignment!Align(snapshot, nothing, id, 50, 50)
          = Time(Lineages)!Align(snapshot, nothing, id, 50, 50)
    BY SameAlignment, Zenon
  <2>4. Alignment!Align(table, known, id, 50, 50) = Time(Lineages)!Align(table, known, id, 50, 50)
    BY SameAlignment, Zenon
  <2>. QED
    BY <2>1, <2>2, <2>3, <2>4 DEF snapshot
<1>. QED
  BY <1>7, <1>8 DEF TimeOf, SourceTime, id

-----------------------------------------------------------------------------
(* Types are kept *)

LEMMA InitType == Init => TypeOK /\ UnitInv
<1>. SUFFICES ASSUME Init PROVE TypeOK /\ UnitInv
  OBVIOUS
<1>1. \A S : <<>> \in Seq(S) /\ Len(<<>>) = 0
  BY EmptySeq
<1>2. SourcesOK /\ GuiOK
  BY <1>1, BoundsAssumption DEF Init, SourcesOK, GuiOK
<1>3. AlignmentOK
  <2>1. IsTable(NoRules) /\ IsClocks(NoClocks)
    BY DEF NoRules, NoClocks, IsTable, IsClocks
  <2>2. IsTable(ByClock)
    <3>1. Alignment!none \in Int
      BY DEF Alignment!none
    <3>. QED
      BY <3>1 DEF ByClock, IsTable, Rule
  <2>. QED
    BY <2>1, <2>2 DEF Init, AlignmentOK
<1>4. SessionOK
  BY <1>1 DEF Init, SessionOK
<1>5. PipelineOK /\ UnitInv
  BY <1>1 DEF Init, PipelineOK, UnitInv
<1>. QED
  BY <1>2, <1>3, <1>4, <1>5 DEF TypeOK

LEMMA Tables == IsTable(ByClock) /\ IsTable(NoRules) /\ IsClocks(NoClocks)
<1>1. IsTable(NoRules) /\ IsClocks(NoClocks)
  BY DEF NoRules, NoClocks, IsTable, IsClocks
<1>2. Alignment!none \in Int
  BY DEF Alignment!none
<1>3. IsTable(ByClock)
  BY <1>2 DEF ByClock, IsTable, Rule
<1>. QED
  BY <1>1, <1>3

LEMMA ChunkTypes ==
  /\ LocalChunk \subseteq Chunk /\ LocalEnd \subseteq LocalChunk /\ Batch \subseteq Chunk
  /\ Seq(LocalChunk) \subseteq Line /\ Seq(Batch) \subseteq Line
<1>1. LocalChunk \subseteq Chunk /\ LocalEnd \subseteq LocalChunk /\ Batch \subseteq Chunk
  BY DEF LocalChunk, LocalEnd, Batch, Chunk, Sources
<1>. QED
  BY <1>1, SeqMonotonic DEF Line

\* The parts of the state that an action leaves alone.
LEMMA Alone ==
  /\ SourcesOK /\ UNCHANGED <<sourceVars, agentVars>> => SourcesOK'
  /\ AlignmentOK /\ UNCHANGED alignmentVars => AlignmentOK'
  /\ GuiOK /\ UNCHANGED guiVars => GuiOK'
  /\ SessionOK /\ UNCHANGED sessionVars => SessionOK'
  /\ PipelineOK /\ UNCHANGED pipelineVars => PipelineOK'
<1>1. SourcesOK /\ UNCHANGED <<sourceVars, agentVars>> => SourcesOK'
  BY DEF SourcesOK, sourceVars, agentVars
<1>2. AlignmentOK /\ UNCHANGED alignmentVars => AlignmentOK'
  BY DEF AlignmentOK, alignmentVars, IsTable, IsClocks
<1>3. GuiOK /\ UNCHANGED guiVars => GuiOK'
  BY DEF GuiOK, guiVars
<1>4. SessionOK /\ UNCHANGED sessionVars => SessionOK'
  BY DEF SessionOK, sessionVars
<1>5. PipelineOK /\ UNCHANGED pipelineVars => PipelineOK'
  BY DEF PipelineOK, pipelineVars
<1>. QED
  BY <1>1, <1>2, <1>3, <1>4, <1>5

LEMMA ReceiveType ==
  ASSUME TypeOK, NEW s \in Local, NEW ends \in BOOLEAN, Receive(s, ends)
  PROVE  TypeOK'
<1>. DEFINE chunk == [src |-> s, id |-> received', ends |-> ends]
<1>1. received' \in 1..MaxChunks
  BY BoundsAssumption DEF TypeOK, SourcesOK, Receive
<1>2. chunk \in LocalChunk /\ chunk \in Chunk
  BY <1>1, ChunkTypes DEF LocalChunk
<1>. HIDE DEF chunk
<1>3. (raw' = raw \/ raw' = Append(raw, chunk)) /\ (queue' = queue \/ queue' = Append(queue, chunk))
  BY DEF Receive, chunk
<1>4. Append(raw, chunk) \in Seq(Chunk) /\ Append(queue, chunk) \in Seq(LocalChunk)
  BY <1>2, AppendProperties DEF TypeOK, SessionOK, PipelineOK
<1>5. SourcesOK'
  BY <1>1 DEF TypeOK, SourcesOK, Receive, agentVars
<1>6. SessionOK' /\ PipelineOK'
  BY <1>3, <1>4 DEF TypeOK, SessionOK, PipelineOK, Receive
<1>7. AlignmentOK' /\ GuiOK'
  BY Alone DEF TypeOK, Receive
<1>. QED
  BY <1>5, <1>6, <1>7 DEF TypeOK

LEMMA AgentType ==
  ASSUME TypeOK, ReceiveBatch \/ AlignSamples \/ DeliverSamples \/ Measure \/ UpdateClock
  PROVE  TypeOK'
<1>1. CASE ReceiveBatch
  <2>. DEFINE chunk == [src |-> Agent, id |-> received', ends |-> TRUE]
  <2>1. received' \in 1..MaxChunks
    BY <1>1, BoundsAssumption DEF TypeOK, SourcesOK, ReceiveBatch
  <2>2. chunk \in Batch /\ chunk \in Chunk
    BY <2>1, ChunkTypes DEF Batch
  <2>3. batch' = <<chunk>> /\ (raw' = raw \/ raw' = raw \o batch')
    BY <1>1 DEF ReceiveBatch
  <2>. HIDE DEF chunk
  <2>4. <<chunk>> \in Seq(Batch) /\ <<chunk>> \in Seq(Chunk) /\ <<chunk>> # <<>>
    BY <2>2
  <2>5. SourcesOK'
    <3>1. batch' \in Seq(Batch) /\ batch' # <<>>
      BY <2>3, <2>4
    <3>2. received' \in 0..MaxChunks
      BY <2>1
    <3>3. UNCHANGED <<connecting, open, switches, agentVars>>
      BY <1>1 DEF ReceiveBatch
    <3>. QED
      BY <3>1, <3>2, <3>3 DEF TypeOK, SourcesOK, agentVars
  <2>6. raw' \in Seq(Chunk)
    <3>1. raw \o <<chunk>> \in Seq(Chunk)
      BY <2>4, ConcatProperties DEF TypeOK, SessionOK
    <3>. QED
      BY <2>3, <3>1 DEF TypeOK, SessionOK
  <2>7. SessionOK'
    BY <1>1, <2>6 DEF TypeOK, SessionOK, ReceiveBatch
  <2>8. AlignmentOK' /\ GuiOK' /\ PipelineOK'
    BY <1>1, Alone DEF TypeOK, ReceiveBatch
  <2>. QED
    BY <2>5, <2>7, <2>8 DEF TypeOK
<1>2. CASE AlignSamples
  <2>1. aligned' \in Int
    BY <1>2, TimeType DEF TypeOK, AlignmentOK, AlignSamples, Sources
  <2>2. SourcesOK'
    BY <1>2, <2>1 DEF TypeOK, SourcesOK, AlignSamples, sourceVars
  <2>. QED
    BY <1>2, <2>2, Alone DEF TypeOK, AlignSamples
<1>3. CASE DeliverSamples
  <2>. DEFINE value == [line |-> batch, time |-> aligned]
  <2>1. value \in Value
    BY <1>3, ChunkTypes DEF TypeOK, SourcesOK, DeliverSamples, Value
  <2>2. values' = values \/ values' = Append(values, value)
    BY <1>3 DEF DeliverSamples
  <2>. HIDE DEF value
  <2>3. Append(values, value) \in Seq(Value)
    BY <2>1, AppendProperties DEF TypeOK, SessionOK
  <2>4. SessionOK'
    BY <1>3, <2>2, <2>3 DEF TypeOK, SessionOK, DeliverSamples
  <2>5. <<>> \in Seq(Batch)
    BY EmptySeq
  <2>6. SourcesOK'
    BY <1>3, <2>5 DEF TypeOK, SourcesOK, DeliverSamples
  <2>7. AlignmentOK' /\ GuiOK' /\ PipelineOK'
    BY <1>3, Alone DEF TypeOK, DeliverSamples
  <2>. QED
    BY <2>4, <2>6, <2>7 DEF TypeOK
<1>4. CASE Measure
  <2>1. SourcesOK'
    BY <1>4, BoundsAssumption, EstimatesAssumption DEF TypeOK, SourcesOK, Measure, sourceVars
  <2>. QED
    BY <1>4, <2>1, Alone DEF TypeOK, Measure
<1>5. CASE UpdateClock
  <2>1. SourcesOK'
    BY <1>5, BoundsAssumption DEF TypeOK, SourcesOK, UpdateClock, sourceVars
  <2>2. estimate \in Int
    BY BoundsAssumption DEF TypeOK, SourcesOK
  <2>3. IsClocks([s \in {Agent} |-> estimate])
    BY <2>2 DEF IsClocks
  <2>4. AlignmentOK'
    BY <1>5, <2>3 DEF TypeOK, AlignmentOK, UpdateClock, IsTable, IsClocks
  <2>. QED
    BY <1>5, <2>1, <2>4, Alone DEF TypeOK, UpdateClock
<1>. QED
  BY <1>1, <1>2, <1>3, <1>4, <1>5

LEMMA SwitchType ==
  ASSUME TypeOK,
         \/ LeaveReplay \/ \E s \in Sources : Connect(s) \/ Opened(s) \/ Closed(s)
         \/ \E s \in Local : Reconfigure(s)
         \/ \E table \in {ByClock, NoRules} : SetTimeAlignmentRules(table)
  PROVE  TypeOK'
<1>1. ASSUME NEW s \in Sources, Connect(s) \/ Opened(s) \/ Closed(s) PROVE TypeOK'
  <2>1. SourcesOK'
    BY <1>1, BoundsAssumption
    DEF TypeOK, SourcesOK, Connect, Opened, Closed, MaySwitch, Switched, agentVars
  <2>2. GuiOK'
    BY <1>1 DEF TypeOK, GuiOK, Connect, Opened, Closed, guiVars
  <2>. QED
    BY <1>1, <2>1, <2>2, Alone DEF TypeOK, Connect, Opened, Closed
<1>2. ASSUME NEW s \in Local, Reconfigure(s) PROVE TypeOK'
  <2>1. SourcesOK'
    BY <1>2, BoundsAssumption
    DEF TypeOK, SourcesOK, Reconfigure, MaySwitch, Switched, agentVars
  <2>2. <<>> \in Seq(LocalChunk)
    BY EmptySeq
  <2>3. PipelineOK'
    BY <1>2, <2>2 DEF TypeOK, PipelineOK, Reconfigure
  <2>. QED
    BY <1>2, <2>1, <2>3, Alone DEF TypeOK, Reconfigure
<1>3. ASSUME NEW table \in {ByClock, NoRules}, SetTimeAlignmentRules(table) PROVE TypeOK'
  <2>1. SourcesOK'
    BY <1>3, BoundsAssumption
    DEF TypeOK, SourcesOK, SetTimeAlignmentRules, MaySwitch, Switched, agentVars
  <2>2. IsTable(rules') /\ IsClocks(clocks')
    BY <1>3, Tables DEF SetTimeAlignmentRules
  <2>3. AlignmentOK'
    BY <1>3, <2>2 DEF TypeOK, AlignmentOK, SetTimeAlignmentRules, IsTable, IsClocks
  <2>. QED
    BY <1>3, <2>1, <2>3, Alone DEF TypeOK, SetTimeAlignmentRules
<1>4. CASE LeaveReplay
  <2>1. SourcesOK' /\ GuiOK'
    BY <1>4, BoundsAssumption
    DEF TypeOK, SourcesOK, GuiOK, LeaveReplay, MaySwitch, Switched, agentVars
  <2>2. AlignmentOK'
    BY <1>4 DEF TypeOK, AlignmentOK, LeaveReplay, IsTable, IsClocks
  <2>. QED
    BY <1>4, <2>1, <2>2, Alone DEF TypeOK, LeaveReplay
<1>. QED
  BY <1>1, <1>2, <1>3, <1>4

LEMMA GuiType ==
  ASSUME TypeOK, ListSources \/ LockToStop \/ SessionStep
  PROVE  TypeOK'
<1>1. CASE ListSources
  <2>1. GuiOK'
    BY <1>1, BoundsAssumption DEF TypeOK, GuiOK, SourcesOK, ListSources
  <2>. QED
    BY <1>1, <2>1, Alone DEF TypeOK, ListSources
<1>2. CASE LockToStop
  <2>1. GuiOK'
    BY <1>2 DEF TypeOK, GuiOK, LockToStop
  <2>. QED
    BY <1>2, <2>1, Alone DEF TypeOK, LockToStop
<1>3. CASE Freeze
  <2>1. GuiOK'
    BY <1>3 DEF TypeOK, GuiOK, Freeze
  <2>2. IsTable(kept')
    BY <1>3, SnapshotType DEF TypeOK, AlignmentOK, Freeze
  <2>3. AlignmentOK'
    BY <1>3, <2>2 DEF TypeOK, AlignmentOK, Freeze, IsTable, IsClocks
  <2>. QED
    BY <1>3, <2>1, <2>3, Alone DEF TypeOK, Freeze
<1>4. CASE LockToStart
  <2>1. GuiOK'
    BY <1>4 DEF TypeOK, GuiOK, LockToStart
  <2>2. IsTable(rules') /\ IsClocks(clocks')
    BY <1>4, Tables DEF TypeOK, AlignmentOK, LockToStart
  <2>3. AlignmentOK'
    BY <1>4, <2>2 DEF TypeOK, AlignmentOK, LockToStart, IsTable, IsClocks
  <2>. QED
    BY <1>4, <2>1, <2>3, Alone DEF TypeOK, LockToStart
<1>5. CASE StartSucceeds
  <2>1. GuiOK'
    BY <1>5 DEF TypeOK, GuiOK, StartSucceeds
  <2>2. <<>> \in Seq(Chunk) /\ <<>> \in Seq(Value)
    BY EmptySeq
  <2>3. SessionOK'
    BY <1>5, <2>2 DEF TypeOK, SessionOK, GuiOK, StartSucceeds
  <2>. QED
    BY <1>5, <2>1, <2>3, Alone DEF TypeOK, StartSucceeds
<1>6. CASE StartFails \/ StopSession
  <2>1. GuiOK' /\ SessionOK'
    BY <1>6 DEF TypeOK, GuiOK, SessionOK, StartFails, StopSession
  <2>2. AlignmentOK'
    BY <1>6 DEF TypeOK, AlignmentOK, StartFails, StopSession, IsTable, IsClocks
  <2>. QED
    BY <1>6, <2>1, <2>2, Alone DEF TypeOK, StartFails, StopSession
<1>7. CASE LockRefused
  <2>1. GuiOK'
    BY <1>7 DEF TypeOK, GuiOK, LockRefused
  <2>2. AlignmentOK'
    BY <1>7 DEF TypeOK, AlignmentOK, LockRefused, IsTable, IsClocks
  <2>. QED
    BY <1>7, <2>1, <2>2, Alone DEF TypeOK, LockRefused
<1>. QED
  BY <1>1, <1>2, <1>3, <1>4, <1>5, <1>6, <1>7 DEF SessionStep

LEMMA OneInHand ==
  ASSUME PipelineOK, hand # <<>>
  PROVE  hand = <<hand[1]>> /\ hand[1] \in LocalChunk
<1>1. hand \in Seq(LocalChunk) /\ Len(hand) <= 1
  BY DEF PipelineOK
<1>2. Len(hand) = 1 /\ hand[1] \in LocalChunk
  <2>1. Len(hand) \in Nat \ {0}
    BY <1>1, EmptySeq, Zenon
  <2>2. Len(hand) = 1 /\ 1 \in 1..Len(hand)
    <3>. DEFINE n == Len(hand)
    <3>1. n \in Nat \ {0} /\ n <= 1
      BY <1>1, <2>1
    <3>. HIDE DEF n
    <3>2. n = 1 /\ 1 \in 1..n
      BY <3>1
    <3>. QED
      BY <3>2 DEF n
  <2>. QED
    BY <1>1, <2>2, ElementOfSeq, Zenon
<1>3. /\ <<hand[1]>> \in Seq(LocalChunk) /\ Len(<<hand[1]>>) = 1
      /\ \A i \in 1..1 : <<hand[1]>>[i] = hand[i]
  BY <1>2
<1>. QED
  BY <1>1, <1>2, <1>3, SeqEqual

\* A line that is handed out, and its value.
LEMMA UnitValue ==
  ASSUME TypeOK, UnitInv, unit # <<>>
  PROVE  /\ Last(unit) \in LocalEnd /\ hand = <<Last(unit)>>
         /\ [line |-> unit, time |-> TimeOf(rules, clocks, Last(unit).src)] \in Value
<1>1. unit \in Seq(LocalChunk) /\ hand \in Seq(LocalChunk) /\ Len(hand) <= 1
  BY DEF TypeOK, PipelineOK
<1>2. hand # <<>> /\ hand[1].ends /\ Last(unit) = hand[1]
  BY DEF UnitInv
<1>3. hand = <<hand[1]>> /\ hand[1] \in LocalChunk
  BY <1>2, OneInHand DEF TypeOK
<1>4. Last(unit) \in LocalEnd /\ Last(unit).src \in Sources
  BY <1>2, <1>3 DEF LocalChunk, LocalEnd, Sources
<1>5. unit \in Line
  BY <1>1, ChunkTypes
<1>6. TimeOf(rules, clocks, Last(unit).src) \in Int
  BY <1>4, TimeType DEF TypeOK, AlignmentOK
<1>. QED
  BY <1>2, <1>3, <1>4, <1>5, <1>6 DEF Value

LEMMA WorkerType ==
  ASSUME TypeOK, UnitInv, WorkerStep
  PROVE  TypeOK' /\ UnitInv'
<1>1. /\ queue \in Seq(LocalChunk) /\ hand \in Seq(LocalChunk) /\ Len(hand) <= 1
      /\ unit \in Seq(LocalChunk) /\ pending \in [Local -> Seq(LocalChunk)]
  BY DEF TypeOK, PipelineOK
<1>2. CASE Take
  <2>1. Head(queue) \in LocalChunk /\ Tail(queue) \in Seq(LocalChunk)
    BY <1>1, <1>2, HeadTailProperties DEF Take
  <2>2. <<Head(queue)>> \in Seq(LocalChunk) /\ Len(<<Head(queue)>>) = 1
    BY <2>1
  <2>3. PipelineOK'
    BY <1>1, <1>2, <2>1, <2>2 DEF PipelineOK, Take
  <2>4. unit = <<>> /\ unit' = unit
    BY <1>2 DEF UnitInv, Take
  <2>5. UnitInv'
    BY <2>4 DEF UnitInv
  <2>. QED
    BY <1>2, <2>3, <2>5, Alone DEF TypeOK, Take
<1>3. CASE Parse
  <2>. DEFINE chunk == hand[1]
              grown == Append(pending[chunk.src], chunk)
  <2>1. chunk \in LocalChunk
    BY <1>1, <1>3 DEF Parse
  <2>2. pending[chunk.src] \in Seq(LocalChunk) /\ chunk.src \in Local
    BY <1>1, <2>1 DEF LocalChunk
  <2>3. grown \in Seq(LocalChunk) /\ grown # <<>> /\ Last(grown) = chunk /\ <<>> \in Seq(LocalChunk)
    BY <2>1, <2>2, AppendProperties, EmptySeq DEF Last
  <2>4. \/ chunk.ends /\ unit' = grown /\ pending' = [pending EXCEPT ![chunk.src] = <<>>] /\ hand' = hand
        \/ unit' = unit /\ pending' = [pending EXCEPT ![chunk.src] = grown] /\ hand' = <<>>
    BY <1>3, Zenon DEF Parse
  <2>5. hand # <<>> /\ unit = <<>> /\ queue' = queue
    BY <1>3 DEF Parse
  <2>. HIDE DEF grown
  <2>6. pending' \in [Local -> Seq(LocalChunk)] /\ unit' \in Seq(LocalChunk)
    BY <1>1, <2>2, <2>3, <2>4
  <2>7. hand' \in Seq(LocalChunk) /\ Len(hand') <= 1
    <3>1. hand' = hand \/ hand' = <<>>
      BY <2>4
    <3>2. CASE hand' = <<>>
      <4>1. Len(<<>>) = 0 /\ 0 <= 1
        OBVIOUS
      <4>. QED
        BY <2>3, <3>2, <4>1
    <3>. QED
      BY <1>1, <3>1, <3>2
  <2>8. PipelineOK'
    BY <1>1, <2>5, <2>6, <2>7 DEF PipelineOK
  <2>9. UnitInv'
    BY <2>3, <2>4, <2>5 DEF UnitInv
  <2>. QED
    BY <1>3, <2>8, <2>9, Alone DEF TypeOK, Parse
<1>4. CASE Emit
  <2>. DEFINE value == [line |-> unit, time |-> TimeOf(rules, clocks, Last(unit).src)]
  <2>1. value \in Value
    BY <1>4, UnitValue DEF Emit
  <2>2. values' = values \/ values' = Append(values, value)
    BY <1>4 DEF Emit
  <2>. HIDE DEF value
  <2>3. Append(values, value) \in Seq(Value)
    BY <2>1, AppendProperties DEF TypeOK, SessionOK
  <2>4. SessionOK'
    BY <1>4, <2>2, <2>3 DEF TypeOK, SessionOK, Emit
  <2>5. <<>> \in Seq(LocalChunk) /\ Len(<<>>) = 0
    BY EmptySeq
  <2>6. PipelineOK' /\ UnitInv'
    BY <1>1, <1>4, <2>5 DEF PipelineOK, UnitInv, Emit, Emitted
  <2>. QED
    BY <1>4, <2>4, <2>6, Alone DEF TypeOK, Emit
<1>. QED
  BY <1>2, <1>3, <1>4 DEF WorkerStep

LEMMA TypeStep == TypeOK /\ UnitInv /\ [Next]_vars => TypeOK' /\ UnitInv'
<1>. SUFFICES ASSUME TypeOK, UnitInv, [Next]_vars PROVE TypeOK' /\ UnitInv'
  OBVIOUS
<1>1. CASE WorkerStep
  BY <1>1, WorkerType
<1>2. CASE UNCHANGED vars
  <2>1. TypeOK'
    BY <1>2, Alone DEF TypeOK, vars
  <2>. QED
    BY <1>2, <2>1 DEF UnitInv, vars, pipelineVars
<1>3. CASE Next /\ ~WorkerStep
  <2>1. TypeOK'
    BY <1>3, ReceiveType, AgentType, SwitchType, GuiType DEF Next
  <2>2. unit' = unit /\ hand' = hand
    BY <1>3 DEF Next, Receive, ReceiveBatch, AlignSamples, DeliverSamples, Measure, UpdateClock,
       LeaveReplay, Connect, Opened, Closed, Reconfigure, SetTimeAlignmentRules, ListSources,
       LockToStop, SessionStep, Freeze, LockToStart, LockRefused, StartSucceeds, StartFails, StopSession, pipelineVars
  <2>. QED
    BY <2>1, <2>2 DEF UnitInv
<1>. QED
  BY <1>1, <1>2, <1>3

LEMMA AlwaysTyped == Spec => [](TypeOK /\ UnitInv)
BY InitType, TypeStep, PTL DEF Spec

\* Every variable keeps its type, for any sources and bounds.
THEOREM TypeCorrect == Spec => []TypeOK
BY AlwaysTyped, PTL

\* startSession() freezes the rules with what is known of the agent's clock: no source is given
\* another time because of it.
THEOREM FreezeIsKept == Spec => FreezeKeepsTimes
<1>1. TypeOK /\ [Next]_vars =>
        [gui = "listed" /\ gui' = "starting" =>
           \A s \in Sources : TimeOf(kept', NoClocks, s) = TimeOf(rules, clocks, s)]_vars
  <2>. SUFFICES ASSUME TypeOK, Next, gui = "listed", gui' = "starting", NEW s \in Sources
                PROVE  TimeOf(kept', NoClocks, s) = TimeOf(rules, clocks, s)
    OBVIOUS
  <2>1. Freeze
    BY DEF Next, Receive, ReceiveBatch, AlignSamples, DeliverSamples, Measure, UpdateClock,
       LeaveReplay, Connect, Opened, Closed, Reconfigure, SetTimeAlignmentRules, ListSources,
       LockToStop, SessionStep, LockToStart, LockRefused, StartSucceeds, StartFails, StopSession,
       WorkerStep, Take, Parse, Emit, guiVars
  <2>2. kept' = Alignment!SnapshotRules(rules, clocks)
    BY <2>1 DEF Freeze
  <2>. QED
    BY <2>2, FrozenTimes DEF TypeOK, AlignmentOK
<1>. QED
  BY <1>1, TypeCorrect, PTL DEF Spec, FreezeKeepsTimes


-----------------------------------------------------------------------------
(* The two logs of a session *)

\* The last chunks of the lines of a log of values.
Lasts(log) == [i \in DOMAIN log |-> Last(log[i].line)]
Recorded(log) == Among(Lasts(log), LocalChunk)

LEMMA LastsType ==
  ASSUME NEW log \in Seq(Value)
  PROVE  Lasts(log) \in Seq(Chunk) /\ Len(Lasts(log)) = Len(log)
<1>1. Len(log) \in Nat /\ DOMAIN log = 1..Len(log) /\ \A i \in 1..Len(log) : log[i] \in Value
  BY LenProperties, ElementOfSeq
<1>2. ASSUME NEW v \in Value PROVE Last(v.line) \in Chunk
  <2>1. v.line \in Seq(Chunk) /\ v.line # <<>>
    BY DEF Value, Line
  <2>2. Len(v.line) \in Nat \ {0}
    BY <2>1, EmptySeq, Zenon
  <2>3. Len(v.line) \in 1..Len(v.line)
    BY <2>2
  <2>. QED
    BY <2>1, <2>3, ElementOfSeq, Zenon DEF Last
<1>3. Lasts(log) \in [1..Len(log) -> Chunk]
  BY <1>1, <1>2 DEF Lasts
<1>. QED
  BY <1>1, <1>3

LEMMA LastsAppend ==
  ASSUME NEW log \in Seq(Value), NEW v \in Value
  PROVE  Lasts(Append(log, v)) = Append(Lasts(log), Last(v.line)) /\ Last(v.line) \in Chunk
<1>. DEFINE longer == Append(log, v)
            e == Last(v.line)
            a == Lasts(longer)
            b == Append(Lasts(log), e)
<1>1. /\ longer \in Seq(Value) /\ Len(log) \in Nat /\ Len(longer) = Len(log) + 1
      /\ longer[Len(log) + 1] = v /\ \A i \in 1..Len(log) : longer[i] = log[i]
  BY AppendProperties, LenProperties
<1>. HIDE DEF longer
<1>2. /\ a \in Seq(Chunk) /\ Len(a) = Len(log) + 1
      /\ Lasts(log) \in Seq(Chunk) /\ Len(Lasts(log)) = Len(log)
  BY <1>1, LastsType
<1>3. /\ \A i \in 1..(Len(log) + 1) : a[i] = Last(longer[i].line)
      /\ \A i \in 1..Len(log) : Lasts(log)[i] = Last(log[i].line)
  BY <1>1, LenProperties DEF Lasts
<1>. HIDE DEF a
<1>4. a[Len(log) + 1] = e
  <2>1. Len(log) + 1 \in 1..(Len(log) + 1)
    BY <1>1
  <2>. QED
    BY <1>1, <1>3, <2>1
<1>5. e \in Chunk
  <2>1. Len(log) + 1 \in 1..Len(a)
    BY <1>1, <1>2
  <2>. QED
    BY <1>2, <1>4, <2>1, ElementOfSeq
<1>. HIDE DEF e
<1>6. /\ b \in Seq(Chunk) /\ Len(b) = Len(log) + 1 /\ b[Len(log) + 1] = e
      /\ \A i \in 1..Len(log) : b[i] = Lasts(log)[i]
  BY <1>2, <1>5, AppendProperties
<1>. HIDE DEF b
<1>7. \A i \in 1..Len(a) : a[i] = b[i]
  <2>1. ASSUME NEW i \in 1..Len(a) PROVE a[i] = b[i]
    <3>1. CASE i = Len(log) + 1
      BY <1>4, <1>6, <3>1
    <3>2. CASE i \in 1..Len(log)
      <4>1. i \in 1..(Len(log) + 1)
        BY <1>1, <3>2
      <4>. QED
        BY <1>1, <1>3, <1>6, <3>2, <4>1
    <3>. QED
      BY <1>1, <1>2, <3>1, <3>2
  <2>. QED
    BY <2>1
<1>8. a = b
  BY <1>2, <1>6, <1>7, SeqEqual
<1>. QED
  BY <1>5, <1>8 DEF a, b, e, longer

LEMMA RecordedSteps ==
  /\ Recorded(<<>>) = <<>>
  /\ \A log \in Seq(Value) : Recorded(log) \in Seq(Chunk)
  /\ \A log \in Seq(Value), v \in Value :
       Recorded(Append(log, v)) = IF Last(v.line) \in LocalChunk
                                  THEN Append(Recorded(log), Last(v.line)) ELSE Recorded(log)
<1>1. Recorded(<<>>) = <<>>
  <2>1. Lasts(<<>>) = <<>>
    BY DEF Lasts
  <2>. QED
    BY <2>1, AmongNothing DEF Recorded
<1>2. ASSUME NEW log \in Seq(Value) PROVE Recorded(log) \in Seq(Chunk)
  BY LastsType, AmongType DEF Recorded
<1>3. ASSUME NEW log \in Seq(Value), NEW v \in Value
      PROVE  Recorded(Append(log, v)) = IF Last(v.line) \in LocalChunk
                                        THEN Append(Recorded(log), Last(v.line)) ELSE Recorded(log)
  <2>1. Lasts(log) \in Seq(Chunk) /\ Last(v.line) \in Chunk
    BY LastsType, LastsAppend
  <2>2. Among(Append(Lasts(log), Last(v.line)), LocalChunk)
          = IF Last(v.line) \in LocalChunk THEN Append(Among(Lasts(log), LocalChunk), Last(v.line))
            ELSE Among(Lasts(log), LocalChunk)
    BY <2>1, AmongAppend
  <2>3. Lasts(Append(log, v)) = Append(Lasts(log), Last(v.line))
    BY LastsAppend
  <2>. QED
    BY <2>2, <2>3, Zenon DEF Recorded
<1>. QED
  BY <1>1, <1>2, <1>3

LEMMA PrefixOfConcat ==
  ASSUME NEW T, NEW a \in Seq(T), NEW b \in Seq(T)
  PROVE  IsPrefix(a, a \o b)
<1>. DEFINE c == a \o b
<1>1. /\ c \in Seq(T) /\ Len(a) \in Nat /\ Len(b) \in Nat /\ Len(c) = Len(a) + Len(b)
      /\ \A i \in 1..Len(a) : c[i] = a[i]
  BY ConcatProperties, LenProperties
<1>. HIDE DEF c
<1>2. Len(a) <= Len(c)
  BY <1>1
<1>3. SubSeq(c, 1, Len(a)) = SubSeq(a, 1, Len(a))
  <2>1. SubSeq(c, 1, Len(a)) = [i \in 1..Len(a) |-> c[i]]
    BY <1>1, <1>2
  <2>2. SubSeq(a, 1, Len(a)) = [i \in 1..Len(a) |-> a[i]]
    BY <1>1
  <2>. QED
    BY <1>1, <2>1, <2>2
<1>. QED
  BY <1>2, <1>3 DEF IsPrefix, c

\* The invariant with its parts named.
UnderWay == Among(hand, LocalEnd) \o Among(queue, LocalEnd)

LEMMA Logs ==
  /\ LogsInv <=> /\ ~recording => Recorded(values) = Among(raw, LocalEnd)
                 /\ recording => Recorded(values) \o UnderWay = Among(raw, LocalEnd)
  /\ LogsInv' <=> /\ ~recording' => Recorded(values') = Among(raw', LocalEnd)
                  /\ recording' => Recorded(values') \o UnderWay' = Among(raw', LocalEnd)
BY DEF LogsInv, Recorded, RecordedEnds, ReceivedEnds, LastChunks, Lasts, UnderWay

LEMMA LogTypes ==
  ASSUME TypeOK
  PROVE  /\ Recorded(values) \in Seq(Chunk) /\ Among(raw, LocalEnd) \in Seq(Chunk)
         /\ Among(hand, LocalEnd) \in Seq(Chunk) /\ Among(queue, LocalEnd) \in Seq(Chunk)
         /\ raw \in Seq(Chunk) /\ hand \in Seq(Chunk) /\ queue \in Seq(Chunk)
<1>1. raw \in Seq(Chunk) /\ hand \in Seq(Chunk) /\ queue \in Seq(Chunk) /\ values \in Seq(Value)
  BY ChunkTypes, SeqMonotonic DEF TypeOK, SessionOK, PipelineOK
<1>. QED
  BY <1>1, AmongType, RecordedSteps

LEMMA InitLogs == Init => LogsInv
<1>. SUFFICES ASSUME Init PROVE LogsInv
  OBVIOUS
<1>1. Recorded(values) = <<>> /\ Among(raw, LocalEnd) = <<>> /\ ~recording
  BY RecordedSteps, AmongNothing DEF Init
<1>. QED
  BY <1>1, Logs

LEMMA AppendChunk == \A a, b \in Seq(Chunk), c \in Chunk : Append(a \o b, c) = a \o Append(b, c)
<1>. SUFFICES ASSUME NEW a \in Seq(Chunk), NEW b \in Seq(Chunk), NEW c \in Chunk
              PROVE  Append(a \o b, c) = a \o Append(b, c)
  OBVIOUS
<1>1. <<c>> \in Seq(Chunk) /\ a \o b \in Seq(Chunk)
  OBVIOUS
<1>2. Append(b, c) = b \o <<c>> /\ Append(a \o b, c) = (a \o b) \o <<c>>
  BY <1>1, AppendIsConcat
<1>3. (a \o b) \o <<c>> = a \o (b \o <<c>>)
  BY <1>1, ConcatAssociative
<1>. QED
  BY <1>2, <1>3

LEMMA ReceiveLogs ==
  ASSUME TypeOK, LogsInv, NEW s \in Local, NEW ends \in BOOLEAN, Receive(s, ends)
  PROVE  LogsInv'
<1>. DEFINE chunk == [src |-> s, id |-> received', ends |-> ends]
<1>1. chunk \in Chunk
  <2>1. received' \in 1..MaxChunks
    BY BoundsAssumption DEF TypeOK, SourcesOK, Receive
  <2>. QED
    BY <2>1 DEF Chunk, Sources
<1>2. /\ raw' = IF recording /\ s \in declared THEN Append(raw, chunk) ELSE raw
      /\ queue' = IF Routed(s) THEN Append(queue, chunk) ELSE queue
      /\ hand' = hand /\ values' = values /\ recording' = recording
  BY DEF Receive
<1>. HIDE DEF chunk
<1>3. CASE ~recording
  BY <1>2, <1>3, Logs
<1>4. CASE recording /\ s \notin declared
  BY <1>2, <1>4, Logs DEF Routed, UnderWay
<1>5. CASE recording /\ s \in declared
  <2>. DEFINE R == Recorded(values)
              H == Among(hand, LocalEnd)
              Q == Among(queue, LocalEnd)
  <2>1. raw' = Append(raw, chunk) /\ queue' = Append(queue, chunk)
    BY <1>2, <1>5 DEF Routed
  <2>2. R \in Seq(Chunk) /\ H \in Seq(Chunk) /\ Q \in Seq(Chunk) /\ raw \in Seq(Chunk) /\ queue \in Seq(Chunk)
    BY LogTypes
  <2>3. /\ Among(raw', LocalEnd) = IF chunk \in LocalEnd THEN Append(Among(raw, LocalEnd), chunk)
                                   ELSE Among(raw, LocalEnd)
        /\ Among(queue', LocalEnd) = IF chunk \in LocalEnd THEN Append(Q, chunk) ELSE Q
    BY <1>1, <2>1, <2>2, AmongAppend
  <2>4. R \o (H \o Q) = Among(raw, LocalEnd)
    BY <1>5, Logs DEF UnderWay
  <2>. HIDE DEF R, H, Q
  <2>5. Append(R \o (H \o Q), chunk) = R \o (H \o Append(Q, chunk))
    <3>1. H \o Q \in Seq(Chunk)
      BY <2>2, ConcatProperties
    <3>2. /\ Append(R \o (H \o Q), chunk) = R \o Append(H \o Q, chunk)
          /\ Append(H \o Q, chunk) = H \o Append(Q, chunk)
      BY <1>1, <2>2, <3>1, AppendChunk, Zenon
    <3>. QED
      BY <3>2
  <2>6. R \o (H \o Among(queue', LocalEnd)) = Among(raw', LocalEnd)
    BY <2>3, <2>4, <2>5
  <2>7. Recorded(values)' = R /\ UnderWay' = H \o Among(queue', LocalEnd)
    BY <1>2 DEF R, H, UnderWay
  <2>. QED
    BY <1>2, <1>5, <2>6, <2>7, Logs
<1>. QED
  BY <1>3, <1>4, <1>5

\* What the agent delivers is in neither of the lists: it has no part in the processing.
LEMMA AgentLogs ==
  ASSUME TypeOK, LogsInv, ReceiveBatch \/ DeliverSamples
  PROVE  LogsInv'
<1>1. /\ hand' = hand /\ queue' = queue /\ recording' = recording
      /\ UnderWay' = UnderWay
  BY DEF ReceiveBatch, DeliverSamples, pipelineVars, UnderWay
<1>2. raw \in Seq(Chunk) /\ values \in Seq(Value)
  BY DEF TypeOK, SessionOK
<1>3. CASE ReceiveBatch
  <2>. DEFINE chunk == [src |-> Agent, id |-> received', ends |-> TRUE]
  <2>1. chunk \in Chunk /\ chunk \notin LocalEnd
    <3>1. received' \in 1..MaxChunks
      BY <1>3, BoundsAssumption DEF TypeOK, SourcesOK, ReceiveBatch
    <3>. QED
      BY <3>1, AgentAssumption DEF Chunk, Sources, LocalEnd
  <2>2. batch' = <<chunk>> /\ (raw' = raw \/ raw' = raw \o batch') /\ values' = values
    BY <1>3 DEF ReceiveBatch
  <2>. HIDE DEF chunk
  <2>3. raw' = raw \/ raw' = Append(raw, chunk)
    BY <1>2, <2>1, <2>2, AppendIsConcat
  <2>4. Among(raw', LocalEnd) = Among(raw, LocalEnd)
    <3>1. Among(Append(raw, chunk), LocalEnd) = Among(raw, LocalEnd)
      BY <1>2, <2>1, AmongAppend
    <3>. QED
      BY <2>3, <3>1
  <2>. QED
    BY <1>1, <2>2, <2>4, Logs
<1>4. CASE DeliverSamples
  <2>. DEFINE value == [line |-> batch, time |-> aligned]
  <2>1. value \in Value /\ value.line = batch
    BY <1>4, ChunkTypes DEF TypeOK, SourcesOK, DeliverSamples, Value
  <2>2. batch \in Seq(Batch) /\ batch # <<>>
    BY <1>4 DEF TypeOK, SourcesOK, DeliverSamples
  <2>3. Last(batch) \notin LocalChunk
    <3>1. Len(batch) \in Nat \ {0}
      BY <2>2, EmptySeq, Zenon
    <3>2. Len(batch) \in 1..Len(batch)
      BY <3>1
    <3>3. Last(batch) \in Batch
      BY <2>2, <3>2, ElementOfSeq, Zenon DEF Last
    <3>. QED
      BY <3>3, AgentAssumption DEF Batch, LocalChunk
  <2>4. (values' = values \/ values' = Append(values, value)) /\ raw' = raw
    BY <1>4 DEF DeliverSamples
  <2>. HIDE DEF value
  <2>5. Recorded(values') = Recorded(values)
    BY <1>2, <2>1, <2>3, <2>4, RecordedSteps
  <2>. QED
    BY <1>1, <2>4, <2>5, Logs
<1>. QED
  BY <1>3, <1>4

LEMMA GuiLogs ==
  ASSUME TypeOK, LogsInv,
         (\E s \in Local : Reconfigure(s)) \/ StartSucceeds \/ StartFails \/ StopSession
  PROVE  LogsInv'
<1>1. ASSUME NEW s \in Local, Reconfigure(s) PROVE LogsInv'
  BY <1>1, Logs DEF Reconfigure, Unfrozen, sessionVars
<1>2. CASE StartSucceeds
  <2>1. /\ recording' /\ raw' = <<>> /\ values' = <<>> /\ hand' = <<>> /\ queue' = <<>>
    BY <1>2 DEF StartSucceeds, Flushed, pipelineVars
  <2>2. Recorded(values)' = <<>> /\ Among(raw, LocalEnd)' = <<>>
    BY <2>1, RecordedSteps, AmongNothing
  <2>3. UnderWay' = <<>> \o <<>>
    BY <2>1, AmongNothing DEF UnderWay
  <2>4. <<>> \o (<<>> \o <<>>) = <<>>
    OBVIOUS
  <2>. QED
    BY <2>1, <2>2, <2>3, <2>4, Logs
<1>3. CASE StartFails \/ StopSession
  <2>1. ~recording' /\ raw' = raw /\ values' = values /\ hand = <<>> /\ queue = <<>>
    BY <1>3 DEF StartFails, StopSession, Flushed
  <2>2. UnderWay = <<>> \o <<>> /\ <<>> \o <<>> = <<>>
    BY <2>1, AmongNothing DEF UnderWay
  <2>3. Recorded(values) \o <<>> = Recorded(values)
    BY LogTypes, ConcatEmptySeq
  <2>4. Recorded(values) = Among(raw, LocalEnd)
    BY <2>2, <2>3, Logs DEF TypeOK, SessionOK
  <2>. QED
    BY <2>1, <2>4, Logs
<1>. QED
  BY <1>1, <1>2, <1>3

LEMMA WorkerLogs ==
  ASSUME TypeOK, UnitInv, LogsInv, WorkerStep
  PROVE  LogsInv'
<1>. DEFINE R == Recorded(values)
            H == Among(hand, LocalEnd)
            Q == Among(queue, LocalEnd)
<1>1. raw' = raw /\ recording' = recording
  BY DEF WorkerStep, Take, Parse, Emit, sessionVars
<1>2. R \in Seq(Chunk) /\ H \in Seq(Chunk) /\ Q \in Seq(Chunk) /\ queue \in Seq(Chunk) /\ hand \in Seq(Chunk)
  BY LogTypes
<1>3. CASE ~recording
  <2>1. CASE Emit
    BY <1>1, <1>3, <2>1, Logs DEF Emit
  <2>2. CASE Take \/ Parse
    BY <1>1, <1>3, <2>2, Logs DEF Take, Parse, sessionVars
  <2>. QED
    BY <2>1, <2>2 DEF WorkerStep
<1>4. CASE recording
  <2>1. R \o (H \o Q) = Among(raw, LocalEnd)
    BY <1>4, Logs DEF UnderWay
  <2>. SUFFICES Recorded(values') \o (Among(hand', LocalEnd) \o Among(queue', LocalEnd)) = R \o (H \o Q)
    BY <1>1, <1>4, <2>1, Logs DEF UnderWay
  <2>2. CASE Take
    <3>1. hand = <<>> /\ queue # <<>> /\ hand' = <<Head(queue)>> /\ queue' = Tail(queue) /\ values' = values
      BY <2>2 DEF Take, sessionVars
    <3>2. Q = Among(hand', LocalEnd) \o Among(queue', LocalEnd)
      BY <1>2, <3>1, AmongHead
    <3>3. H = <<>>
      BY <3>1, AmongNothing
    <3>. HIDE DEF H, Q
    <3>4. H \o Q = Q
      BY <1>2, <3>3, ConcatEmptySeq
    <3>. QED
      BY <3>1, <3>2, <3>4
  <2>3. CASE Parse
    <3>1. /\ hand # <<>> /\ queue' = queue /\ values' = values
          /\ \/ hand' = hand
             \/ ~hand[1].ends /\ hand' = <<>>
      BY <2>3 DEF Parse, sessionVars
    <3>2. CASE hand' = hand
      BY <3>1, <3>2
    <3>3. CASE ~hand[1].ends /\ hand' = <<>>
      <4>1. hand = <<hand[1]>>
        BY <3>1, OneInHand DEF TypeOK
      <4>2. hand[1] \notin LocalEnd
        BY <3>3 DEF LocalEnd
      <4>3. H = <<>>
        BY <4>1, <4>2, AmongOne
      <4>4. Among(hand', LocalEnd) = <<>>
        BY <3>3, AmongNothing
      <4>. QED
        BY <3>1, <4>3, <4>4
    <3>. QED
      BY <3>1, <3>2, <3>3
  <2>4. CASE Emit
    <3>. DEFINE e == Last(unit)
                value == [line |-> unit, time |-> TimeOf(rules, clocks, e.src)]
    <3>1. unit # <<>> /\ values' = Append(values, value) /\ hand' = <<>> /\ queue' = queue
      BY <1>4, <2>4 DEF Emit, Emitted
    <3>2. e \in LocalEnd /\ hand = <<e>> /\ value \in Value /\ value.line = unit
      BY <3>1, UnitValue
    <3>. HIDE DEF value
    <3>3. e \in LocalChunk /\ e \in Chunk /\ values \in Seq(Value)
      BY <3>2, ChunkTypes DEF TypeOK, SessionOK
    <3>4. Recorded(values') = Append(R, e)
      BY <3>1, <3>2, <3>3, RecordedSteps
    <3>. HIDE DEF e
    <3>5. H = <<e>> /\ Among(hand', LocalEnd) = <<>>
      BY <3>1, <3>2, AmongOne, AmongNothing
    <3>. HIDE DEF R, H, Q
    <3>6. Append(R, e) = R \o <<e>> /\ <<e>> \in Seq(Chunk)
      BY <1>2, <3>3, AppendIsConcat
    <3>7. (R \o <<e>>) \o Q = R \o (<<e>> \o Q)
      BY <1>2, <3>6, ConcatAssociative
    <3>8. <<>> \o Q = Q /\ queue' = queue
      BY <1>2, <3>1, ConcatEmptySeq
    <3>9. Among(queue', LocalEnd) = Q
      BY <3>8 DEF Q
    <3>. QED
      BY <3>4, <3>5, <3>6, <3>7, <3>8, <3>9
  <2>. QED
    BY <2>2, <2>3, <2>4 DEF WorkerStep
<1>. QED
  BY <1>3, <1>4 DEF TypeOK, SessionOK

LEMMA LogsStep == TypeOK /\ UnitInv /\ LogsInv /\ [Next]_vars => LogsInv'
<1>. SUFFICES ASSUME TypeOK, UnitInv, LogsInv, [Next]_vars PROVE LogsInv'
  OBVIOUS
<1>1. ASSUME UNCHANGED <<sessionVars, pipelineVars>> PROVE LogsInv'
  BY <1>1, Logs DEF sessionVars, pipelineVars, UnderWay
<1>2. CASE AlignSamples \/ Measure \/ UpdateClock \/ ListSources \/ LockToStop \/ Freeze
        \/ LockToStart \/ LockRefused
  BY <1>1, <1>2
  DEF AlignSamples, Measure, UpdateClock, ListSources, LockToStop, Freeze, LockToStart, LockRefused
<1>3. CASE \/ LeaveReplay \/ \E s \in Sources : Connect(s) \/ Opened(s) \/ Closed(s)
           \/ \E table \in {ByClock, NoRules} : SetTimeAlignmentRules(table)
  BY <1>1, <1>3 DEF LeaveReplay, Connect, Opened, Closed, SetTimeAlignmentRules
<1>4. CASE \E s \in Local, ends \in BOOLEAN : Receive(s, ends)
  BY <1>4, ReceiveLogs
<1>5. CASE ReceiveBatch \/ DeliverSamples
  BY <1>5, AgentLogs
<1>6. CASE (\E s \in Local : Reconfigure(s)) \/ StartSucceeds \/ StartFails \/ StopSession
  BY <1>6, GuiLogs
<1>7. CASE WorkerStep
  BY <1>7, WorkerLogs
<1>8. CASE UNCHANGED vars
  BY <1>1, <1>8 DEF vars
<1>. QED
  BY <1>2, <1>3, <1>4, <1>5, <1>6, <1>7, <1>8 DEF Next, SessionStep

LEMMA AlwaysIInv == Spec => []IInv
<1>1. Init => IInv
  BY InitType, InitLogs DEF IInv
<1>2. IInv /\ [Next]_vars => IInv'
  BY TypeStep, LogsStep DEF IInv
<1>. QED
  BY <1>1, <1>2, PTL DEF Spec

\* The barriers of startSession() and stopSession() cut the raw log and the values at the same
\* place, whatever the sources and the worker are at meanwhile, and the values of a recording
\* never run ahead of its raw log.
THEOREM BarriersCutBothLogs == Spec => []ValuesMatchRaw
<1>1. IInv => ValuesMatchRaw
  <2>. SUFFICES ASSUME IInv PROVE ValuesMatchRaw
    OBVIOUS
  <2>1. RecordedEnds = Recorded(values)
    BY DEF RecordedEnds, Recorded, LastChunks, Lasts
  <2>2. /\ ~recording => RecordedEnds = ReceivedEnds
        /\ recording => RecordedEnds \o UnderWay = ReceivedEnds
    BY DEF IInv, LogsInv, UnderWay
  <2>3. RecordedEnds \in Seq(Chunk) /\ UnderWay \in Seq(Chunk)
    BY <2>1, LogTypes, ConcatProperties DEF IInv, UnderWay
  <2>4. IsPrefix(RecordedEnds, RecordedEnds \o UnderWay)
    BY <2>3, PrefixOfConcat
  <2>. QED
    BY <2>2, <2>4 DEF ValuesMatchRaw
<1>. QED
  BY <1>1, AlwaysIInv, PTL
=============================================================================
