---------------------------- MODULE LlmTasksProofs ----------------------------
(***************************************************************************)
(* Proofs about LlmPlanner and LlmTasks, for any robots, sentences, answers *)
(* of the language model, threads and bounds.                               *)
(***************************************************************************)
EXTENDS LlmTasks, SequenceTheorems, FiniteSetTheorems, WellFoundedInduction, TLAPS

-----------------------------------------------------------------------------
(* Numbers and sequences.                                                   *)

\* A set of natural numbers that is not empty has a least element.
LEMMA Least ==
    ASSUME NEW S \in SUBSET Nat, S # {}
    PROVE  \E m \in S : \A n \in S : m <= n
<1> DEFINE R == {p \in Nat \X Nat : p[1] < p[2]}
<1>1. IsWellFoundedOn(R, Nat)
  BY NatLessThanWellFounded DEF OpToRel
<1>2. \A m, n \in Nat : n < m => <<n, m>> \in R
  OBVIOUS
<1> HIDE DEF R
<1>3. PICK m \in S : \A n \in S : <<n, m>> \notin R
  <2>1. \E x \in S : \A y \in S : ~(<<y, x>> \in R)
    BY <1>1, WFMin
  <2> QED
    BY <2>1
<1>4. \A n \in S : ~(n < m)
  BY <1>2, <1>3
<1> QED
  BY <1>4

\* So a set that contains 0 and, with each number, the next one contains all.
LEMMA Induction ==
    ASSUME NEW S, NEW N \in Nat, 0 \in S, \A n \in 0..(N - 1) : n \in S => n + 1 \in S
    PROVE  \A n \in 0..N : n \in S
<1> DEFINE Bad == {n \in 0..N : n \notin S}
<1> SUFFICES ASSUME Bad # {}
             PROVE  FALSE
  OBVIOUS
<1>1. PICK m \in Bad : \A n \in Bad : m <= n
  <2>1. Bad \in SUBSET Nat
    OBVIOUS
  <2> HIDE DEF Bad
  <2> QED
    BY <2>1, Least
<1>2. m \in 0..N /\ m # 0 /\ m \notin S
  OBVIOUS
<1>3. m - 1 \in 0..(N - 1) /\ m - 1 \in 0..N /\ ~(m <= m - 1)
  BY <1>2
<1>4. m - 1 \in S
  BY <1>1, <1>3
<1> QED
  BY <1>2, <1>3, <1>4

\* FirstIn finds the first place, if there is one.
LEMMA FirstInFinds ==
    ASSUME NEW s, NEW N \in Nat, DOMAIN s = 1..N, NEW S
    PROVE  /\ FirstIn(s, S) \in 0..N
           /\ FirstIn(s, S) = 0 <=> \A i \in 1..N : s[i] \notin S
           /\ FirstIn(s, S) # 0 => /\ s[FirstIn(s, S)] \in S
                                  /\ \A i \in 1..N : s[i] \in S => FirstIn(s, S) <= i
<1> DEFINE places == {i \in DOMAIN s : s[i] \in S}
<1>1. CASE places = {}
  BY <1>1 DEF FirstIn
<1>2. CASE places # {}
  <2>0. places \in SUBSET Nat
    OBVIOUS
  <2>1. \E i \in places : \A j \in places : i <= j
    <3> HIDE DEF places
    <3> QED
      BY <1>2, <2>0, Least
  <2>2. /\ FirstIn(s, S) \in places
        /\ \A j \in places : FirstIn(s, S) <= j
    BY <1>2, <2>1 DEF FirstIn
  <2> QED
    BY <2>2
<1> QED
  BY <1>1, <1>2

\* Sequences put one behind the other: f[n] is the first n of them.
Joined(f, parts, N) == f = [n \in 0..N |-> IF n = 0 THEN <<>> ELSE f[n - 1] \o parts[n]]

LEMMA JoinedExists ==
    ASSUME NEW parts, NEW N \in Nat
    PROVE  \E f : Joined(f, parts, N)
<1> DEFINE S == {m \in 0..N : \E f : Joined(f, parts, m)}
<1>1. 0 \in S
  <2> DEFINE f == [n \in 0..0 |-> <<>>]
  <2>1. f = [n \in 0..0 |-> IF n = 0 THEN <<>> ELSE f[n - 1] \o parts[n]]
    OBVIOUS
  <2>2. Joined(f, parts, 0) /\ 0 \in 0..N
    BY <2>1 DEF Joined
  <2> HIDE DEF f, Joined
  <2> QED
    BY <2>2
<1>2. ASSUME NEW m \in 0..(N - 1), m \in S
      PROVE  m + 1 \in S
  <2>1. PICK f : f = [n \in 0..m |-> IF n = 0 THEN <<>> ELSE f[n - 1] \o parts[n]]
    BY <1>2 DEF Joined
  <2> DEFINE g == [n \in 0..(m + 1) |-> IF n = m + 1 THEN f[m] \o parts[n] ELSE f[n]]
  <2>2. \A n \in 0..(m + 1) : g[n] = IF n = 0 THEN <<>> ELSE g[n - 1] \o parts[n]
    <3> SUFFICES ASSUME NEW n \in 0..(m + 1)
                 PROVE  g[n] = IF n = 0 THEN <<>> ELSE g[n - 1] \o parts[n]
      OBVIOUS
    <3>1. CASE n = 0
      BY <2>1, <3>1
    <3>2. CASE n = m + 1
      <4>1. n # 0 /\ n - 1 = m /\ m \in 0..(m + 1) /\ m # m + 1
        BY <3>2
      <4>2. g[m] = f[m] /\ g[n] = f[m] \o parts[n]
        BY <3>2, <4>1
      <4> QED
        BY <4>1, <4>2
    <3>3. CASE n # 0 /\ n # m + 1
      <4>1. n \in 0..m /\ n - 1 \in 0..(m + 1) /\ n - 1 # m + 1
        BY <3>3
      <4>2. g[n] = f[n] /\ g[n - 1] = f[n - 1]
        BY <3>3, <4>1
      <4> QED
        BY <2>1, <3>3, <4>1, <4>2
    <3> QED
      BY <3>1, <3>2, <3>3
  <2>3. Joined(g, parts, m + 1)
    BY <2>2 DEF Joined
  <2>4. m + 1 \in 0..N
    OBVIOUS
  <2> QED
    BY <2>3, <2>4
<1>3. N \in S
  <2>1. N \in 0..N
    OBVIOUS
  <2> HIDE DEF S
  <2> QED
    BY <1>1, <1>2, <2>1, Induction
<1> QED
  BY <1>3

LEMMA JoinedIsSequence ==
    ASSUME NEW U, NEW N \in Nat, NEW parts \in [1..N -> Seq(U)], NEW f, Joined(f, parts, N),
           NEW n \in 0..N
    PROVE  /\ f[n] \in Seq(U)
           /\ f[n] = <<>> <=> \A i \in 1..n : parts[i] = <<>>
<1> DEFINE P(m) == f[m] \in Seq(U) /\ (f[m] = <<>> <=> \A i \in 1..m : parts[i] = <<>>)
           S == {m \in 0..N : P(m)}
<1>1. 0 \in S
  <2>1. f[0] = <<>> /\ 0 \in 0..N
    BY DEF Joined
  <2>2. <<>> \in Seq(U) /\ \A i \in 1..0 : parts[i] = <<>>
    OBVIOUS
  <2>3. P(0)
    BY <2>1, <2>2
  <2> HIDE DEF P
  <2> QED
    BY <2>1, <2>3
<1>2. ASSUME NEW m \in 0..(N - 1), m \in S
      PROVE  m + 1 \in S
  <2>1. m + 1 \in 1..N /\ m + 1 \in 0..N /\ m + 1 # 0 /\ (m + 1) - 1 = m
    OBVIOUS
  <2>2. f[m + 1] = f[m] \o parts[m + 1]
    <3> DEFINE k == m + 1
    <3>1. k \in 0..N /\ k # 0 /\ k - 1 = m
      BY <2>1
    <3> HIDE DEF k
    <3>2. f[k] = f[k - 1] \o parts[k]
      BY <3>1 DEF Joined
    <3> QED
      BY <3>1, <3>2 DEF k
  <2>3. f[m] \in Seq(U) /\ parts[m + 1] \in Seq(U)
    BY <1>2, <2>1
  <2>4. /\ f[m + 1] \in Seq(U)
        /\ f[m + 1] = <<>> <=> f[m] = <<>> /\ parts[m + 1] = <<>>
    BY <2>2, <2>3, ConcatProperties, ConcatEqualIffEmpty
  <2>5. (\A i \in 1..(m + 1) : parts[i] = <<>>)
            <=> (\A i \in 1..m : parts[i] = <<>>) /\ parts[m + 1] = <<>>
    <3>1. \A i : i \in 1..(m + 1) <=> i \in 1..m \/ i = m + 1
      OBVIOUS
    <3> QED
      BY <3>1
  <2>6. P(m)
    BY <1>2
  <2>7. P(m + 1)
    BY <2>4, <2>5, <2>6
  <2> QED
    BY <2>1, <2>7
<1>3. n \in S
  <2> HIDE DEF S
  <2> QED
    BY <1>1, <1>2, Induction
<1> QED
  BY <1>3

\* Picked takes the elements at the places, and nothing else.
LEMMA PickedElements ==
    ASSUME NEW s, Len(s) \in Nat, NEW places, NEW U,
           \A i \in 1..Len(s) : i \in places => s[i] \in U
    PROVE  /\ Picked(s, places) \in Seq(U)
           /\ Picked(s, places) = <<>> <=> \A i \in 1..Len(s) : i \notin places
<1> DEFINE N == Len(s)
           parts == [n \in 1..N |-> IF n \in places THEN <<s[n]>> ELSE <<>>]
           Is(f) == f = [n \in 0..N |-> IF n = 0 THEN <<>>
                                        ELSE f[n - 1] \o IF n \in places THEN <<s[n]>> ELSE <<>>]
<1>1. \A f : Is(f) <=> Joined(f, parts, N)
  <2>1. \A n \in 0..N : n # 0 => parts[n] = IF n \in places THEN <<s[n]>> ELSE <<>>
    OBVIOUS
  <2> QED
    BY <2>1 DEF Joined
<1>2. PICK f : Is(f) /\ Picked(s, places) = f[N]
  <2>1. \E f : Is(f)
    BY <1>1, JoinedExists
  <2> QED
    BY <2>1 DEF Picked
<1>3. parts \in [1..N -> Seq(U)]
  <2>1. \A i \in 1..N : parts[i] \in Seq(U)
    OBVIOUS
  <2> QED
    BY <2>1
<1>4. \A i \in 1..N : parts[i] = <<>> <=> i \notin places
  <2>1. \A e : <<e>> # <<>>
    OBVIOUS
  <2> QED
    BY <2>1
<1>5. N \in 0..N /\ N \in Nat
  OBVIOUS
<1> HIDE DEF N, parts, Is
<1>6. Joined(f, parts, N)
  BY <1>1, <1>2
<1>7. /\ f[N] \in Seq(U)
      /\ f[N] = <<>> <=> \A i \in 1..N : parts[i] = <<>>
  BY ONLY <1>3, <1>5, <1>6, JoinedIsSequence
<1> QED
  BY <1>2, <1>4, <1>7 DEF N

\* A sequence of sequences laid flat.
LEMMA FlatIsSequence ==
    ASSUME NEW U, NEW seqs \in Seq(Seq(U))
    PROVE  FlattenSeq(seqs) \in Seq(U)
<1> DEFINE N == Len(seqs)
           Is(f) == f = [i \in 1..N |-> IF i = 1 THEN seqs[i] ELSE f[i - 1] \o seqs[i]]
<1>0. N \in Nat /\ \A i \in 1..N : seqs[i] \in Seq(U)
  OBVIOUS
<1>1. CASE N = 0
  <2>1. FlattenSeq(seqs) = seqs
    BY <1>1 DEF FlattenSeq
  <2>2. seqs = <<>>
    BY <1>1, EmptySeq
  <2> QED
    BY <2>1, <2>2, EmptySeq
<1>2. CASE N # 0
  <2>1. \E f : Is(f)
    <3>1. PICK g : Joined(g, seqs, N)
      BY <1>0, JoinedExists
    <3> DEFINE f == [i \in 1..N |-> g[i]]
    <3>2. \A i \in 1..N : f[i] = IF i = 1 THEN seqs[i] ELSE f[i - 1] \o seqs[i]
      <4> SUFFICES ASSUME NEW i \in 1..N
                   PROVE  f[i] = IF i = 1 THEN seqs[i] ELSE f[i - 1] \o seqs[i]
        OBVIOUS
      <4>0. i \in 0..N /\ i # 0
        BY <1>0
      <4>1. f[i] = g[i - 1] \o seqs[i]
        BY <3>1, <4>0 DEF Joined
      <4>2. CASE i = 1
        <5>1. g[i - 1] = <<>>
          BY <3>1, <4>2, <1>0 DEF Joined
        <5>2. seqs[i] \in Seq(U)
          BY <1>0
        <5>3. <<>> \o seqs[i] = seqs[i]
          BY <5>2, ConcatEmptySeq
        <5> QED
          BY <4>1, <4>2, <5>1, <5>3
      <4>3. CASE i # 1
        <5>1. i - 1 \in 1..N
          BY <4>3, <1>0
        <5> QED
          BY <4>1, <4>3, <5>1
      <4> QED
        BY <4>2, <4>3
    <3>3. Is(f)
      BY <3>2
    <3> QED
      BY <3>3
  <2>2. PICK f : Is(f) /\ FlattenSeq(seqs) = f[N]
    <3>1. FlattenSeq(seqs) = (CHOOSE f : Is(f))[N]
      BY <1>2 DEF FlattenSeq
    <3> QED
      BY <2>1, <3>1
  <2> DEFINE S == {m \in 0..N : m # 0 => f[m] \in Seq(U)}
  <2>3. 0 \in S
    BY <1>0
  <2>4. ASSUME NEW m \in 0..(N - 1), m \in S
        PROVE  m + 1 \in S
    <3>1. m + 1 \in 1..N /\ m + 1 \in 0..N /\ (m + 1) - 1 = m /\ (m + 1 = 1 <=> m = 0)
      BY <1>0
    <3> DEFINE k == m + 1
    <3>2. f[k] = IF k = 1 THEN seqs[k] ELSE f[k - 1] \o seqs[k]
      <4>1. k \in 1..N
        BY <3>1
      <4> HIDE DEF k
      <4> QED
        BY <2>2, <4>1
    <3>3. seqs[k] \in Seq(U)
      BY <1>0, <3>1
    <3>4. f[k] \in Seq(U)
      <4>1. CASE m = 0
        BY <3>1, <3>2, <3>3, <4>1
      <4>2. CASE m # 0
        <5>1. f[m] \in Seq(U)
          BY <2>4, <4>2
        <5>2. f[k] = f[m] \o seqs[k]
          BY <3>1, <3>2, <4>2
        <5> QED
          BY <3>3, <5>1, <5>2, ConcatProperties
      <4> QED
        BY <4>1, <4>2
    <3> QED
      BY <3>1, <3>4
  <2>5. N \in S
    <3>1. N \in 0..N
      BY <1>0
    <3> HIDE DEF S, N
    <3> QED
      BY <1>0, <2>3, <2>4, <3>1, Induction
  <2> QED
    BY <1>2, <2>2, <2>5
<1> QED
  BY <1>1, <1>2

-----------------------------------------------------------------------------
(* What the planner makes of a request.                                     *)

LEMMA FunctionIsSequence ==
    ASSUME NEW U, NEW n \in Nat, NEW f \in [1..n -> U]
    PROVE  f \in Seq(U) /\ Len(f) = n /\ DOMAIN f = 1..n
  OBVIOUS

LEMMA HeadOfSequence ==
    ASSUME NEW U, NEW s \in Seq(U), s # <<>>
    PROVE  1 \in 1..Len(s) /\ s[1] \in U
  BY EmptySeq, ElementOfSeq

LEMMA OrDefaultTypes ==
    ASSUME NEW s \in Seq(Codes)
    PROVE  OrDefault(s) \in Seq(Codes) /\ OrDefault(s) # <<>> /\ OrDefault(s)[1] \in Codes
<1>1. <<DefaultRobot>> \in Seq(Codes) /\ <<DefaultRobot>> # <<>>
  <2>1. DefaultRobot \in Codes
    BY PlannerAssumption
  <2> QED
    BY <2>1
<1>2. OrDefault(s) \in Seq(Codes) /\ OrDefault(s) # <<>>
  BY <1>1 DEF OrDefault
<1> QED
  BY <1>2, HeadOfSequence

\* The order of first mention is kept, and so is what was mentioned first.
LEMMA NormalCodesTypes ==
    ASSUME NEW s \in Seq(Codes)
    PROVE  NormalCodes(s) \in Seq(Codes) /\ (NormalCodes(s) = <<>> <=> s = <<>>)
<1> DEFINE c == [i \in DOMAIN s |-> Canonical[s[i]]]
           places == {i \in DOMAIN c : \A j \in 1..(i - 1) : c[j] # c[i]}
<1>1. Len(s) \in Nat /\ DOMAIN s = 1..Len(s) /\ \A i \in 1..Len(s) : s[i] \in Codes
  BY LenProperties
<1>2. DOMAIN c = 1..Len(s) /\ Len(c) = Len(s) /\ \A i \in 1..Len(s) : c[i] \in Codes
  <2>1. DOMAIN c = 1..Len(s) /\ \A i \in 1..Len(s) : c[i] \in Codes
    BY <1>1, PlannerAssumption
  <2>2. c \in Seq(Codes)
    BY <1>1, <2>1
  <2> HIDE DEF c
  <2> QED
    BY <1>1, <2>1, <2>2, LenProperties
<1>3. NormalCodes(s) = Picked(c, places)
  BY DEF NormalCodes, Dedupe
<1>4. Len(s) # 0 => 1 \in 1..Len(s) /\ 1 \in places
  BY <1>1, <1>2
<1>5. s = <<>> <=> Len(s) = 0
  BY EmptySeq
<1> HIDE DEF c, places
<1>6. /\ Picked(c, places) \in Seq(Codes)
      /\ Picked(c, places) = <<>> <=> \A i \in 1..Len(s) : i \notin places
  BY <1>1, <1>2, PickedElements
<1>7. Len(s) = 0 => \A i \in 1..Len(s) : i \notin places
  OBVIOUS
<1> QED
  BY <1>3, <1>4, <1>5, <1>6, <1>7

LEMMA SortedOnlineTypes ==
    ASSUME NEW online \in SUBSET Codes
    PROVE  SortedOnline(online) \in Seq(Codes) /\ (SortedOnline(online) = <<>> <=> online = {})
<1> DEFINE places == {i \in DOMAIN CodeOrder : CodeOrder[i] \in online}
<1>1. CodeOrder \in Seq(Codes) /\ Len(CodeOrder) \in Nat /\ DOMAIN CodeOrder = 1..Len(CodeOrder)
  BY PlannerAssumption, LenProperties
<1>2. \A i \in 1..Len(CodeOrder) : CodeOrder[i] \in Codes
  BY <1>1, ElementOfSeq
<1>3. \A c \in Codes : \E i \in 1..Len(CodeOrder) : CodeOrder[i] = c
  BY <1>1 DEF Codes, ToSet
<1>4. SortedOnline(online) = Picked(CodeOrder, places)
  BY DEF SortedOnline
<1>5. (\A i \in 1..Len(CodeOrder) : i \notin places) <=> online = {}
  BY <1>1, <1>3
<1> HIDE DEF places
<1> QED
  BY <1>1, <1>2, <1>4, <1>5, PickedElements

LEMMA TextCodesTypes ==
    ASSUME NEW text \in AnySentence
    PROVE  /\ TextCodes(text) \in Seq(Codes)
           /\ DOMAIN text.clauses = 1..Len(text.clauses) /\ Len(text.clauses) \in Nat
           /\ \A i \in 1..Len(text.clauses) : text.clauses[i] \in AnyClause
<1>1. text.clauses \in Seq(AnyClause)
  BY DEF AnySentence
<1>2. /\ DOMAIN text.clauses = 1..Len(text.clauses) /\ Len(text.clauses) \in Nat
      /\ \A i \in 1..Len(text.clauses) : text.clauses[i] \in AnyClause
  BY <1>1, LenProperties, ElementOfSeq
<1> DEFINE parts == [i \in DOMAIN text.clauses |-> text.clauses[i].codes]
<1>3. parts \in Seq(Seq(Codes))
  <2>1. \A c \in AnyClause : c.codes \in Seq(Codes)
    BY DEF AnyClause
  <2>2. \A i \in 1..Len(text.clauses) : parts[i] \in Seq(Codes)
    BY <1>2, <2>1
  <2>3. parts \in [1..Len(text.clauses) -> Seq(Codes)]
    BY <1>2, <2>2
  <2> HIDE DEF parts
  <2> QED
    BY <1>2, <2>3, FunctionIsSequence
<1>4. TextCodes(text) = NormalCodes(FlattenSeq(parts))
  BY DEF TextCodes
<1> HIDE DEF parts
<1>5. FlattenSeq(parts) \in Seq(Codes)
  BY <1>3, FlatIsSequence
<1> QED
  BY <1>2, <1>4, <1>5, NormalCodesTypes

LEMMA RequestCodesTypes ==
    ASSUME NEW req \in AnyRequest, NEW fleet \in AnyFleet
    PROVE  /\ RequestCodes(req, fleet) \in Seq(Codes) /\ RequestCodes(req, fleet) # <<>>
           /\ NormalCodes(req.codes) \in Seq(Codes) /\ TextCodes(req.text) \in Seq(Codes)
<1>1. req.text \in AnySentence /\ req.codes \in Seq(Codes)
  BY DEF AnyRequest
<1>2. fleet.online \in SUBSET Codes
  BY DEF AnyFleet
<1> DEFINE all == IF NamesAll(req.text) THEN SortedOnline(fleet.online) ELSE <<>>
<1>3. all \in Seq(Codes)
  <2>1. <<>> \in Seq(Codes)
    BY EmptySeq
  <2> QED
    BY <1>2, <2>1, SortedOnlineTypes
<1>4. TextCodes(req.text) \in Seq(Codes)
  BY <1>1, TextCodesTypes
<1>5. (all \o TextCodes(req.text)) \o req.codes \in Seq(Codes)
  <2> HIDE DEF all
  <2>1. all \o TextCodes(req.text) \in Seq(Codes)
    BY <1>3, <1>4, ConcatProperties
  <2> QED
    BY <1>1, <2>1, ConcatProperties
<1>6. RequestCodes(req, fleet) = OrDefault(NormalCodes((all \o TextCodes(req.text)) \o req.codes))
  BY DEF RequestCodes
<1> HIDE DEF all
<1> QED
  BY <1>1, <1>4, <1>5, <1>6, NormalCodesTypes, OrDefaultTypes

LEMMA BestReadyTypes ==
    ASSUME NEW codes \in Seq(Codes), NEW fleet \in AnyFleet
    PROVE  BestReady(codes, fleet) \in Codes
<1> DEFINE wanted == OrDefault(codes)
           k == FirstIn(wanted, fleet.ready)
<1>1. wanted \in Seq(Codes) /\ wanted[1] \in Codes
  BY OrDefaultTypes
<1>2. fleet.online \in SUBSET Codes
  BY DEF AnyFleet
<1>3. k # 0 => wanted[k] \in Codes
  <2> HIDE DEF wanted
  <2>1. Len(wanted) \in Nat /\ DOMAIN wanted = 1..Len(wanted)
    BY <1>1, LenProperties
  <2>2. k \in 0..Len(wanted)
    BY <2>1, FirstInFinds
  <2>3. k # 0 => k \in 1..Len(wanted)
    BY <2>1, <2>2
  <2> HIDE DEF k
  <2> QED
    BY <1>1, <2>3, ElementOfSeq
<1>4. fleet.online # {} => SortedOnline(fleet.online)[1] \in Codes
  BY <1>2, SortedOnlineTypes, HeadOfSequence
<1> QED
  BY <1>1, <1>3, <1>4 DEF BestReady

LEMMA Greatest ==
    ASSUME NEW N \in Nat, NEW S \in SUBSET (0..N), S # {}
    PROVE  Max(S) \in S
<1> DEFINE T == {N - n : n \in S}
<1>0. \A n \in S : n \in 0..N /\ n \in Nat /\ N - n \in Nat
  OBVIOUS
<1>1. T \in SUBSET Nat /\ T # {}
  BY <1>0
<1>2. PICK t \in T : \A u \in T : t <= u
  <2> HIDE DEF T
  <2> QED
    BY <1>1, Least
<1>3. PICK m \in S : t = N - m
  BY <1>2
<1>4. \A n \in S : m >= n
  <2>1. \A n \in S : N - m <= N - n
    BY <1>2, <1>3
  <2> QED
    BY <1>0, <2>1
<1> QED
  BY <1>4 DEF Max

\* The arguments of a step.
LEMMA StepTypes ==
    ASSUME NEW tool \in Tools, NEW robots \in Seq(Codes), NEW action \in Actions \cup {"none"},
           NEW ticks \in Nat, NEW turn \in BOOLEAN, NEW ref \in TaskRefs \cup {Unset}
    PROVE  Step(tool, robots, action, ticks, turn, ref) \in AnyStep
  BY DEF Step, AnyStep, Statuses

LEMMA MotionStepTypes ==
    ASSUME NEW robots \in Seq(Codes), NEW action \in Actions \cup {"none"}, NEW ticks \in Nat,
           NEW turn \in BOOLEAN
    PROVE  /\ MotionStep(robots, action, ticks, turn) \in AnyStep
           /\ MotionStep(robots, action, ticks, turn).tool = "fleet.motion"
           /\ MotionStep(robots, action, ticks, turn).action = action
<1>1. "fleet.motion" \in Tools
  BY DEF Tools, DirectRosTools
<1>2. MotionStep(robots, action, ticks, turn) \in AnyStep
  BY <1>1, StepTypes DEF MotionStep
<1> QED
  BY <1>2 DEF MotionStep, Step

LEMMA RobotStepTypes ==
    ASSUME NEW tool \in Tools, NEW robots \in Seq(Codes)
    PROVE  /\ RobotStep(tool, robots) \in AnyStep
           /\ RobotStep(tool, robots).tool = tool /\ RobotStep(tool, robots).robots = robots
<1>1. RobotStep(tool, robots) \in AnyStep
  BY StepTypes DEF RobotStep
<1> QED
  BY <1>1 DEF RobotStep, Step

LEMMA PatrolStepTypes ==
    ASSUME NEW tool \in PatrolTools, NEW ref \in TaskRefs \cup {Unset}
    PROVE  PatrolStep(tool, ref) \in AnyStep /\ PatrolStep(tool, ref).tool = tool
<1>1. <<>> \in Seq(Codes) /\ tool \in Tools
  BY EmptySeq DEF Tools
<1>2. PatrolStep(tool, ref) \in AnyStep
  BY <1>1, StepTypes DEF PatrolStep
<1> QED
  BY <1>2 DEF PatrolStep, Step

LEMMA BoundedTypes ==
    ASSUME NEW t \in Nat
    PROVE  Bounded(t) \in Nat
  BY DEF Bounded, Clamp, Second

\* A clause with a stop word asks for no motion, the others for one they name.
LEMMA MotionActionIs ==
    ASSUME NEW clause
    PROVE  /\ MotionAction(clause) \in Actions \cup {"none"}
           /\ MotionAction(clause) # "none" =>
                  clause.stops = {} /\ MotionAction(clause) \in clause.moves
<1> DEFINE k == FirstIn(ActionOrder, clause.moves)
<1>1. Len(ActionOrder) = 6 /\ DOMAIN ActionOrder = 1..6
  BY DEF ActionOrder
<1>2. k \in 0..6 /\ (k # 0 => ActionOrder[k] \in clause.moves)
  BY <1>1, FirstInFinds
<1>3. k # 0 => ActionOrder[k] \in Actions
  BY <1>1, <1>2 DEF Actions, ToSet
<1> HIDE DEF k
<1> QED
  BY <1>2, <1>3 DEF MotionAction, k

LEMMA DurationTypes ==
    ASSUME NEW clause \in AnyClause
    PROVE  Duration(clause) \in Nat
<1>1. clause.ticks \in Nat /\ clause.word \in 0..10
  BY DEF AnyClause
<1>2. Bounded(clause.ticks) \in Nat
  BY <1>1, BoundedTypes
<1> QED
  BY <1>1, <1>2 DEF Duration, FullTurn, Second

\* The motions a sentence says: each is one that a clause names which does not
\* say stop.
SaidMotion(text) ==
    {t \in AnyStep : /\ t.tool = "fleet.motion"
                     /\ \E c \in Clauses(text) : c.stops = {} /\ t.action \in c.moves}

LEMMA DirectMotions ==
    ASSUME NEW req \in AnyRequest, NEW fleet \in AnyFleet
    PROVE  DirectMotionSteps(req, fleet) \in Seq(SaidMotion(req.text))
<1> DEFINE context == RequestCodes(req, fleet)
           named == TextCodes(req.text)
           first == IF named # <<>> THEN named[1]
                    ELSE OrDefault(NormalCodes(req.codes) \o context)[1]
           clauses == req.text.clauses
           moving == {i \in DOMAIN clauses : MotionAction(clauses[i]) # "none"}
           own(i) == ClauseCodes(clauses[i], context)
           naming(i) == {j \in moving : j <= i /\ own(j) # <<>>}
           robots(i) == IF naming(i) = {} THEN <<first>> ELSE own(Max(naming(i)))
           step(i) == LET action == MotionAction(clauses[i])
                      IN MotionStep(robots(i), action, Duration(clauses[i]),
                                    action \in Rotations /\ clauses[i].turn)
           steps == [i \in DOMAIN clauses |-> step(i)]
<1>1. req.text \in AnySentence
  BY DEF AnyRequest
<1>2. /\ context \in Seq(Codes) /\ named \in Seq(Codes)
      /\ NormalCodes(req.codes) \in Seq(Codes)
  BY RequestCodesTypes
<1>3. first \in Codes
  <2>1. NormalCodes(req.codes) \o context \in Seq(Codes)
    BY <1>2, ConcatProperties
  <2>2. OrDefault(NormalCodes(req.codes) \o context)[1] \in Codes
    BY <2>1, OrDefaultTypes
  <2>3. named # <<>> => named[1] \in Codes
    BY <1>2, HeadOfSequence
  <2> QED
    BY <2>2, <2>3
<1>4. /\ DOMAIN clauses = 1..Len(clauses) /\ Len(clauses) \in Nat
      /\ \A i \in 1..Len(clauses) : clauses[i] \in AnyClause
  BY <1>1, TextCodesTypes
<1> HIDE DEF context, named, first, clauses
<1>5. \A i \in 1..Len(clauses) : own(i) \in Seq(Codes)
  <2> SUFFICES ASSUME NEW i \in 1..Len(clauses)
               PROVE  own(i) \in Seq(Codes)
    OBVIOUS
  <2>1. clauses[i].codes \in Seq(Codes)
    BY <1>4 DEF AnyClause
  <2>2. NormalCodes(clauses[i].codes) \in Seq(Codes)
    BY <2>1, NormalCodesTypes
  <2> QED
    BY <1>2, <2>2 DEF ClauseCodes
<1> HIDE DEF own
<1>6. \A i \in 1..Len(clauses) : robots(i) \in Seq(Codes)
  <2> SUFFICES ASSUME NEW i \in 1..Len(clauses)
               PROVE  robots(i) \in Seq(Codes)
    OBVIOUS
  <2>1. <<first>> \in Seq(Codes)
    BY <1>3
  <2>2. \A j \in naming(i) : j \in 1..Len(clauses) /\ j \in 0..i
    BY <1>4
  <2> HIDE DEF naming
  <2>3. ASSUME naming(i) # {}
        PROVE  Max(naming(i)) \in 1..Len(clauses)
    <3>1. naming(i) \in SUBSET (0..i) /\ i \in Nat
      BY <2>2
    <3>2. Max(naming(i)) \in naming(i)
      BY <2>3, <3>1, Greatest
    <3> QED
      BY <2>2, <3>2
  <2> QED
    BY <1>5, <2>1, <2>3
<1> HIDE DEF robots
<1>7. \A i \in moving : steps[i] \in SaidMotion(req.text)
  <2> SUFFICES ASSUME NEW i \in moving
               PROVE  step(i) \in SaidMotion(req.text)
    OBVIOUS
  <2>1. i \in 1..Len(clauses) /\ clauses[i] \in AnyClause /\ MotionAction(clauses[i]) # "none"
    BY <1>4
  <2>2. /\ clauses[i].stops = {} /\ MotionAction(clauses[i]) \in clauses[i].moves
        /\ MotionAction(clauses[i]) \in Actions \cup {"none"}
    BY <2>1, MotionActionIs
  <2>3. (MotionAction(clauses[i]) \in Rotations /\ clauses[i].turn) \in BOOLEAN
    OBVIOUS
  <2>4. /\ step(i) \in AnyStep /\ step(i).tool = "fleet.motion"
        /\ step(i).action = MotionAction(clauses[i])
    BY <1>6, <2>1, <2>2, <2>3, DurationTypes, MotionStepTypes
  <2>5. clauses[i] \in Clauses(req.text)
    BY <1>4, <2>1 DEF Clauses, ToSet, clauses
  <2> HIDE DEF step
  <2> QED
    BY <2>2, <2>4, <2>5 DEF SaidMotion
<1>8. DirectMotionSteps(req, fleet) = Picked(steps, moving)
  BY DEF DirectMotionSteps, robots, naming, own, context, named, first, clauses
<1>9. Len(steps) = Len(clauses)
  <2> DEFINE n == Len(clauses)
             U == {steps[i] : i \in 1..n}
  <2>1. steps \in [1..n -> U] /\ n \in Nat
    BY <1>4
  <2> HIDE DEF n, U, steps
  <2> QED
    BY <2>1, FunctionIsSequence DEF n
<1> HIDE DEF steps, moving
<1>10. \A i \in 1..Len(steps) : i \in moving => steps[i] \in SaidMotion(req.text)
  BY <1>7
<1> QED
  BY <1>4, <1>8, <1>9, <1>10, PickedElements

LEMMA SameOperationTypes ==
    ASSUME NEW req \in AnyRequest, NEW fleet \in AnyFleet
    PROVE  /\ SameOperationSteps(req) \in Seq(AnyStep)
           /\ ~req.text.same => SameOperationSteps(req) = <<>>
<1> DEFINE target == OrDefault(TextCodes(req.text) \o NormalCodes(req.codes))[1]
           forth == MotionStep(<<target>>, "forward", 2 * Second, FALSE)
           left == MotionStep(<<target>>, "rotate_left", FullTurn, TRUE)
           right == MotionStep(<<target>>, "rotate_right", FullTurn, TRUE)
<1>1. target \in Codes
  <2>1. TextCodes(req.text) \o NormalCodes(req.codes) \in Seq(Codes)
    BY RequestCodesTypes, ConcatProperties
  <2> QED
    BY <2>1, OrDefaultTypes
<1>2. <<target>> \in Seq(Codes)
  <2> HIDE DEF target
  <2> QED
    BY <1>1
<1>3. /\ {"forward", "rotate_left", "rotate_right"} \subseteq Actions \cup {"none"}
      /\ 2 * Second \in Nat /\ FullTurn \in Nat
  BY DEF Actions, ActionOrder, ToSet, Second, FullTurn
<1>4. forth \in AnyStep /\ left \in AnyStep /\ right \in AnyStep
  <2> HIDE DEF target
  <2> QED
    BY <1>2, <1>3, MotionStepTypes
<1>5. SameOperationSteps(req) = IF ~req.text.same THEN <<>> ELSE <<forth, left, right>>
  BY DEF SameOperationSteps
<1>6. \A a, b, c \in AnyStep : <<a, b, c>> \in Seq(AnyStep)
  OBVIOUS
<1> HIDE DEF forth, left, right
<1> QED
  BY <1>4, <1>5, <1>6, EmptySeq

LEMMA NamedRobotTypes ==
    ASSUME NEW req \in AnyRequest, NEW fleet \in AnyFleet
    PROVE  NamedRobot(req, fleet) \in Codes
<1>1. TextCodes(req.text) \in Seq(Codes) /\ req.codes \in Seq(Codes)
  BY RequestCodesTypes DEF AnyRequest
<1> QED
  BY <1>1, HeadOfSequence, BestReadyTypes DEF NamedRobot

\* One step that is no motion.
Single(steps) == \E step \in AnyStep : steps = <<step>> /\ step.tool # "fleet.motion"

LEMMA SingleStep ==
    ASSUME NEW tool \in Tools, tool # "fleet.motion", NEW robots \in Seq(Codes)
    PROVE  Single(<<RobotStep(tool, robots)>>)
  BY RobotStepTypes DEF Single

LEMMA PatrolRuleIs ==
    ASSUME NEW text \in AnySentence
    PROVE  Single(<<PatrolRule(text)>>)
<1>1. text.ref \in TaskRefs \cup {Unset} /\ Unset \in TaskRefs \cup {Unset}
  BY DEF AnySentence
<1>2. \A tool \in PatrolTools : tool # "fleet.motion"
  BY DEF PatrolTools, PatrolTaskTools
<1>3. /\ {"patrol.stop_task", "patrol.runtime", "patrol.start_task", "patrol.list_tasks"}
             \subseteq PatrolTools
  BY DEF PatrolTools, PatrolTaskTools
<1>4. ListPatrols \in AnyStep /\ ListPatrols.tool # "fleet.motion"
  BY <1>1, <1>2, <1>3, PatrolStepTypes DEF ListPatrols
<1>5. \A tool \in PatrolTools :
          OnTask(tool, text) \in AnyStep /\ OnTask(tool, text).tool # "fleet.motion"
  BY <1>1, <1>2, <1>4, PatrolStepTypes DEF OnTask
<1>6. PatrolRule(text) \in {OnTask("patrol.stop_task", text), OnTask("patrol.runtime", text),
                            OnTask("patrol.start_task", text), ListPatrols}
  BY DEF PatrolRule
<1>7. PatrolRule(text) \in AnyStep /\ PatrolRule(text).tool # "fleet.motion"
  BY <1>3, <1>4, <1>5, <1>6
<1> QED
  BY <1>7 DEF Single

\* A rule plans one step, or else the motions or the dance that were found.
RulesSound(rules, text, direct, same, robot) ==
    /\ DOMAIN rules = 1..15 /\ rules[15].on = TRUE
    /\ \A k \in 1..15 : \/ Single(rules[k].steps)
                        \/ rules[k].steps = direct /\ rules[k].on = (direct # <<>>)
                        \/ rules[k].steps = same /\ rules[k].on = (same # <<>>)
    /\ \A k \in (1..10) \ {9, 10} : \E topic \in Topics : rules[k].on = (topic \in text.topics)
    /\ rules[9].on = (direct # <<>>) /\ rules[10].on = (same # <<>>)
    /\ rules[11].on = (\E c \in Clauses(text) : "stop" \in c.stops)
    /\ rules[11].steps = <<RobotStep("fleet.safety_stop", <<robot>>)>>

LEMMA RulesAre ==
    ASSUME NEW req \in AnyRequest, NEW fleet \in AnyFleet,
           NEW direct \in Seq(AnyStep), NEW same \in Seq(AnyStep),
           NEW rules, rules = Rules(req, fleet, direct, same),
           NEW robot, robot = NamedRobot(req, fleet)
    PROVE  RulesSound(rules, req.text, direct, same, robot)
<1> DEFINE formed == IF req.codes # <<>> THEN req.codes ELSE <<robot>>
<1>1. req.text \in AnySentence /\ req.codes \in Seq(Codes)
  BY DEF AnyRequest
<1>2. <<robot>> \in Seq(Codes) /\ formed \in Seq(Codes) /\ <<>> \in Seq(Codes)
  BY <1>1, NamedRobotTypes, EmptySeq
<1>3. \A tool \in {"fleet.list_robots", "fleet.rescue_approach", "fleet.rescue_search",
                   "fleet.corridor_crawl", "fleet.corridor_yield", "fleet.hazard_avoidance",
                   "fleet.formation", "fleet.safety_stop", "fleet.plate_verify",
                   "fleet.escort_return", "fleet.readiness", "fleet.summary"} :
          tool \in Tools /\ tool # "fleet.motion"
  BY DEF Tools, Queries, DirectRosTools, DownlinkTools
<1>4. /\ {"robots", "patrol", "approach", "search", "corridor", "yield", "hazard", "formation"}
             \subseteq Topics
  BY DEF Topics
<1> HIDE DEF formed
<1>5. /\ DOMAIN rules = 1..15 /\ rules[15].on = TRUE
      /\ rules[9].on = (direct # <<>>) /\ rules[10].on = (same # <<>>)
      /\ rules[11].on = (\E c \in Clauses(req.text) : "stop" \in c.stops)
      /\ rules[11].steps = <<RobotStep("fleet.safety_stop", <<robot>>)>>
      /\ rules[9].steps = direct /\ rules[10].steps = same
  <2> DEFINE stops == \E c \in Clauses(req.text) : "stop" \in c.stops
             found == direct # <<>>
             danced == same # <<>>
  <2>1. DOMAIN rules = 1..15
    BY DEF Rules
  <2>2. /\ rules[11].steps = <<RobotStep("fleet.safety_stop", <<robot>>)>>
        /\ rules[9].steps = direct /\ rules[10].steps = same
    BY DEF Rules
  <2>3. rules[15].on = TRUE
    BY DEF Rules
  <2>4. rules[9].on = found /\ rules[10].on = danced
    BY DEF Rules
  <2>5. rules[11].on = stops
    BY DEF Rules
  <2> QED
    BY <2>1, <2>2, <2>3, <2>4, <2>5
<1>6. /\ rules[1].steps = <<RobotStep("fleet.list_robots", <<>>)>>
      /\ rules[2].steps = <<PatrolRule(req.text)>>
      /\ rules[3].steps = <<RobotStep("fleet.rescue_approach", <<robot>>)>>
      /\ rules[4].steps = <<RobotStep("fleet.rescue_search", <<robot>>)>>
      /\ rules[5].steps = <<RobotStep("fleet.corridor_crawl", <<robot>>)>>
      /\ rules[6].steps = <<RobotStep("fleet.corridor_yield", <<robot>>)>>
      /\ rules[7].steps = <<RobotStep("fleet.hazard_avoidance", <<robot>>)>>
      /\ rules[8].steps = <<RobotStep("fleet.formation", formed)>>
      /\ rules[12].steps = <<RobotStep("fleet.plate_verify", <<robot>>)>>
      /\ rules[13].steps = <<RobotStep("fleet.escort_return", <<robot>>)>>
      /\ rules[14].steps = <<RobotStep("fleet.readiness", <<robot>>)>>
      /\ rules[15].steps = <<RobotStep("fleet.summary", <<>>)>>
  BY DEF Rules, formed
<1>7. /\ rules[1].on = ("robots" \in req.text.topics)
      /\ rules[2].on = ("patrol" \in req.text.topics)
      /\ rules[3].on = ("approach" \in req.text.topics)
      /\ rules[4].on = ("search" \in req.text.topics)
      /\ rules[5].on = ("corridor" \in req.text.topics)
      /\ rules[6].on = ("yield" \in req.text.topics)
      /\ rules[7].on = ("hazard" \in req.text.topics)
      /\ rules[8].on = ("formation" \in req.text.topics)
  BY DEF Rules
<1>8. Single(<<PatrolRule(req.text)>>)
  BY <1>1, PatrolRuleIs
<1>9. \A tool \in {"fleet.list_robots", "fleet.rescue_approach", "fleet.rescue_search",
                   "fleet.corridor_crawl", "fleet.corridor_yield", "fleet.hazard_avoidance",
                   "fleet.formation", "fleet.safety_stop", "fleet.plate_verify",
                   "fleet.escort_return", "fleet.readiness", "fleet.summary"},
          robots \in {<<robot>>, formed, <<>>} : Single(<<RobotStep(tool, robots)>>)
  BY <1>2, <1>3, SingleStep
<1>10. \A k \in (1..15) \ {9, 10} : Single(rules[k].steps)
  <2>1. \A k \in (1..15) \ {9, 10} : k \in {1, 2, 3, 4, 5, 6, 7, 8, 11, 12, 13, 14, 15}
    OBVIOUS
  <2>2. \A k \in {1, 2, 3, 4, 5, 6, 7, 8, 11, 12, 13, 14, 15} : Single(rules[k].steps)
    <3>1. /\ Single(rules[1].steps) /\ Single(rules[2].steps) /\ Single(rules[3].steps)
          /\ Single(rules[4].steps) /\ Single(rules[5].steps)
      BY ONLY <1>6, <1>8, <1>9
    <3>2. /\ Single(rules[6].steps) /\ Single(rules[7].steps) /\ Single(rules[8].steps)
          /\ Single(rules[11].steps)
      BY ONLY <1>5, <1>6, <1>9
    <3>3. /\ Single(rules[12].steps) /\ Single(rules[13].steps) /\ Single(rules[14].steps)
          /\ Single(rules[15].steps)
      BY ONLY <1>6, <1>9
    <3> QED
      BY ONLY <3>1, <3>2, <3>3
  <2> QED
    BY <2>1, <2>2
<1>11. \A k \in (1..10) \ {9, 10} : \E topic \in Topics : rules[k].on = (topic \in req.text.topics)
  <2>1. \A k \in (1..10) \ {9, 10} : k \in {1, 2, 3, 4, 5, 6, 7, 8}
    OBVIOUS
  <2>2. \A k \in {1, 2, 3, 4, 5, 6, 7, 8} : \E topic \in Topics :
            rules[k].on = (topic \in req.text.topics)
    BY <1>4, <1>7
  <2> QED
    BY <2>1, <2>2
<1>12. \A k \in 1..15 : \/ Single(rules[k].steps)
                        \/ rules[k].steps = direct /\ rules[k].on = (direct # <<>>)
                        \/ rules[k].steps = same /\ rules[k].on = (same # <<>>)
  BY <1>5, <1>10
<1> QED
  BY ONLY <1>5, <1>11, <1>12 DEF RulesSound

\* The first rule that applies plans the sentence.  There is always one.
LEMMA RulePlanIs ==
    ASSUME NEW req \in AnyRequest, NEW fleet \in AnyFleet,
           NEW direct \in Seq(AnyStep), NEW same \in Seq(AnyStep),
           NEW steps, steps = RulePlan(req, fleet, direct, same)
    PROVE  /\ steps \in Seq(AnyStep)
           /\ Single(steps) \/ (steps = direct /\ direct # <<>>) \/ (steps = same /\ same # <<>>)
           /\ req.text.topics = {} /\ direct = <<>> /\ same = <<>>
              /\ (\E c \in Clauses(req.text) : "stop" \in c.stops) =>
                  steps = <<RobotStep("fleet.safety_stop", <<NamedRobot(req, fleet)>>)>>
<1> DEFINE rules == Rules(req, fleet, direct, same)
           on == [i \in DOMAIN rules |-> rules[i].on]
           T == {TRUE}
           k == FirstIn(on, T)
           stops == \E c \in Clauses(req.text) : "stop" \in c.stops
           robot == NamedRobot(req, fleet)
           halt == <<RobotStep("fleet.safety_stop", <<robot>>)>>
<1>1. /\ DOMAIN rules = 1..15 /\ rules[15].on = TRUE
      /\ \A i \in 1..15 : \/ Single(rules[i].steps)
                          \/ rules[i].steps = direct /\ rules[i].on = (direct # <<>>)
                          \/ rules[i].steps = same /\ rules[i].on = (same # <<>>)
      /\ \A i \in (1..10) \ {9, 10} : \E topic \in Topics :
                                rules[i].on = (topic \in req.text.topics)
      /\ rules[9].on = (direct # <<>>) /\ rules[10].on = (same # <<>>)
      /\ rules[11].on = stops /\ rules[11].steps = halt
  <2>1. /\ rules = Rules(req, fleet, direct, same) /\ robot = NamedRobot(req, fleet)
        /\ req \in AnyRequest /\ fleet \in AnyFleet
        /\ direct \in Seq(AnyStep) /\ same \in Seq(AnyStep)
    OBVIOUS
  <2> HIDE DEF rules, robot
  <2>2. RulesSound(rules, req.text, direct, same, robot)
    BY <2>1, RulesAre
  <2> QED
    BY <2>2 DEF RulesSound
<1>2. steps = rules[k].steps
  BY DEF RulePlan
<1> HIDE DEF rules, stops, halt
<1>3. DOMAIN on = 1..15 /\ \A i \in 1..15 : on[i] = rules[i].on
  BY <1>1
<1>0. \A b : b \in T <=> b = TRUE
  OBVIOUS
<1> HIDE DEF on, T
<1>4. /\ k \in 0..15 /\ (k = 0 <=> \A i \in 1..15 : on[i] \notin T)
      /\ k # 0 => on[k] \in T /\ \A i \in 1..15 : on[i] \in T => k <= i
  <2> DEFINE n == 15
  <2>1. n \in Nat /\ DOMAIN on = 1..n
    BY <1>3
  <2> HIDE DEF n
  <2>2. /\ k \in 0..n /\ (k = 0 <=> \A i \in 1..n : on[i] \notin T)
        /\ k # 0 => on[k] \in T /\ \A i \in 1..n : on[i] \in T => k <= i
    BY <2>1, FirstInFinds
  <2> QED
    BY <2>2 DEF n
<1> HIDE DEF k
<1>5. k \in 1..15 /\ rules[k].on = TRUE
  <2>1. 15 \in 1..15 /\ on[15] \in T
    <3>1. 15 \in 1..15
      OBVIOUS
    <3> QED
      BY <1>0, <1>1, <1>3, <3>1
  <2>2. k # 0
    BY <1>4, <2>1
  <2>3. k \in 1..15
    BY <1>4, <2>2
  <2> QED
    BY <1>0, <1>3, <1>4, <2>2, <2>3
<1>6. Single(steps) \/ (steps = direct /\ direct # <<>>) \/ (steps = same /\ same # <<>>)
  BY <1>1, <1>2, <1>5
<1>7. steps \in Seq(AnyStep)
  <2>1. \A step \in AnyStep : <<step>> \in Seq(AnyStep)
    OBVIOUS
  <2> QED
    BY <1>6, <2>1 DEF Single
<1>8. ASSUME req.text.topics = {}, direct = <<>>, same = <<>>, stops
      PROVE  steps = halt
  <2>1. on[11] \in T /\ 11 \in 1..15
    <3>1. 11 \in 1..15
      OBVIOUS
    <3> QED
      BY <1>0, <1>1, <1>3, <1>8, <3>1
  <2>2. k <= 11
    BY <1>4, <1>5, <2>1
  <2>3. k \notin (1..10) \ {9, 10}
    BY <1>1, <1>5, <1>8
  <2>4. k # 9 /\ k # 10
    BY <1>1, <1>5, <1>8
  <2>5. k = 11
    BY <1>5, <2>2, <2>3, <2>4
  <2> QED
    BY <1>1, <1>2, <2>5
<1> QED
  BY <1>6, <1>7, <1>8 DEF stops, halt, robot

\* The model's answer.
LEMMA NormalizeTypes ==
    ASSUME NEW raw \in AnyRawStep, raw.tool \in Tools, NEW req \in AnyRequest,
           NEW fleet \in AnyFleet
    PROVE  Normalize(raw, req, fleet) \in AnyStep
<1>1. /\ raw.robots \in Seq(Codes) /\ raw.action \in Actions \cup {"none"}
      /\ raw.ticks \in Nat /\ raw.ref \in TaskRefs \cup {Unset}
  BY DEF AnyRawStep
<1>2. req.text \in AnySentence /\ req.text.ref \in TaskRefs \cup {Unset}
  BY DEF AnyRequest, AnySentence
<1>3. NormalCodes(raw.robots) \in Seq(Codes)
  BY <1>1, NormalCodesTypes
<1>4. NormalizeMotion(raw, req, fleet) \in AnyStep
  <2> DEFINE text == req.text
             stops == \E c \in Clauses(text) : c.stops # {}
             whole == [moves |-> UNION {c.moves : c \in Clauses(text)},
                       stops |-> IF stops THEN StopWords ELSE {}]
             heard == MotionAction(whole)
             action == IF raw.action # "none" THEN raw.action
                       ELSE IF heard # "none" THEN heard
                       ELSE IF text.generic /\ ~stops THEN "forward"
                       ELSE "none"
             turn == action \in Rotations /\ \E c \in Clauses(text) : c.turn
             ticks == IF turn /\ raw.ticks \in {0, Second} THEN FullTurn
                      ELSE IF raw.ticks = 0 THEN 0 ELSE Bounded(raw.ticks)
             robots == IF raw.robots # <<>> THEN NormalCodes(raw.robots)
                       ELSE RequestCodes(req, fleet)
  <2>1. heard \in Actions \cup {"none"}
    <3> HIDE DEF whole
    <3> QED
      BY MotionActionIs
  <2>2. "forward" \in Actions
    BY DEF Actions, ActionOrder, ToSet
  <2> HIDE DEF heard
  <2>3. action \in Actions \cup {"none"}
    BY <1>1, <2>1, <2>2
  <2> HIDE DEF action
  <2>4. turn \in BOOLEAN
    OBVIOUS
  <2>5. ticks \in Nat
    <3>1. Bounded(raw.ticks) \in Nat /\ FullTurn \in Nat
      BY <1>1, BoundedTypes DEF FullTurn, Second
    <3> HIDE DEF turn
    <3> QED
      BY <3>1
  <2>6. robots \in Seq(Codes)
    BY <1>3, RequestCodesTypes
  <2>7. NormalizeMotion(raw, req, fleet) = MotionStep(robots, action, ticks, turn)
    BY DEF NormalizeMotion, action, heard
  <2> HIDE DEF robots, ticks, turn
  <2> QED
    BY <2>3, <2>4, <2>5, <2>6, <2>7, MotionStepTypes
<1>5. CASE raw.tool = "fleet.motion"
  BY <1>4, <1>5 DEF Normalize, PatrolTaskTools
<1>6. CASE raw.tool = "fleet.safety_stop"
  <2>1. FallbackRobot(req, fleet) \in Codes
    <3>1. TextCodes(req.text) \o NormalCodes(req.codes) \in Seq(Codes)
      BY RequestCodesTypes, ConcatProperties
    <3>2. <<>> \in Seq(Codes)
      BY EmptySeq
    <3> QED
      BY <3>1, <3>2, HeadOfSequence, BestReadyTypes DEF FallbackRobot
  <2> DEFINE robots == IF raw.robots # <<>> THEN NormalCodes(raw.robots)
                       ELSE <<FallbackRobot(req, fleet)>>
  <2>2. robots \in Seq(Codes)
    BY <1>3, <2>1
  <2>3. Normalize(raw, req, fleet) = RobotStep(raw.tool, robots)
    BY <1>6 DEF Normalize, PatrolTaskTools
  <2> HIDE DEF robots
  <2> QED
    BY <2>2, <2>3, RobotStepTypes
<1>7. CASE raw.tool \in PatrolTaskTools
  <2>1. raw.tool \in PatrolTools /\ raw.tool # "fleet.motion" /\ raw.tool # "fleet.safety_stop"
    BY <1>7 DEF PatrolTools, PatrolTaskTools
  <2> DEFINE ref == IF raw.ref # Unset THEN raw.ref ELSE req.text.ref
  <2>2. ref \in TaskRefs \cup {Unset}
    BY <1>1, <1>2
  <2>3. Normalize(raw, req, fleet) = PatrolStep(raw.tool, ref)
    BY <1>7, <2>1 DEF Normalize
  <2> HIDE DEF ref
  <2> QED
    BY <2>1, <2>2, <2>3, PatrolStepTypes
<1>8. CASE raw.tool \notin {"fleet.motion", "fleet.safety_stop"} \cup PatrolTaskTools
  <2>1. Normalize(raw, req, fleet) = Step(raw.tool, raw.robots, raw.action, raw.ticks, FALSE, raw.ref)
    BY <1>8 DEF Normalize
  <2> QED
    BY <1>1, <2>1, StepTypes
<1> QED
  BY <1>5, <1>6, <1>7, <1>8

LEMMA LlmStepsTypes ==
    ASSUME NEW raws \in Seq(AnyRawStep), NEW req \in AnyRequest, NEW fleet \in AnyFleet
    PROVE  StepsFromLlm(raws, req, fleet) \in Seq(AnyStep)
<1> DEFINE read == [i \in DOMAIN raws |-> Normalize(raws[i], req, fleet)]
           places == {i \in DOMAIN raws : raws[i].tool \in Tools /\ ~Missing(raws[i], read[i])}
<1>1. DOMAIN raws = 1..Len(raws) /\ Len(raws) \in Nat /\ \A i \in 1..Len(raws) : raws[i] \in AnyRawStep
  BY LenProperties, ElementOfSeq
<1>2. \A i \in 1..Len(raws) : i \in places => read[i] \in AnyStep
  BY <1>1, NormalizeTypes
<1>3. Len(read) = Len(raws)
  <2> DEFINE n == Len(raws)
             U == {read[i] : i \in 1..n}
  <2>1. read \in [1..n -> U] /\ n \in Nat
    BY <1>1
  <2> HIDE DEF n, U, read
  <2> QED
    BY <2>1, FunctionIsSequence DEF n
<1>4. StepsFromLlm(raws, req, fleet) = Picked(read, places)
  BY DEF StepsFromLlm
<1> HIDE DEF read, places
<1> QED
  BY <1>1, <1>2, <1>3, <1>4, PickedElements

\* plan(): what the steps of a plan can be.
LEMMA PlanStepsTypes ==
    ASSUME NEW raws \in Seq(AnyRawStep), NEW req \in AnyRequest, NEW fleet \in AnyFleet
    PROVE  PlanSteps(req, raws, fleet) \in Seq(AnyStep)
<1> DEFINE same == SameOperationSteps(req)
           direct == DirectMotionSteps(req, fleet)
           answered == IF req.llm THEN StepsFromLlm(raws, req, fleet) ELSE <<>>
<1>1. same \in Seq(AnyStep)
  BY SameOperationTypes
<1>2. direct \in Seq(AnyStep)
  <2>1. SaidMotion(req.text) \subseteq AnyStep
    BY DEF SaidMotion
  <2>2. direct \in Seq(SaidMotion(req.text))
    BY DirectMotions
  <2> HIDE DEF direct
  <2> QED
    BY <2>1, <2>2, SeqMonotonic
<1>3. StepsFromLlm(raws, req, fleet) \in Seq(AnyStep)
  BY LlmStepsTypes
<1>4. RulePlan(req, fleet, direct, same) \in Seq(AnyStep)
  <2> HIDE DEF same, direct
  <2> QED
    BY <1>1, <1>2, RulePlanIs
<1> QED
  BY <1>1, <1>2, <1>3, <1>4 DEF PlanSteps

\* What the rules make of a sentence that is not "the same as above".
LEMMA HearsStop ==
    ASSUME NEW text \in AnySentence, ~text.same, NEW codes \in Seq(Codes), NEW fleet \in AnyFleet,
           NEW req, req = [text |-> text, codes |-> codes, llm |-> FALSE, auto |-> FALSE],
           NEW steps, steps = PlanSteps(req, <<>>, fleet),
           NEW moving, moving = {c \in Clauses(text) : c.moves # {} /\ c.stops = {}}
    PROVE  /\ \A k \in DOMAIN steps : steps[k].tool = "fleet.motion" =>
                  \E c \in moving : steps[k].action \in c.moves
           /\ text.topics = {} /\ moving = {} /\ (\E c \in Clauses(text) : "stop" \in c.stops) =>
                  /\ Len(steps) = 1 /\ steps[1].tool = "fleet.safety_stop"
                  /\ TextCodes(text) # <<>> => steps[1].robots[1] \in ToSet(TextCodes(text))
<1> DEFINE same == SameOperationSteps(req)
           direct == DirectMotionSteps(req, fleet)
           ruled == RulePlan(req, fleet, direct, same)
           robot == NamedRobot(req, fleet)
           stops == \E c \in Clauses(text) : "stop" \in c.stops
<1>1. req \in AnyRequest /\ req.text = text /\ req.llm = FALSE
  BY DEF AnyRequest
<1>2. same = <<>> /\ same \in Seq(AnyStep)
  BY <1>1, SameOperationTypes
<1>3. direct \in Seq(SaidMotion(text)) /\ direct \in Seq(AnyStep)
  <2>1. SaidMotion(text) \subseteq AnyStep
    BY DEF SaidMotion
  <2>2. direct \in Seq(SaidMotion(text))
    BY <1>1, DirectMotions
  <2> HIDE DEF direct
  <2> QED
    BY <2>1, <2>2, SeqMonotonic
<1>4. steps = IF direct # <<>> THEN direct ELSE ruled
  BY <1>1, <1>2 DEF PlanSteps
<1> HIDE DEF same, direct
<1>5. /\ Single(ruled) \/ (ruled = direct /\ direct # <<>>) \/ (ruled = same /\ same # <<>>)
      /\ text.topics = {} /\ direct = <<>> /\ same = <<>> /\ stops =>
            ruled = <<RobotStep("fleet.safety_stop", <<robot>>)>>
  BY <1>1, <1>2, <1>3, RulePlanIs
<1>6. robot \in Codes /\ (TextCodes(text) # <<>> => robot = TextCodes(text)[1])
  BY <1>1, NamedRobotTypes DEF NamedRobot
<1> HIDE DEF ruled, robot, stops
<1>7. ASSUME NEW t \in SaidMotion(text)
      PROVE  \E c \in moving : t.action \in c.moves
  BY <1>7 DEF SaidMotion
<1>8. ASSUME direct # <<>>
      PROVE  moving # {}
  <2>1. direct[1] \in SaidMotion(text)
    BY <1>3, <1>8, HeadOfSequence
  <2> QED
    BY <1>7, <2>1
<1>9. ASSUME NEW k \in DOMAIN steps, steps[k].tool = "fleet.motion"
      PROVE  \E c \in moving : steps[k].action \in c.moves
  <2>1. CASE direct # <<>>
    <3>1. steps = direct /\ k \in 1..Len(direct)
      BY <1>3, <1>4, <1>9, <2>1, LenProperties
    <3>2. direct[k] \in SaidMotion(text)
      BY <1>3, <3>1, ElementOfSeq
    <3> QED
      BY <1>7, <3>1, <3>2
  <2>2. CASE direct = <<>>
    <3>1. Single(steps)
      BY <1>2, <1>4, <1>5, <2>2
    <3>2. PICK step \in AnyStep : steps = <<step>> /\ step.tool # "fleet.motion"
      BY <3>1 DEF Single
    <3>3. k = 1 /\ steps[k] = step
      BY <1>9, <3>2
    <3> QED
      BY <1>9, <3>2, <3>3
  <2> QED
    BY <2>1, <2>2
<1>10. ASSUME text.topics = {}, moving = {}, stops
       PROVE  /\ Len(steps) = 1 /\ steps[1].tool = "fleet.safety_stop"
              /\ TextCodes(text) # <<>> => steps[1].robots[1] \in ToSet(TextCodes(text))
  <2>1. direct = <<>>
    BY <1>8, <1>10
  <2>2. steps = <<RobotStep("fleet.safety_stop", <<robot>>)>>
    BY <1>2, <1>4, <1>5, <1>10, <2>1
  <2>3. /\ RobotStep("fleet.safety_stop", <<robot>>).tool = "fleet.safety_stop"
        /\ RobotStep("fleet.safety_stop", <<robot>>).robots = <<robot>>
    <3>1. "fleet.safety_stop" \in Tools /\ <<robot>> \in Seq(Codes)
      BY <1>6 DEF Tools, DirectRosTools
    <3> QED
      BY <3>1, RobotStepTypes
  <2>4. Len(steps) = 1 /\ steps[1] = RobotStep("fleet.safety_stop", <<robot>>)
    BY <2>2
  <2>5. TextCodes(text) # <<>> => robot \in ToSet(TextCodes(text))
    <3>1. TextCodes(text) \in Seq(Codes)
      BY TextCodesTypes
    <3>2. TextCodes(text) # <<>> => 1 \in DOMAIN TextCodes(text)
      BY <3>1, HeadOfSequence, LenProperties
    <3> QED
      BY <1>6, <3>2 DEF ToSet
  <2>6. steps[1].robots[1] = robot
    BY <2>3, <2>4
  <2> QED
    BY <2>3, <2>4, <2>5, <2>6
<1> QED
  BY <1>9, <1>10 DEF stops

\* A sentence is planned alike whatever was planned before: a clause that says
\* stop plans no motion of the fleet, and nothing but stop is a stop.
THEOREM StopIsPlanned == Spec => []PlannerHearsStop
<1>1. PlannerHearsStop
  <2> SUFFICES ASSUME NEW text \in Sentences, NEW codes \in {<<>>, CodeOrder}, NEW fleet \in Fleets,
                      ~text.same
               PROVE  LET req == [text |-> text, codes |-> codes, llm |-> FALSE, auto |-> FALSE]
                          steps == PlanSteps(req, <<>>, fleet)
                          moving == {c \in Clauses(text) : c.moves # {} /\ c.stops = {}}
                      IN /\ \A k \in DOMAIN steps : steps[k].tool = "fleet.motion" =>
                                \E c \in moving : steps[k].action \in c.moves
                         /\ text.topics = {} /\ moving = {}
                               /\ (\E c \in Clauses(text) : "stop" \in c.stops) =>
                                /\ Len(steps) = 1 /\ steps[1].tool = "fleet.safety_stop"
                                /\ TextCodes(text) # <<>> =>
                                       steps[1].robots[1] \in ToSet(TextCodes(text))
    BY DEF PlannerHearsStop
  <2>1. text \in AnySentence /\ fleet \in AnyFleet
    BY TasksAssumption
  <2>2. codes \in Seq(Codes)
    BY PlannerAssumption, EmptySeq
  <2> QED
    BY <2>1, <2>2, HearsStop
<1> QED
  BY <1>1, PTL

-----------------------------------------------------------------------------
(* The inductive invariant.                                                 *)

Done(p) == \A i \in 1..Len(p.steps) : p.steps[i].status # "planned"

\* A store holds each plan once, none that is still to be made; those that have
\* been written back have no step left.
Sound(s, made, back) ==
    /\ s \in Seq(AnyPlan)
    /\ \A i \in 1..Len(s) : /\ PlanOK(s[i]) /\ s[i].id \in 1..made
                            /\ s[i].id \in back => Done(s[i])
    /\ \A i, j \in 1..Len(s) : s[i].id = s[j].id => i = j

StoresSound ==
    /\ Sound(plans, asked, closed) /\ Sound(file, asked, closedInFile)
    /\ closed \subseteq 1..asked /\ closedInFile \subseteq 1..asked /\ Len(file) <= MaxStored

\* An execution has been confirmed if its plan asks for it, has done the steps
\* before the one it is at, and had nothing to do if it came late.
Execution(where, p, a, g, made) ==
    /\ p.id \in 1..made /\ a \in 1..(Len(p.steps) + 1)
    /\ p.confirm => g.confirmed
    /\ g.late => Done(p)
    /\ \A j \in 1..(a - 1) : p.steps[j].status # "planned"
    /\ where \in {"call", "sleep"} => a <= Len(p.steps)
    /\ where = "sleep" => p.steps[a].status # "planned"

ExecutionsSound ==
    /\ \A x \in Threads : pc[x] # "idle" => Execution(pc[x], held[x], at[x], grant[x], asked)
    /\ \A x, y \in Threads : pc[x] # "idle" /\ pc[y] # "idle" /\ run[x] = run[y] => x = y

\* Each execution brings at most one dropped plan back.
Active == {x \in Threads : pc[x] # "idle"}

StoreBounded ==
    /\ Cardinality(Active) <= runs
    /\ Len(plans) + Cardinality(Active) <= MaxStored + runs

\* As long as a robot moves as an execution told it, and the bridge has said
\* so, the execution is still at that step: it waits for the answers of the
\* other robots, or sleeps at least as long as the motion lasts.
Covered(where, number, a, left, m) ==
    m.left > 0 /\ m.tool = "fleet.motion" /\ m.acked /\ m.run = number =>
        /\ a = m.step
        /\ where = "call" \/ (where = "sleep" /\ left >= m.left)

MotionsSound ==
    \A x \in Threads, r \in Robots :
        pc[x] # "idle" => Covered(pc[x], run[x], at[x], wait[x], motion[r])

IInv == /\ TypeOK /\ StoresSound /\ ExecutionsSound /\ StoreBounded /\ MotionsSound
        /\ ConfirmedBeforeMoving /\ NoStepAfterWriteBack

-----------------------------------------------------------------------------
(* Plans and stores.                                                        *)

LEMMA PlanFacts ==
    ASSUME NEW p \in AnyPlan
    PROVE  /\ p.steps \in Seq(AnyStep) /\ Len(p.steps) \in Nat /\ DOMAIN p.steps = 1..Len(p.steps)
           /\ \A i \in 1..Len(p.steps) : p.steps[i] \in AnyStep
           /\ p.id \in Nat /\ p.confirm \in BOOLEAN
<1>1. p.steps \in Seq(AnyStep)
  BY DEF AnyPlan
<1>2. p.id \in 0..MaxPlans /\ p.confirm \in BOOLEAN
  BY DEF AnyPlan
<1> QED
  BY <1>1, <1>2, LenProperties, ElementOfSeq

\* What a step's end changes in a plan.
LEMMA StepEnded ==
    ASSUME NEW p, PlanOK(p), NEW k \in 1..Len(p.steps), NEW status \in Statuses,
           NEW q, q = [p EXCEPT !.steps[k].status = status]
    PROVE  /\ PlanOK(q) /\ q.id = p.id /\ q.confirm = p.confirm /\ Len(q.steps) = Len(p.steps)
           /\ \A j \in 1..Len(p.steps) : j # k => q.steps[j] = p.steps[j]
           /\ q.steps[k].status = status
<1>1. /\ p \in AnyPlan /\ p.steps \in Seq(AnyStep) /\ DOMAIN p.steps = 1..Len(p.steps)
      /\ p.steps[k] \in AnyStep /\ p.confirm = RequiresConfirmation(p.steps)
  BY PlanFacts DEF PlanOK
<1> DEFINE step == [p.steps[k] EXCEPT !.status = status]
           steps == [p.steps EXCEPT ![k] = step]
<1>2. step \in AnyStep /\ step.status = status /\ step.tool = p.steps[k].tool
  BY <1>1 DEF AnyStep
<1>3. q = [p EXCEPT !.steps = steps]
  OBVIOUS
<1> HIDE DEF step
<1>4. /\ steps \in Seq(AnyStep) /\ Len(steps) = Len(p.steps)
      /\ \A j \in 1..Len(p.steps) : steps[j] = IF j = k THEN step ELSE p.steps[j]
  BY <1>1, <1>2, ExceptSeq
<1> HIDE DEF steps
<1>5. q \in AnyPlan /\ q.steps = steps /\ q.id = p.id /\ q.confirm = p.confirm
  BY <1>1, <1>3, <1>4 DEF AnyPlan
<1>6. RequiresConfirmation(steps) = RequiresConfirmation(p.steps)
  <2>1. DOMAIN steps = DOMAIN p.steps
    BY <1>1, <1>4, LenProperties
  <2>2. \A j \in DOMAIN p.steps : steps[j].tool = p.steps[j].tool
    BY <1>1, <1>2, <1>4
  <2> QED
    BY <2>1, <2>2 DEF RequiresConfirmation
<1> QED
  BY <1>1, <1>2, <1>4, <1>5, <1>6 DEF PlanOK

\* A plan that executed itself when it was made.
LEMMA PlanExecuted ==
    ASSUME NEW p, PlanOK(p), NEW done \in [DOMAIN p.steps -> {"executed", "failed"}],
           NEW q, q = [p EXCEPT !.steps = [i \in DOMAIN @ |-> [@[i] EXCEPT !.status = done[i]]]]
    PROVE  PlanOK(q) /\ q.id = p.id /\ q.confirm = p.confirm
<1>1. /\ p \in AnyPlan /\ p.steps \in Seq(AnyStep) /\ DOMAIN p.steps = 1..Len(p.steps)
      /\ Len(p.steps) \in Nat /\ \A i \in 1..Len(p.steps) : p.steps[i] \in AnyStep
      /\ p.confirm = RequiresConfirmation(p.steps)
  BY PlanFacts DEF PlanOK
<1> DEFINE steps == [i \in DOMAIN p.steps |-> [p.steps[i] EXCEPT !.status = done[i]]]
<1>2. q = [p EXCEPT !.steps = steps]
  OBVIOUS
<1>3. \A i \in 1..Len(p.steps) : steps[i] \in AnyStep /\ steps[i].tool = p.steps[i].tool
  BY <1>1 DEF AnyStep, Statuses
<1>4. DOMAIN steps = 1..Len(p.steps) /\ steps \in Seq(AnyStep)
  <2>1. steps \in [1..Len(p.steps) -> AnyStep]
    BY <1>1, <1>3
  <2> HIDE DEF steps
  <2> QED
    BY <1>1, <2>1, FunctionIsSequence
<1> HIDE DEF steps
<1>5. q \in AnyPlan /\ q.steps = steps /\ q.id = p.id /\ q.confirm = p.confirm
  BY <1>1, <1>2, <1>4 DEF AnyPlan
<1>6. RequiresConfirmation(steps) = RequiresConfirmation(p.steps)
  BY <1>1, <1>3, <1>4 DEF RequiresConfirmation
<1> QED
  BY <1>1, <1>5, <1>6 DEF PlanOK

LEMMA NewestSound ==
    ASSUME NEW s, NEW made \in Nat, NEW back, Sound(s, made, back)
    PROVE  Sound(Newest(s), made, back) /\ Len(Newest(s)) <= MaxStored
<1>0. MaxStored \in Nat /\ s \in Seq(AnyPlan) /\ Len(s) \in Nat
  BY TasksAssumption, LenProperties DEF Sound
<1>1. CASE Len(s) <= MaxStored
  BY <1>1 DEF Newest
<1>2. CASE ~(Len(s) <= MaxStored)
  <2> DEFINE first == Len(s) - MaxStored + 1
             last == Len(s)
             t == SubSeq(s, first, last)
  <2>1. first \in Int /\ last \in Int /\ \A i \in first..last : s[i] \in AnyPlan
    BY <1>0, <1>2, ElementOfSeq
  <2>2. first <= last \/ MaxStored = 0
    BY <1>0
  <2>3. last - first + 1 = MaxStored /\ (first <= last => MaxStored # 0)
    BY <1>0
  <2>4. Newest(s) = t
    BY <1>2 DEF Newest
  <2>5. /\ t \in Seq(AnyPlan) /\ Len(t) = MaxStored
        /\ \A i \in 1..MaxStored : t[i] = s[i + (Len(s) - MaxStored)]
    <3> HIDE DEF first, last
    <3>1. /\ t \in Seq(AnyPlan) /\ Len(t) = IF first <= last THEN last - first + 1 ELSE 0
          /\ \A i \in 1..(last - first + 1) : t[i] = s[first + i - 1]
      BY <2>1, SubSeqProperties
    <3> HIDE DEF t
    <3>2. \A i \in 1..MaxStored : first + i - 1 = i + (Len(s) - MaxStored)
      BY <1>0 DEF first
    <3> QED
      BY <2>2, <2>3, <3>1, <3>2
  <2>6. \A i \in 1..MaxStored : i + (Len(s) - MaxStored) \in 1..Len(s)
    BY <1>0, <1>2
  <2> HIDE DEF t, first, last
  <2>7. \A i \in 1..Len(t) : /\ PlanOK(t[i]) /\ t[i].id \in 1..made
                             /\ t[i].id \in back => Done(t[i])
    BY <2>5, <2>6 DEF Sound
  <2>8. ASSUME NEW i \in 1..Len(t), NEW j \in 1..Len(t), t[i].id = t[j].id
        PROVE  i = j
    <3>1. i + (Len(s) - MaxStored) = j + (Len(s) - MaxStored)
      BY <2>5, <2>6, <2>8 DEF Sound
    <3>2. i \in Nat /\ j \in Nat
      BY <1>0, <2>5
    <3> QED
      BY <1>0, <3>1, <3>2
  <2>9. Sound(t, made, back)
    BY <2>5, <2>7, <2>8 DEF Sound
  <2> QED
    BY <1>0, <2>4, <2>5, <2>9
<1> QED
  BY <1>1, <1>2

LEMMA AppendSound ==
    ASSUME NEW s, NEW made \in Nat, NEW back, Sound(s, made, back),
           NEW p, PlanOK(p), p.id \in 1..made, p.id \in back => Done(p),
           \A i \in 1..Len(s) : s[i].id # p.id
    PROVE  Sound(Append(s, p), made, back) /\ Len(Append(s, p)) = Len(s) + 1
<1> DEFINE t == Append(s, p)
<1>1. s \in Seq(AnyPlan) /\ p \in AnyPlan /\ Len(s) \in Nat
  BY LenProperties DEF Sound, PlanOK
<1>2. /\ t \in Seq(AnyPlan) /\ Len(t) = Len(s) + 1 /\ t[Len(s) + 1] = p
      /\ \A i \in 1..Len(s) : t[i] = s[i]
  BY <1>1, AppendProperties
<1> HIDE DEF t
<1>3. \A i \in 1..Len(t) : i \in 1..Len(s) \/ i = Len(s) + 1
  BY <1>1, <1>2
<1>4. \A i \in 1..Len(t) : /\ PlanOK(t[i]) /\ t[i].id \in 1..made
                           /\ t[i].id \in back => Done(t[i])
  BY <1>2, <1>3 DEF Sound
<1>5. \A i, j \in 1..Len(t) : t[i].id = t[j].id => i = j
  BY <1>2, <1>3 DEF Sound
<1> QED
  BY <1>2, <1>4, <1>5 DEF Sound, t

LEMMA ReplaceSound ==
    ASSUME NEW s, NEW made \in Nat, NEW back, Sound(s, made, back),
           NEW p, PlanOK(p), p.id \in 1..made, p.id \in back => Done(p),
           NEW k \in 1..Len(s), s[k].id = p.id
    PROVE  Sound(ReplaceAt(s, k, p), made, back) /\ Len(ReplaceAt(s, k, p)) = Len(s)
<1> DEFINE t == [s EXCEPT ![k] = p]
<1>1. s \in Seq(AnyPlan) /\ p \in AnyPlan
  BY DEF Sound, PlanOK
<1>2. /\ t \in Seq(AnyPlan) /\ Len(t) = Len(s)
      /\ \A i \in 1..Len(s) : t[i] = IF i = k THEN p ELSE s[i]
  BY <1>1, ExceptSeq
<1> HIDE DEF t
<1>3. \A i \in 1..Len(t) : /\ PlanOK(t[i]) /\ t[i].id \in 1..made
                           /\ t[i].id \in back => Done(t[i])
  BY <1>2 DEF Sound
<1>4. \A i \in 1..Len(t) : t[i].id = s[i].id
  BY <1>2
<1>5. \A i, j \in 1..Len(t) : t[i].id = t[j].id => i = j
  BY <1>2, <1>4 DEF Sound
<1>6. Sound(t, made, back)
  BY <1>2, <1>3, <1>5 DEF Sound
<1> QED
  BY <1>2, <1>6 DEF ReplaceAt, t

\* Plans written back meanwhile, and plans made meanwhile.
LEMMA SoundWith ==
    ASSUME NEW s, NEW made \in Nat, NEW back, Sound(s, made, back), NEW more \in Nat, made <= more,
           NEW id, \A i \in 1..Len(s) : s[i].id = id => Done(s[i])
    PROVE  Sound(s, more, back \cup {id}) /\ Sound(s, more, back)
<1>1. \A n : n \in 1..made => n \in 1..more
  OBVIOUS
<1> QED
  BY <1>1 DEF Sound

-----------------------------------------------------------------------------
(* What a step of one thread changes and leaves alone.                      *)

LEMMA BoundFacts ==
    /\ MaxStored \in Nat /\ MaxStored # 0 /\ MaxRuns \in Nat /\ MaxFaults \in Nat
    /\ MaxPlans \in Nat /\ IsFiniteSet(Threads)
<1>1. MaxPlans \in Nat
  BY TasksAssumption, LenProperties DEF MaxPlans
<1> QED
  BY <1>1, TasksAssumption

LEMMA ActiveFacts ==
    IsFiniteSet(Active) /\ Cardinality(Active) \in Nat
<1>1. Active \in SUBSET Threads
  BY DEF Active
<1> QED
  BY <1>1, BoundFacts, FS_Subset, FS_CardinalityType

\* The store's types follow from what is said of its contents.
LEMMA StoreTypesNext ==
    ASSUME StoresSound', asked' \in 0..MaxPlans, faults' \in 0..MaxFaults,
           runs' \in Nat, Len(plans') <= MaxStored + runs'
    PROVE  StoreTypes'
<1>1. /\ Sound(plans', asked', closed') /\ Sound(file', asked', closedInFile')
      /\ closed' \subseteq 1..asked' /\ closedInFile' \subseteq 1..asked' /\ Len(file') <= MaxStored
  BY DEF StoresSound
<1>2. \A n : n \in 1..asked' => n \in 1..MaxPlans /\ n # NoPlan
  BY BoundFacts DEF NoPlan
<1>3. /\ plans' \in Seq(AnyPlan) /\ DOMAIN plans' = 1..Len(plans')
      /\ file' \in Seq(AnyPlan) /\ DOMAIN file' = 1..Len(file')
  BY <1>1, LenProperties DEF Sound
<1>4. \A i, j \in DOMAIN plans' : /\ PlanOK(plans'[i]) /\ plans'[i].id # NoPlan
                                  /\ plans'[i].id = plans'[j].id => i = j
  BY <1>1, <1>2, <1>3 DEF Sound
<1>5. \A i, j \in DOMAIN file' : /\ PlanOK(file'[i]) /\ file'[i].id # NoPlan
                                 /\ file'[i].id = file'[j].id => i = j
  BY <1>1, <1>2, <1>3 DEF Sound
<1>6. closed' \subseteq 1..MaxPlans /\ closedInFile' \subseteq 1..MaxPlans
  BY <1>1, <1>2
<1>7. \A s \in {plans', file'} : \A i, j \in DOMAIN s :
          PlanOK(s[i]) /\ s[i].id # NoPlan /\ (s[i].id = s[j].id => i = j)
  BY <1>4, <1>5
<1> QED
  BY <1>1, <1>3, <1>6, <1>7 DEF StoreTypes

LEMMA StoreKept ==
    ASSUME IInv, UNCHANGED <<store, closed, closedInFile, faults>>, runs' \in 0..MaxRuns,
           runs <= runs', Cardinality(Active') <= Cardinality(Active) + (runs' - runs)
    PROVE  StoreTypes' /\ StoresSound' /\ StoreBounded'
<1>1. plans' = plans /\ file' = file /\ asked' = asked
  BY DEF store
<1>2. StoresSound'
  BY <1>1 DEF IInv, StoresSound
<1>3. runs \in Nat /\ runs' \in Nat /\ Len(plans) \in Nat /\ Len(plans) <= MaxStored + runs
  BY LenProperties, BoundFacts DEF IInv, TypeOK, StoreTypes, ThreadTypes
<1>4. StoreTypes'
  <2>1. Len(plans') <= MaxStored + runs'
    BY <1>1, <1>3, BoundFacts
  <2>2. asked' \in 0..MaxPlans /\ faults' \in 0..MaxFaults
    BY <1>1 DEF IInv, TypeOK, StoreTypes
  <2> QED
    BY <1>2, <1>3, <2>1, <2>2, StoreTypesNext
<1>5. StoreBounded'
  <2>1. Cardinality(Active) \in Nat /\ Cardinality(Active') \in Nat
    <3>1. Active' \in SUBSET Threads
      BY DEF Active
    <3> QED
      BY <3>1, ActiveFacts, BoundFacts, FS_Subset, FS_CardinalityType
  <2>2. /\ Cardinality(Active) <= runs
        /\ Len(plans) + Cardinality(Active) <= MaxStored + runs
    BY DEF IInv, StoreBounded
  <2>3. \A k, l, m, n \in Nat : k <= m /\ l <= k + (n - m) => l <= n
    OBVIOUS
  <2>4. \A k, l, m, n, s, t \in Nat : s + k <= t + m /\ l <= k + (n - m) => s + l <= t + n
    OBVIOUS
  <2>5. Cardinality(Active') <= runs'
    BY <1>3, <2>1, <2>2, <2>3
  <2>6. Len(plans) + Cardinality(Active') <= MaxStored + runs'
    BY <1>3, <2>1, <2>2, <2>4, BoundFacts
  <2> QED
    BY <1>1, <2>5, <2>6 DEF StoreBounded
<1> QED
  BY <1>2, <1>4, <1>5

\* Thread x is at another place, with another state of its plan.
OneThread(x, where, p, a, d) ==
    /\ pc' = [pc EXCEPT ![x] = where] /\ held' = [held EXCEPT ![x] = p]
    /\ at' = [at EXCEPT ![x] = a] /\ wait' = [wait EXCEPT ![x] = d]
    /\ UNCHANGED <<run, grant, runs>>

LEMMA ThreadsKept ==
    ASSUME IInv, NEW x \in Threads, NEW where \in {"step", "call", "sleep"}, NEW p, NEW a, NEW d \in Nat,
           OneThread(x, where, p, a, d), pc[x] # "idle", PlanOK(p), asked' = asked,
           Execution(where, p, a, grant[x], asked)
    PROVE  ThreadTypes' /\ ExecutionsSound' /\ Active' = Active
<1>1. /\ pc \in [Threads -> {"idle", "step", "call", "sleep"}]
      /\ held \in [Threads -> AnyPlan] /\ at \in [Threads -> Nat] /\ wait \in [Threads -> Nat]
      /\ run \in [Threads -> 0..MaxRuns] /\ runs \in 0..MaxRuns
      /\ grant \in [Threads -> [confirmed : BOOLEAN, late : BOOLEAN]]
      /\ \A y \in Threads : PlanOK(held[y]) /\ at[y] <= Len(held[y].steps) + 1 /\ run[y] <= runs
  BY DEF IInv, TypeOK, ThreadTypes
<1>2. /\ \A y \in Threads : /\ pc'[y] = IF y = x THEN where ELSE pc[y]
                            /\ held'[y] = IF y = x THEN p ELSE held[y]
                            /\ at'[y] = IF y = x THEN a ELSE at[y]
      /\ run' = run /\ grant' = grant /\ runs' = runs
  BY <1>1 DEF OneThread
<1>3. p \in AnyPlan /\ Len(p.steps) \in Nat /\ a \in Nat /\ a <= Len(p.steps) + 1
  <2>1. p \in AnyPlan
    BY DEF PlanOK
  <2>2. Len(p.steps) \in Nat /\ a \in 1..(Len(p.steps) + 1)
    BY <2>1, PlanFacts DEF Execution
  <2> QED
    BY <2>1, <2>2
<1>4. ThreadTypes'
  <2>1. pc' \in [Threads -> {"idle", "step", "call", "sleep"}]
    BY <1>1 DEF OneThread
  <2>2. held' \in [Threads -> AnyPlan] /\ at' \in [Threads -> Nat] /\ wait' \in [Threads -> Nat]
    BY <1>1, <1>3 DEF OneThread
  <2>3. \A y \in Threads : PlanOK(held'[y]) /\ at'[y] <= Len(held'[y].steps) + 1 /\ run'[y] <= runs'
    BY <1>1, <1>2, <1>3
  <2> QED
    BY <1>1, <1>2, <2>1, <2>2, <2>3 DEF ThreadTypes
<1>5. \A y \in Threads : pc'[y] # "idle" <=> pc[y] # "idle"
  BY <1>2
<1>6. ExecutionsSound'
  <2>1. \A y \in Threads : pc[y] # "idle" => Execution(pc[y], held[y], at[y], grant[y], asked)
    BY DEF IInv, ExecutionsSound
  <2>2. \A y \in Threads : pc'[y] # "idle" => Execution(pc'[y], held'[y], at'[y], grant'[y], asked')
    BY <1>2, <2>1
  <2>3. \A y, z \in Threads : pc'[y] # "idle" /\ pc'[z] # "idle" /\ run'[y] = run'[z] => y = z
    BY <1>2, <1>5 DEF IInv, ExecutionsSound
  <2> QED
    BY <2>2, <2>3 DEF ExecutionsSound
<1> QED
  BY <1>4, <1>5, <1>6 DEF Active

\* The motions go on; thread x sleeps long enough, or has none.
LEMMA MotionsKept ==
    ASSUME IInv, NEW x \in Threads, NEW where, NEW p, NEW a, NEW d \in Nat,
           OneThread(x, where, p, a, d), UNCHANGED motion,
           \A r \in Robots : Covered(where, run[x], a, d, motion[r])
    PROVE  MotionsSound'
<1>1. /\ pc \in [Threads -> {"idle", "step", "call", "sleep"}]
      /\ at \in [Threads -> Nat] /\ wait \in [Threads -> Nat]
  BY DEF IInv, TypeOK, ThreadTypes
<1>2. /\ \A y \in Threads : /\ pc'[y] = IF y = x THEN where ELSE pc[y]
                            /\ at'[y] = IF y = x THEN a ELSE at[y]
                            /\ wait'[y] = IF y = x THEN d ELSE wait[y]
      /\ run' = run /\ motion' = motion
  BY <1>1 DEF OneThread
<1>3. \A y \in Threads, r \in Robots :
          pc[y] # "idle" => Covered(pc[y], run[y], at[y], wait[y], motion[r])
  BY DEF IInv, MotionsSound
<1>4. \A y \in Threads, r \in Robots :
          pc'[y] # "idle" => Covered(pc'[y], run'[y], at'[y], wait'[y], motion'[r])
  BY <1>2, <1>3
<1> QED
  BY <1>4 DEF MotionsSound

\* A thread that is at a step has no motion to wait for.
LEMMA NoneToWaitFor ==
    ASSUME IInv, NEW x \in Threads, pc[x] = "step", NEW where, NEW a, NEW d
    PROVE  \A r \in Robots : Covered(where, run[x], a, d, motion[r])
<1>1. \A r \in Robots : Covered("step", run[x], at[x], wait[x], motion[r])
  BY DEF IInv, MotionsSound
<1> QED
  BY <1>1 DEF Covered

LEMMA HistoryKept ==
    ASSUME IInv, UNCHANGED <<motion, ran, runs>>
    PROVE  MotionTypes' /\ ConfirmedBeforeMoving' /\ NoStepAfterWriteBack'
  BY DEF IInv, TypeOK, MotionTypes, ConfirmedBeforeMoving, NoStepAfterWriteBack

-----------------------------------------------------------------------------
(* The steps of an execution.                                               *)

LEMMA ThreadFacts ==
    ASSUME IInv, NEW x \in Threads, pc[x] # "idle"
    PROVE  /\ Execution(pc[x], held[x], at[x], grant[x], asked)
           /\ PlanOK(held[x]) /\ held[x] \in AnyPlan
           /\ at[x] \in Nat /\ at[x] >= 1 /\ Len(held[x].steps) \in Nat
           /\ wait[x] \in Nat /\ run[x] \in 0..MaxRuns /\ runs \in 0..MaxRuns
           /\ asked \in 0..MaxPlans
<1>1. Execution(pc[x], held[x], at[x], grant[x], asked)
  BY DEF IInv, ExecutionsSound
<1>2. /\ PlanOK(held[x]) /\ held[x] \in AnyPlan /\ wait[x] \in Nat /\ at[x] \in Nat
      /\ run[x] \in 0..MaxRuns /\ runs \in 0..MaxRuns /\ asked \in 0..MaxPlans
  BY DEF IInv, TypeOK, ThreadTypes, StoreTypes
<1>3. Len(held[x].steps) \in Nat
  BY <1>2, PlanFacts
<1>4. at[x] >= 1
  BY <1>1, <1>3 DEF Execution
<1> QED
  BY <1>1, <1>2, <1>3, <1>4

\* The step a thread is at.
LEMMA CurrentFacts ==
    ASSUME IInv, NEW x \in Threads, pc[x] # "idle", at[x] <= Len(held[x].steps)
    PROVE  /\ at[x] \in 1..Len(held[x].steps) /\ Current(x) \in AnyStep
           /\ StepTicks(Current(x)) \in Nat
           /\ EffectiveTicks(StepTicks(Current(x)), Current(x).robots) \in Nat
           /\ \A taken : StepDelay(Current(x), taken) \in Nat
<1>1. at[x] \in 1..Len(held[x].steps)
  BY ThreadFacts
<1>2. Current(x) \in AnyStep
  BY <1>1, ThreadFacts, PlanFacts DEF Current
<1>3. Current(x).ticks \in Nat /\ Current(x).turn \in BOOLEAN
  BY <1>2 DEF AnyStep
<1>4. StepTicks(Current(x)) \in Nat
  BY <1>3, BoundedTypes DEF StepTicks, Second
<1>5. \A t \in Nat : EffectiveTicks(t, Current(x).robots) \in Nat
  BY DEF EffectiveTicks, Clamp, Second
<1>6. \A taken : StepDelay(Current(x), taken) \in Nat
  BY <1>3, <1>4, <1>5 DEF StepDelay, Settle
<1> QED
  BY <1>1, <1>2, <1>4, <1>5, <1>6

\* The state of the plan, and the place of the thread, after a step has ended.
Ended(x, ok) == [held[x] EXCEPT !.steps[at[x]].status = Outcome(ok)]
PlaceAfter(delay) == IF delay > 0 THEN "sleep" ELSE "step"
StepAfter(x, delay) == IF delay > 0 THEN at[x] ELSE at[x] + 1

LEMMA FinishKeeps ==
    ASSUME IInv, NEW x \in Threads, NEW ok \in BOOLEAN, NEW delay \in Nat,
           pc[x] \in {"step", "call"}, at[x] <= Len(held[x].steps), Finish(x, ok, delay)
    PROVE  /\ OneThread(x, PlaceAfter(delay), Ended(x, ok), StepAfter(x, delay), delay)
           /\ StoreTypes' /\ StoresSound' /\ StoreBounded' /\ ThreadTypes' /\ ExecutionsSound'
<1> DEFINE p == held[x]
           q == Ended(x, ok)
           k == at[x]
<1>1. /\ Execution(pc[x], p, k, grant[x], asked) /\ PlanOK(p) /\ k \in 1..Len(p.steps)
      /\ Len(p.steps) \in Nat
  BY ThreadFacts, CurrentFacts
<1>2. Outcome(ok) \in Statuses /\ Outcome(ok) # "planned"
  BY DEF Outcome, Statuses
<1>3. /\ PlanOK(q) /\ q.id = p.id /\ q.confirm = p.confirm /\ Len(q.steps) = Len(p.steps)
      /\ \A j \in 1..Len(p.steps) : j # k => q.steps[j] = p.steps[j]
      /\ q.steps[k].status = Outcome(ok)
  <2>1. q = [p EXCEPT !.steps[k].status = Outcome(ok)]
    BY DEF Ended
  <2> HIDE DEF q, p, k
  <2> QED
    BY <1>1, <1>2, <2>1, StepEnded
<1>4. OneThread(x, PlaceAfter(delay), q, StepAfter(x, delay), delay)
  <2>1. at' = [at EXCEPT ![x] = StepAfter(x, delay)]
    BY DEF Finish, StepAfter
  <2>2. pc' = [pc EXCEPT ![x] = PlaceAfter(delay)] /\ wait' = [wait EXCEPT ![x] = delay]
    BY DEF Finish, PlaceAfter
  <2>3. held' = [held EXCEPT ![x] = q]
    BY DEF Finish, Ended
  <2>4. UNCHANGED <<run, grant, runs>>
    BY DEF Finish
  <2> QED
    BY <2>1, <2>2, <2>3, <2>4 DEF OneThread
<1> HIDE DEF q
<1>5. Execution(PlaceAfter(delay), q, StepAfter(x, delay), grant[x], asked)
  <2>1. q.id \in 1..asked /\ (q.confirm => grant[x].confirmed)
    BY <1>1, <1>3 DEF Execution
  <2>2. grant[x].late => Done(q)
    BY <1>1, <1>2, <1>3 DEF Execution, Done
  <2>3. \A j \in 1..k : q.steps[j].status # "planned"
    <3>1. \A j \in 1..k : j = k \/ (j \in 1..(k - 1) /\ j \in 1..Len(p.steps) /\ j # k)
      BY <1>1
    <3>2. \A j \in 1..(k - 1) : p.steps[j].status # "planned"
      BY <1>1 DEF Execution
    <3> QED
      BY <1>2, <1>3, <3>1, <3>2
  <2>4. CASE delay > 0
    <3>1. PlaceAfter(delay) = "sleep" /\ StepAfter(x, delay) = k
      BY <2>4 DEF PlaceAfter, StepAfter
    <3>2. k \in 1..(Len(q.steps) + 1) /\ k <= Len(q.steps) /\ k \in 1..k
      BY <1>1, <1>3
    <3>3. \A j \in 1..(k - 1) : j \in 1..k
      BY <1>1
    <3> QED
      BY <2>1, <2>2, <2>3, <3>1, <3>2, <3>3 DEF Execution
  <2>5. CASE ~(delay > 0)
    <3>1. PlaceAfter(delay) = "step" /\ StepAfter(x, delay) = k + 1
      BY <2>5 DEF PlaceAfter, StepAfter
    <3>2. k + 1 \in 1..(Len(q.steps) + 1)
      BY <1>1, <1>3
    <3>3. \A j \in 1..((k + 1) - 1) : j \in 1..k
      BY <1>1
    <3> QED
      BY <2>1, <2>2, <2>3, <3>1, <3>2, <3>3 DEF Execution
  <2> QED
    BY <2>4, <2>5
<1>6. ThreadTypes' /\ ExecutionsSound' /\ Active' = Active
  <2>1. PlaceAfter(delay) \in {"step", "call", "sleep"} /\ pc[x] # "idle"
    BY DEF PlaceAfter
  <2>2. asked' = asked
    BY DEF Finish, store
  <2> QED
    BY <1>3, <1>4, <1>5, <2>1, <2>2, ThreadsKept
<1>7. StoreTypes' /\ StoresSound' /\ StoreBounded'
  <2>1. UNCHANGED <<store, closed, closedInFile, faults>> /\ runs' = runs
    BY DEF Finish
  <2>2. runs \in 0..MaxRuns /\ runs \in Nat /\ Cardinality(Active) \in Nat
    BY ThreadFacts, ActiveFacts, BoundFacts
  <2>3. Cardinality(Active') <= Cardinality(Active) + (runs' - runs)
    BY <1>6, <2>1, <2>2
  <2> QED
    BY <2>1, <2>2, <2>3, StoreKept
<1> QED
  BY <1>4, <1>6, <1>7 DEF q

\* Calls to the bridges: only the robots they reach move otherwise, and none of
\* those had a motion the thread waits for.
LEMMA MovesKeep ==
    ASSUME IInv, NEW x \in Threads, pc[x] = "step", at[x] <= Len(held[x].steps),
           Current(x).tool \in DirectRosTools, NEW call \in Calls(x), NEW ticks \in Nat,
           Moves(x, call, ticks), NEW where, NEW p, NEW a, NEW d \in Nat,
           OneThread(x, where, p, a, d),
           \A r \in call[1] : Covered(where, run[x], a, d,
                [run |-> run[x], step |-> at[x], tool |-> Current(x).tool, left |-> ticks,
                 acked |-> r \in call[2]])
    PROVE  /\ MotionsSound'
           /\ motion' \in [Robots -> [run : 0..MaxRuns, step : Nat,
                                      tool : DirectRosTools \cup {"none"}, left : Nat,
                                      acked : BOOLEAN]]
           /\ \A r \in Robots : motion'[r].run <= runs'
<1> DEFINE new(r) == [run |-> run[x], step |-> at[x], tool |-> Current(x).tool, left |-> ticks,
                      acked |-> r \in call[2]]
           M == [run : 0..MaxRuns, step : Nat, tool : DirectRosTools \cup {"none"}, left : Nat,
                 acked : BOOLEAN]
<1>1. motion' = [r \in Robots |-> IF r \in call[1] THEN new(r) ELSE motion[r]]
  BY DEF Moves
<1>2. \A r \in Robots : new(r) \in M /\ new(r).run = run[x]
  BY ThreadFacts
<1>3. motion \in [Robots -> M] /\ \A r \in Robots : motion[r].run <= runs
  BY DEF IInv, TypeOK, MotionTypes
<1>4. run[x] <= runs /\ runs' = runs
  BY DEF IInv, TypeOK, ThreadTypes, OneThread
<1>5. \A r \in Robots : motion'[r] = IF r \in call[1] THEN new(r) ELSE motion[r]
  BY <1>1
<1> HIDE DEF new, M
<1>6. motion' \in [Robots -> M] /\ \A r \in Robots : motion'[r].run <= runs'
  BY <1>1, <1>2, <1>3, <1>4, <1>5
<1>7. MotionsSound'
  <2>1. /\ \A y \in Threads : /\ pc'[y] = IF y = x THEN where ELSE pc[y]
                              /\ at'[y] = IF y = x THEN a ELSE at[y]
                              /\ wait'[y] = IF y = x THEN d ELSE wait[y]
        /\ run' = run
    BY DEF IInv, TypeOK, ThreadTypes, OneThread
  <2>2. \A y \in Threads, r \in Robots :
            pc[y] # "idle" => Covered(pc[y], run[y], at[y], wait[y], motion[r])
    BY DEF IInv, MotionsSound
  <2>3. \A r \in Robots : Covered(where, run[x], a, d, motion[r])
    BY NoneToWaitFor
  <2>4. \A y \in Threads : y # x /\ pc[y] # "idle" => run[y] # run[x]
    BY DEF IInv, ExecutionsSound
  <2>5. \A y \in Threads, r \in Robots : y # x /\ pc[y] # "idle" =>
            Covered(pc[y], run[y], at[y], wait[y], new(r))
    BY <1>2, <2>4 DEF Covered
  <2>6. \A r \in call[1] : Covered(where, run[x], a, d, new(r))
    BY DEF new
  <2>7. \A y \in Threads, r \in Robots :
            pc'[y] # "idle" => Covered(pc'[y], run'[y], at'[y], wait'[y], motion'[r])
    BY <1>5, <2>1, <2>2, <2>3, <2>5, <2>6
  <2> QED
    BY <2>7 DEF MotionsSound
<1> QED
  BY <1>6, <1>7 DEF M

\* What is recorded has been confirmed, if it must be, and is not late.
LEMMA RecordKeeps ==
    ASSUME IInv, NEW x \in Threads, NEW tools \in SUBSET Tools, At(x, tools), Record(x)
    PROVE  /\ ran' \subseteq [plan : 1..MaxPlans, step : Nat, tool : Tools, confirmed : BOOLEAN,
                              late : BOOLEAN]
           /\ ConfirmedBeforeMoving' /\ NoStepAfterWriteBack'
<1> DEFINE e == [plan |-> held[x].id, step |-> at[x], tool |-> Current(x).tool,
                 confirmed |-> grant[x].confirmed, late |-> grant[x].late]
           p == held[x]
           k == at[x]
<1>1. /\ Execution(pc[x], p, k, grant[x], asked) /\ PlanOK(p) /\ k \in 1..Len(p.steps)
      /\ k \in Nat /\ asked \in 0..MaxPlans /\ p \in AnyPlan
      /\ Current(x).tool \in tools /\ Current(x).status = "planned"
      /\ grant[x] \in [confirmed : BOOLEAN, late : BOOLEAN]
  BY ThreadFacts, CurrentFacts DEF At, IInv, TypeOK, ThreadTypes
<1>2. p.id \in 1..MaxPlans
  BY <1>1, BoundFacts DEF Execution
<1>3. ~grant[x].late
  BY <1>1 DEF Execution, Done, Current
<1>4. NeedsConfirmation(Current(x).tool) => grant[x].confirmed
  <2>1. k \in DOMAIN p.steps
    BY <1>1, PlanFacts
  <2>2. NeedsConfirmation(Current(x).tool) => p.confirm
    BY <1>1, <2>1 DEF Current, PlanOK, RequiresConfirmation
  <2> QED
    BY <1>1, <2>2 DEF Execution
<1>5. /\ e \in [plan : 1..MaxPlans, step : Nat, tool : Tools, confirmed : BOOLEAN, late : BOOLEAN]
      /\ e.tool = Current(x).tool /\ e.confirmed = grant[x].confirmed /\ e.late = grant[x].late
  BY <1>1, <1>2
<1>6. ran' = ran \cup {e}
  BY DEF Record
<1> HIDE DEF e
<1> QED
  BY <1>3, <1>4, <1>5, <1>6 DEF IInv, TypeOK, MotionTypes, ConfirmedBeforeMoving, NoStepAfterWriteBack

\* A step that neither moves a robot nor leaves anything in the history.
LEMMA QuietKeeps ==
    ASSUME IInv, NEW x \in Threads, NEW where \in {"step", "call", "sleep"}, NEW p, NEW a, NEW d \in Nat,
           OneThread(x, where, p, a, d), pc[x] # "idle", PlanOK(p),
           Execution(where, p, a, grant[x], asked), UNCHANGED <<store, motion, history>>,
           \A r \in Robots : Covered(where, run[x], a, d, motion[r])
    PROVE  IInv'
<1>1. asked' = asked /\ runs' = runs /\ UNCHANGED <<motion, ran, closed, closedInFile, faults>>
  BY DEF store, history, OneThread
<1>2. ThreadTypes' /\ ExecutionsSound' /\ Active' = Active
  BY <1>1, ThreadsKept
<1>3. MotionsSound'
  BY <1>1, MotionsKept
<1>4. MotionTypes' /\ ConfirmedBeforeMoving' /\ NoStepAfterWriteBack'
  BY <1>1, HistoryKept
<1>5. StoreTypes' /\ StoresSound' /\ StoreBounded'
  <2>1. runs' \in 0..MaxRuns /\ runs' \in Nat /\ Cardinality(Active) \in Nat
    BY <1>1, ThreadFacts, ActiveFacts, BoundFacts
  <2>2. Cardinality(Active') <= Cardinality(Active) + (runs' - runs) /\ runs <= runs'
    BY <1>1, <1>2, <2>1
  <2> QED
    BY <1>1, <2>1, <2>2, StoreKept
<1> QED
  BY <1>2, <1>3, <1>4, <1>5 DEF IInv, TypeOK

\* A step that ends without having moved a robot, recorded or not.
LEMMA EndKeeps ==
    ASSUME IInv, NEW x \in Threads, NEW ok \in BOOLEAN, NEW delay \in Nat,
           pc[x] \in {"step", "call"}, at[x] <= Len(held[x].steps), Finish(x, ok, delay),
           UNCHANGED motion,
           \A r \in Robots : Covered(PlaceAfter(delay), run[x], StepAfter(x, delay), delay, motion[r]),
           UNCHANGED ran \/ \E tools \in SUBSET Tools : At(x, tools) /\ Record(x)
    PROVE  IInv'
<1>1. /\ OneThread(x, PlaceAfter(delay), Ended(x, ok), StepAfter(x, delay), delay)
      /\ StoreTypes' /\ StoresSound' /\ StoreBounded' /\ ThreadTypes' /\ ExecutionsSound'
  BY FinishKeeps
<1>2. MotionsSound'
  BY <1>1, MotionsKept
<1>3. runs' = runs
  BY <1>1 DEF OneThread
<1>4. MotionTypes' /\ ConfirmedBeforeMoving' /\ NoStepAfterWriteBack'
  <2>1. CASE UNCHANGED ran
    BY <1>3, <2>1, HistoryKept
  <2>2. CASE \E tools \in SUBSET Tools : At(x, tools) /\ Record(x)
    <3>1. /\ ran' \subseteq [plan : 1..MaxPlans, step : Nat, tool : Tools, confirmed : BOOLEAN,
                             late : BOOLEAN]
          /\ ConfirmedBeforeMoving' /\ NoStepAfterWriteBack'
      BY <2>2, RecordKeeps
    <3> QED
      BY <1>3, <3>1 DEF IInv, TypeOK, MotionTypes
  <2> QED
    BY <2>1, <2>2
<1> QED
  BY <1>1, <1>2, <1>4 DEF IInv, TypeOK

\* A step that moves robots and ends, or waits for them to answer.
LEMMA MoveKeeps ==
    ASSUME IInv, NEW x \in Threads, NEW tools \in SUBSET DirectRosTools, At(x, tools), Record(x),
           NEW call \in Calls(x), NEW ticks \in Nat, Moves(x, call, ticks),
           NEW where, NEW p, NEW a, NEW d \in Nat, OneThread(x, where, p, a, d),
           \A r \in call[1] : Covered(where, run[x], a, d,
                [run |-> run[x], step |-> at[x], tool |-> Current(x).tool, left |-> ticks,
                 acked |-> r \in call[2]]),
           StoreTypes', StoresSound', StoreBounded', ThreadTypes', ExecutionsSound'
    PROVE  IInv'
<1>1. /\ pc[x] = "step" /\ at[x] <= Len(held[x].steps) /\ Current(x).tool \in DirectRosTools
      /\ tools \in SUBSET Tools
  BY DEF At, Tools
<1>2. /\ MotionsSound'
      /\ motion' \in [Robots -> [run : 0..MaxRuns, step : Nat, tool : DirectRosTools \cup {"none"},
                                 left : Nat, acked : BOOLEAN]]
      /\ \A r \in Robots : motion'[r].run <= runs'
  BY <1>1, MovesKeep
<1>3. /\ ran' \subseteq [plan : 1..MaxPlans, step : Nat, tool : Tools, confirmed : BOOLEAN,
                         late : BOOLEAN]
      /\ ConfirmedBeforeMoving' /\ NoStepAfterWriteBack'
  BY <1>1, RecordKeeps
<1>4. MotionTypes'
  BY <1>2, <1>3 DEF MotionTypes
<1> QED
  BY <1>2, <1>3, <1>4 DEF IInv, TypeOK

\* The actions.
LEMMA SkipKeeps ==
    ASSUME IInv, NEW x \in Threads, Skip(x)
    PROVE  IInv'
<1> DEFINE p == held[x]
           a == at[x] + 1
<1>1. /\ Execution(pc[x], p, at[x], grant[x], asked) /\ PlanOK(p) /\ at[x] \in 1..Len(p.steps)
      /\ Len(p.steps) \in Nat /\ at[x] \in Nat /\ wait[x] \in Nat
  BY ThreadFacts, CurrentFacts DEF Skip
<1>2. OneThread(x, "step", p, a, wait[x])
  BY DEF Skip, OneThread, IInv, TypeOK, ThreadTypes
<1>3. Execution("step", p, a, grant[x], asked)
  <2>1. a \in 1..(Len(p.steps) + 1) /\ \A j \in 1..(a - 1) : j \in 1..(at[x] - 1) \/ j = at[x]
    BY <1>1
  <2>2. p.steps[at[x]].status # "planned"
    BY DEF Skip, Current
  <2>3. \A j \in 1..(a - 1) : p.steps[j].status # "planned"
    BY <1>1, <2>1, <2>2 DEF Execution
  <2> QED
    BY <1>1, <2>1, <2>3 DEF Execution
<1>4. \A r \in Robots : Covered("step", run[x], a, wait[x], motion[r])
  BY NoneToWaitFor DEF Skip
<1>5. UNCHANGED <<store, motion, history>> /\ pc[x] # "idle"
  BY DEF Skip
<1> QED
  BY <1>1, <1>2, <1>3, <1>4, <1>5, QuietKeeps

LEMMA WakeKeeps ==
    ASSUME IInv, NEW x \in Threads, Wake(x)
    PROVE  IInv'
<1> DEFINE p == held[x]
           a == at[x] + 1
<1>1. /\ Execution(pc[x], p, at[x], grant[x], asked) /\ PlanOK(p) /\ Len(p.steps) \in Nat
      /\ at[x] \in Nat /\ at[x] >= 1 /\ wait[x] \in Nat
  BY ThreadFacts DEF Wake
<1>2. OneThread(x, "step", p, a, wait[x])
  BY DEF Wake, OneThread, IInv, TypeOK, ThreadTypes
<1>3. Execution("step", p, a, grant[x], asked)
  <2>0. at[x] <= Len(p.steps) /\ p.steps[at[x]].status # "planned"
    BY <1>1 DEF Execution, Wake
  <2>1. a \in 1..(Len(p.steps) + 1) /\ \A j \in 1..(a - 1) : j \in 1..(at[x] - 1) \/ j = at[x]
    BY <1>1, <2>0
  <2>2. \A j \in 1..(a - 1) : p.steps[j].status # "planned"
    BY <1>1, <2>0, <2>1 DEF Execution
  <2> QED
    BY <1>1, <2>1, <2>2 DEF Execution
<1>4. \A r \in Robots : Covered("step", run[x], a, wait[x], motion[r])
  <2>1. \A r \in Robots : Covered("sleep", run[x], at[x], wait[x], motion[r])
    BY DEF IInv, MotionsSound, Wake
  <2>2. \A r \in Robots : motion[r].left \in Nat
    BY DEF IInv, TypeOK, MotionTypes
  <2>3. \A n \in Nat : n > 0 => ~(0 >= n)
    OBVIOUS
  <2> QED
    BY <2>1, <2>2, <2>3 DEF Covered, Wake
<1>5. UNCHANGED <<store, motion, history>> /\ pc[x] # "idle"
  BY DEF Wake
<1> QED
  BY <1>1, <1>2, <1>3, <1>4, <1>5, QuietKeeps

\* A step that ends at once, for whatever reason.
LEMMA EndAtOnceKeeps ==
    ASSUME IInv, NEW x \in Threads, NEW tools \in SUBSET Tools, At(x, tools), NEW ok \in BOOLEAN,
           Finish(x, ok, 0), UNCHANGED motion, UNCHANGED ran \/ Record(x)
    PROVE  IInv'
<1>1. pc[x] = "step" /\ at[x] <= Len(held[x].steps)
  BY DEF At
<1>2. \A r \in Robots : Covered(PlaceAfter(0), run[x], StepAfter(x, 0), 0, motion[r])
  BY <1>1, NoneToWaitFor
<1>3. 0 \in Nat /\ pc[x] \in {"step", "call"}
  BY <1>1
<1>4. UNCHANGED ran \/ \E t \in SUBSET Tools : At(x, t) /\ Record(x)
  OBVIOUS
<1> QED
  BY <1>1, <1>2, <1>3, <1>4, EndKeeps

LEMMA DownlinkKeeps ==
    ASSUME IInv, NEW x \in Threads, NEW tools \in SUBSET Tools, Downlink(x, tools)
    PROVE  IInv'
  BY EndAtOnceKeeps DEF Downlink

LEMMA QuietActionsKeep ==
    ASSUME IInv, NEW x \in Threads,
           \/ Query(x) \/ Rescue(x) \/ Corridor(x) \/ AvoidHazard(x) \/ VerifyOrEscort(x)
           \/ Form(x) \/ PatrolCall(x)
    PROVE  IInv'
<1>1. /\ ReadOnly \in SUBSET Tools
      /\ {"patrol.start_task", "patrol.stop_task"} \in SUBSET Tools
      /\ {"fleet.rescue_approach", "fleet.rescue_search"} \in SUBSET Tools
      /\ {"fleet.corridor_crawl", "fleet.corridor_yield"} \in SUBSET Tools
      /\ {"fleet.hazard_avoidance"} \in SUBSET Tools /\ {"fleet.formation"} \in SUBSET Tools
      /\ {"fleet.plate_verify", "fleet.escort_return"} \in SUBSET Tools
  BY DEF ReadOnly, Tools, Queries, PatrolTools, PatrolTaskTools, DownlinkTools
<1>2. CASE Query(x)
  BY <1>1, <1>2, EndAtOnceKeeps DEF Query
<1>3. CASE PatrolCall(x)
  BY <1>1, <1>3, EndAtOnceKeeps DEF PatrolCall
<1>4. CASE Rescue(x) \/ Corridor(x) \/ AvoidHazard(x) \/ VerifyOrEscort(x) \/ Form(x)
  BY <1>1, <1>4, DownlinkKeeps DEF Rescue, Corridor, AvoidHazard, VerifyOrEscort, Form
<1> QED
  BY <1>2, <1>3, <1>4

LEMMA MotionActionsKeep ==
    ASSUME IInv, NEW x \in Threads, SafetyStop(x) \/ NudgeForward(x) \/ Motion(x)
    PROVE  IInv'
<1> DEFINE new(r, ticks, acks) ==
              [run |-> run[x], step |-> at[x], tool |-> Current(x).tool, left |-> ticks,
               acked |-> r \in acks]
<1>1. /\ pc[x] = "step" /\ at[x] <= Len(held[x].steps) /\ pc[x] # "idle"
      /\ pc[x] \in {"step", "call"}
  BY DEF SafetyStop, NudgeForward, Motion, At
<1>2. /\ StepTicks(Current(x)) \in Nat
      /\ EffectiveTicks(StepTicks(Current(x)), Current(x).robots) \in Nat
      /\ \A taken : StepDelay(Current(x), taken) \in Nat
  BY <1>1, CurrentFacts
<1>3. \A tools \in SUBSET DirectRosTools, ticks \in Nat, delay \in Nat, call \in Calls(x) :
          /\ At(x, tools) /\ Record(x) /\ Moves(x, call, ticks) /\ Finish(x, TRUE, delay)
          /\ \A r \in call[1] : Covered(PlaceAfter(delay), run[x], StepAfter(x, delay), delay,
                                        new(r, ticks, call[2]))
          => IInv'
  <2> SUFFICES ASSUME NEW tools \in SUBSET DirectRosTools, NEW ticks \in Nat, NEW delay \in Nat,
                      NEW call \in Calls(x), At(x, tools), Record(x), Moves(x, call, ticks),
                      Finish(x, TRUE, delay),
                      \A r \in call[1] : Covered(PlaceAfter(delay), run[x], StepAfter(x, delay),
                                                 delay, new(r, ticks, call[2]))
               PROVE  IInv'
    OBVIOUS
  <2>1. /\ OneThread(x, PlaceAfter(delay), Ended(x, TRUE), StepAfter(x, delay), delay)
        /\ StoreTypes' /\ StoresSound' /\ StoreBounded' /\ ThreadTypes' /\ ExecutionsSound'
    BY <1>1, FinishKeeps
  <2> QED
    BY <2>1, MoveKeeps
<1>4. CASE SafetyStop(x)
  <2>1. PICK call \in Calls(x) : Moves(x, call, 0)
    BY <1>4 DEF SafetyStop
  <2>2. \A r \in call[1] : Covered(PlaceAfter(0), run[x], StepAfter(x, 0), 0, new(r, 0, call[2]))
    BY DEF Covered
  <2>3. {"fleet.safety_stop"} \in SUBSET DirectRosTools /\ 0 \in Nat
    BY DEF DirectRosTools
  <2>4. At(x, {"fleet.safety_stop"}) /\ Record(x) /\ Finish(x, TRUE, 0)
    BY <1>4 DEF SafetyStop
  <2> HIDE DEF new
  <2> QED
    BY <1>3, <2>1, <2>2, <2>3, <2>4
<1>5. CASE NudgeForward(x)
  <2> DEFINE ticks == StepTicks(Current(x))
  <2>1. PICK call \in Calls(x) : Moves(x, call, ticks)
    BY <1>5 DEF NudgeForward
  <2>2. Current(x).tool = "fleet.nudge_forward"
    BY <1>5 DEF NudgeForward, At
  <2>3. \A r \in call[1] : Covered(PlaceAfter(0), run[x], StepAfter(x, 0), 0, new(r, ticks, call[2]))
    BY <2>2 DEF Covered
  <2>4. {"fleet.nudge_forward"} \in SUBSET DirectRosTools /\ 0 \in Nat
    BY DEF DirectRosTools
  <2>5. At(x, {"fleet.nudge_forward"}) /\ Record(x) /\ Finish(x, TRUE, 0)
    BY <1>5 DEF NudgeForward
  <2> HIDE DEF new, ticks
  <2> QED
    BY <1>2, <1>3, <2>1, <2>3, <2>4, <2>5 DEF ticks
<1>6. CASE Motion(x)
  <2> DEFINE ticks == EffectiveTicks(StepTicks(Current(x)), Current(x).robots)
  <2>1. PICK call \in Calls(x) : /\ Moves(x, call, ticks)
                                 /\ Finish(x, TRUE, StepDelay(Current(x), call[2]))
    BY <1>6 DEF Motion
  <2> DEFINE delay == StepDelay(Current(x), call[2])
  <2>2. ticks \in Nat /\ delay \in Nat /\ at[x] \in Nat
    BY <1>1, <1>2, ThreadFacts
  <2>3. Current(x).tool = "fleet.motion" /\ ~Current(x).turn
    BY <1>6 DEF Motion, At
  <2>4. call[2] # {} => delay = ticks + Settle
    BY <2>3 DEF StepDelay
  <2>5. \A r \in call[1] : Covered(PlaceAfter(delay), run[x], StepAfter(x, delay), delay,
                                   new(r, ticks, call[2]))
    <3> SUFFICES ASSUME NEW r \in call[1], r \in call[2]
                 PROVE  Covered(PlaceAfter(delay), run[x], StepAfter(x, delay), delay,
                                new(r, ticks, call[2]))
      BY DEF Covered
    <3>1. delay = ticks + Settle
      BY <2>4
    <3> HIDE DEF delay, ticks
    <3>2. delay > 0 /\ delay >= ticks
      BY <2>2, <3>1 DEF Settle
    <3>3. PlaceAfter(delay) = "sleep" /\ StepAfter(x, delay) = at[x]
      BY <3>2 DEF PlaceAfter, StepAfter
    <3> QED
      BY <3>2, <3>3 DEF Covered
  <2>6. {"fleet.motion"} \in SUBSET DirectRosTools
    BY DEF DirectRosTools
  <2>7. At(x, {"fleet.motion"}) /\ Record(x)
    BY <1>6 DEF Motion
  <2>8. Moves(x, call, ticks) /\ Finish(x, TRUE, delay)
    BY <2>1
  <2> HIDE DEF new, ticks, delay
  <2> QED
    BY <1>3, <2>2, <2>5, <2>6, <2>7, <2>8
<1> QED
  BY <1>4, <1>5, <1>6

\* A rotation: the thread waits for the answers of the bridges.
LEMMA RotateKeeps ==
    ASSUME IInv, NEW x \in Threads, Rotate(x)
    PROVE  IInv'
<1> DEFINE p == held[x]
           a == at[x]
           new(r, acks) == [run |-> run[x], step |-> at[x], tool |-> Current(x).tool,
                            left |-> FullTurn, acked |-> r \in acks]
<1>1. /\ pc[x] = "step" /\ pc[x] # "idle" /\ a <= Len(p.steps)
      /\ At(x, {"fleet.motion"}) /\ Record(x)
      /\ {"fleet.motion"} \in SUBSET DirectRosTools
  BY DEF Rotate, At, DirectRosTools
<1>2. /\ Execution(pc[x], p, a, grant[x], asked) /\ PlanOK(p) /\ wait[x] \in Nat
  BY <1>1, ThreadFacts
<1>3. OneThread(x, "call", p, a, wait[x])
  BY DEF Rotate, OneThread, IInv, TypeOK, ThreadTypes
<1>4. Execution("call", p, a, grant[x], asked)
  BY <1>1, <1>2 DEF Execution
<1>5. /\ UNCHANGED <<store, closed, closedInFile, faults>> /\ asked' = asked /\ runs' = runs
  BY DEF Rotate, store
<1> HIDE DEF p, a
<1>6. ThreadTypes' /\ ExecutionsSound' /\ Active' = Active
  <2>1. "call" \in {"step", "call", "sleep"}
    OBVIOUS
  <2> QED
    BY <1>1, <1>2, <1>3, <1>4, <1>5, <2>1, ThreadsKept
<1>7. StoreTypes' /\ StoresSound' /\ StoreBounded'
  <2>1. runs' \in 0..MaxRuns /\ runs' \in Nat /\ Cardinality(Active) \in Nat
    BY <1>1, <1>5, ThreadFacts, ActiveFacts, BoundFacts
  <2>2. Cardinality(Active') <= Cardinality(Active) + (runs' - runs) /\ runs <= runs'
    BY <1>5, <1>6, <2>1
  <2> QED
    BY <1>5, <2>1, <2>2, StoreKept
<1>8. PICK call \in Calls(x) : Moves(x, call, FullTurn)
  BY DEF Rotate
<1>9. \A r \in call[1] : Covered("call", run[x], a, wait[x], new(r, call[2]))
  BY DEF Covered, a
<1>10. FullTurn \in Nat
  BY DEF FullTurn, Second
<1> HIDE DEF new
<1>11. \A r \in call[1] : Covered("call", run[x], a, wait[x],
          [run |-> run[x], step |-> at[x], tool |-> Current(x).tool, left |-> FullTurn,
           acked |-> r \in call[2]])
  BY <1>9 DEF new
<1> QED
  BY <1>1, <1>2, <1>3, <1>6, <1>7, <1>8, <1>10, <1>11, MoveKeeps

\* The bridges answer when the rotation has ended.
LEMMA RotateReturnsKeeps ==
    ASSUME IInv, NEW x \in Threads, RotateReturns(x)
    PROVE  IInv'
<1> DEFINE delay == StepDelay(Current(x), {})
<1>1. pc[x] = "call" /\ pc[x] # "idle" /\ pc[x] \in {"step", "call"}
  BY DEF RotateReturns
<1>2. at[x] <= Len(held[x].steps)
  BY <1>1, ThreadFacts DEF Execution
<1>3. delay \in Nat
  BY <1>1, <1>2, CurrentFacts
<1>4. Finish(x, TRUE, delay) /\ UNCHANGED motion /\ UNCHANGED ran
  BY DEF RotateReturns
<1> HIDE DEF delay
<1>5. \A r \in Robots : Covered(PlaceAfter(delay), run[x], StepAfter(x, delay), delay, motion[r])
  <2>1. \A r \in Robots : Covered("call", run[x], at[x], wait[x], motion[r])
    BY <1>1 DEF IInv, MotionsSound
  <2>2. \A r \in Robots : motion[r].run = run[x] /\ motion[r].step = at[x] => motion[r].left = 0
    BY DEF RotateReturns
  <2>3. ~(0 > 0)
    OBVIOUS
  <2> QED
    BY <2>1, <2>2, <2>3 DEF Covered
<1> QED
  BY <1>1, <1>2, <1>3, <1>4, <1>5, EndKeeps

\* A thread takes a plan: its execution has a number of its own.
LEMMA TakeKeeps ==
    ASSUME IInv, NEW x \in Threads, Take(x)
    PROVE  IInv'
<1>1. PICK i \in DOMAIN plans, confirmed \in BOOLEAN :
          /\ MayExecute(plans[i], confirmed)
          /\ held' = [held EXCEPT ![x] = plans[i]]
          /\ grant' = [grant EXCEPT ![x] = [confirmed |-> confirmed, late |-> plans[i].id \in closed]]
  BY DEF Take
<1> DEFINE p == plans[i]
           g == [confirmed |-> confirmed, late |-> p.id \in closed]
<1>2. /\ pc[x] = "idle" /\ runs < MaxRuns /\ runs' = runs + 1
      /\ run' = [run EXCEPT ![x] = runs + 1] /\ pc' = [pc EXCEPT ![x] = "step"]
      /\ at' = [at EXCEPT ![x] = 1] /\ UNCHANGED <<store, wait, motion, history>>
  BY DEF Take
<1>3. /\ pc \in [Threads -> {"idle", "step", "call", "sleep"}]
      /\ held \in [Threads -> AnyPlan] /\ at \in [Threads -> Nat] /\ wait \in [Threads -> Nat]
      /\ run \in [Threads -> 0..MaxRuns] /\ runs \in 0..MaxRuns
      /\ grant \in [Threads -> [confirmed : BOOLEAN, late : BOOLEAN]]
      /\ \A y \in Threads : PlanOK(held[y]) /\ at[y] <= Len(held[y].steps) + 1 /\ run[y] <= runs
  BY DEF IInv, TypeOK, ThreadTypes
<1>4. /\ PlanOK(p) /\ p \in AnyPlan /\ p.id \in 1..asked /\ (p.id \in closed => Done(p))
      /\ Len(p.steps) \in Nat
  <2>1. Sound(plans, asked, closed)
    BY DEF IInv, StoresSound
  <2>2. i \in 1..Len(plans)
    BY <2>1, LenProperties DEF Sound
  <2>3. PlanOK(p) /\ p.id \in 1..asked /\ (p.id \in closed => Done(p))
    BY <2>1, <2>2 DEF Sound
  <2> QED
    BY <2>3, PlanFacts DEF PlanOK
<1>5. MayExecute(p, confirmed)
  BY <1>1
<1>6. held' = [held EXCEPT ![x] = p] /\ grant' = [grant EXCEPT ![x] = g]
  BY <1>1
<1>7. g \in [confirmed : BOOLEAN, late : BOOLEAN] /\ g.confirmed = confirmed /\ g.late = (p.id \in closed)
  OBVIOUS
<1> HIDE DEF p, g
<1>8. \A y \in Threads : /\ pc'[y] = IF y = x THEN "step" ELSE pc[y]
                         /\ held'[y] = IF y = x THEN p ELSE held[y]
                         /\ at'[y] = IF y = x THEN 1 ELSE at[y]
                         /\ run'[y] = IF y = x THEN runs + 1 ELSE run[y]
                         /\ grant'[y] = IF y = x THEN g ELSE grant[y]
                         /\ wait'[y] = wait[y]
  BY <1>2, <1>3, <1>6
<1>9. runs \in Nat /\ runs' \in Nat /\ runs' \in 0..MaxRuns /\ runs <= runs' /\ runs' - runs = 1
  BY <1>2, <1>3, BoundFacts
<1>10. asked' = asked /\ UNCHANGED <<motion, ran, closed, closedInFile, faults>>
  BY <1>2 DEF store, history
<1>11. ThreadTypes'
  <2>1. pc' \in [Threads -> {"idle", "step", "call", "sleep"}] /\ held' \in [Threads -> AnyPlan]
    BY <1>2, <1>3, <1>4, <1>6
  <2>2. at' \in [Threads -> Nat] /\ wait' \in [Threads -> Nat]
    BY <1>2, <1>3
  <2>3. run' \in [Threads -> 0..MaxRuns]
    <3>1. runs + 1 \in 0..MaxRuns
      BY <1>2, <1>9
    <3> QED
      BY <1>2, <1>3, <3>1
  <2>4. grant' \in [Threads -> [confirmed : BOOLEAN, late : BOOLEAN]]
    BY <1>3, <1>6, <1>7
  <2>5. \A y \in Threads : PlanOK(held'[y]) /\ at'[y] <= Len(held'[y].steps) + 1 /\ run'[y] <= runs'
    <3> TAKE y \in Threads
    <3>1. CASE y = x
      BY <1>2, <1>4, <1>8, <1>9, <3>1
    <3>2. CASE y # x
      <4>1. run[y] <= runs /\ run[y] \in Nat
        BY <1>3, BoundFacts
      <4>2. run[y] <= runs'
        BY <1>9, <4>1, <1>2
      <4> QED
        BY <1>3, <1>8, <3>2, <4>2
    <3> QED
      BY <3>1, <3>2
  <2> QED
    BY <1>9, <2>1, <2>2, <2>3, <2>4, <2>5 DEF ThreadTypes
<1>12. Execution("step", p, 1, g, asked)
  <2>1. 1 \in 1..(Len(p.steps) + 1) /\ \A j \in 1..(1 - 1) : FALSE
    BY <1>4
  <2> QED
    BY <1>4, <1>5, <1>7, <2>1 DEF Execution, MayExecute
<1>13. ExecutionsSound'
  <2>1. \A y \in Threads : pc[y] # "idle" => Execution(pc[y], held[y], at[y], grant[y], asked)
    BY DEF IInv, ExecutionsSound
  <2>2. \A y \in Threads : pc'[y] # "idle" => Execution(pc'[y], held'[y], at'[y], grant'[y], asked')
    BY <1>8, <1>10, <1>12, <2>1
  <2>3. \A y \in Threads : run[y] # runs + 1
    <3>1. \A y \in Threads : run[y] <= runs /\ run[y] \in Nat
      BY <1>3, BoundFacts
    <3>2. \A m, n \in Nat : m <= n => m # n + 1
      OBVIOUS
    <3> QED
      BY <1>9, <3>1, <3>2
  <2>4. \A y, z \in Threads : pc'[y] # "idle" /\ pc'[z] # "idle" /\ run'[y] = run'[z] => y = z
    BY <1>8, <2>3 DEF IInv, ExecutionsSound
  <2> QED
    BY <2>2, <2>4 DEF ExecutionsSound
<1>14. Cardinality(Active') <= Cardinality(Active) + (runs' - runs)
  <2>1. x \notin Active
    BY <1>2 DEF Active
  <2>2. Active' = Active \cup {x}
    BY <1>8 DEF Active
  <2>3. Cardinality(Active') = Cardinality(Active) + 1
    BY <2>1, <2>2, ActiveFacts, FS_AddElement
  <2>4. Cardinality(Active) \in Nat /\ Cardinality(Active') \in Nat
    BY <2>3, ActiveFacts
  <2>5. \A k, l, m, n \in Nat : l = k + 1 /\ n - m = 1 => l <= k + (n - m)
    OBVIOUS
  <2> QED
    BY <1>9, <2>3, <2>4, <2>5
<1>15. StoreTypes' /\ StoresSound' /\ StoreBounded'
  <2>1. UNCHANGED <<store, closed, closedInFile, faults>>
    BY <1>2 DEF history
  <2> QED
    BY <1>9, <1>14, <2>1, StoreKept
<1>16. MotionsSound'
  <2>1. \A y \in Threads, r \in Robots :
            pc[y] # "idle" => Covered(pc[y], run[y], at[y], wait[y], motion[r])
    BY DEF IInv, MotionsSound
  <2>2. \A r \in Robots : motion[r].run # runs + 1
    <3>1. \A r \in Robots : motion[r].run <= runs /\ motion[r].run \in Nat
      BY BoundFacts DEF IInv, TypeOK, MotionTypes
    <3>2. \A m, n \in Nat : m <= n => m # n + 1
      OBVIOUS
    <3> QED
      BY <1>9, <3>1, <3>2
  <2>3. \A r \in Robots : Covered("step", runs + 1, 1, wait[x], motion[r])
    BY <2>2 DEF Covered
  <2>4. \A y \in Threads, r \in Robots :
            pc'[y] # "idle" => Covered(pc'[y], run'[y], at'[y], wait'[y], motion'[r])
    BY <1>8, <1>10, <2>1, <2>3
  <2> QED
    BY <2>4 DEF MotionsSound
<1>17. MotionTypes' /\ ConfirmedBeforeMoving' /\ NoStepAfterWriteBack'
  <2>1. \A r \in Robots : motion'[r].run <= runs'
    <3>1. \A r \in Robots : motion[r].run <= runs /\ motion[r].run \in Nat
      BY BoundFacts DEF IInv, TypeOK, MotionTypes
    <3> QED
      BY <1>9, <1>2, <1>10, <3>1
  <2> QED
    BY <1>10, <2>1 DEF IInv, TypeOK, MotionTypes, ConfirmedBeforeMoving, NoStepAfterWriteBack
<1> QED
  BY <1>11, <1>13, <1>15, <1>16, <1>17 DEF IInv, TypeOK

LEMMA EmptyIsPlan ==
    PlanOK(Empty) /\ Empty \in AnyPlan /\ Empty.steps = <<>> /\ Len(Empty.steps) = 0
<1>1. Empty.steps = <<>> /\ Empty.id = 0 /\ Empty.confirm = FALSE /\ DOMAIN Empty.steps = {}
  BY DEF Empty, NoPlan
<1>2. <<>> \in Seq(AnyStep) /\ Len(<<>>) = 0 /\ 0 \in 0..MaxPlans
  BY BoundFacts, EmptySeq
<1>3. Empty \in AnyPlan
  BY <1>2 DEF AnyPlan, Empty, NoPlan
<1>4. RequiresConfirmation(Empty.steps) = FALSE
  BY <1>1 DEF RequiresConfirmation
<1> QED
  BY <1>1, <1>2, <1>3, <1>4 DEF PlanOK

\* A save writes what is stored, or fails.
LEMMA SaveKeeps ==
    ASSUME IInv, Save, asked' \in Nat, asked <= asked', Sound(plans', asked', closed'),
           closed' \subseteq 1..asked'
    PROVE  StoresSound' /\ faults' \in 0..MaxFaults
<1>1. /\ Sound(file, asked, closedInFile) /\ closedInFile \subseteq 1..asked /\ Len(file) <= MaxStored
      /\ asked \in Nat /\ faults \in 0..MaxFaults
  BY BoundFacts DEF IInv, StoresSound, TypeOK, StoreTypes
<1>2. CASE file' = Newest(plans') /\ closedInFile' = closed' /\ UNCHANGED faults
  <2>1. Sound(Newest(plans'), asked', closed') /\ Len(Newest(plans')) <= MaxStored
    BY NewestSound
  <2> QED
    BY <1>1, <1>2, <2>1 DEF StoresSound
<1>3. CASE faults < MaxFaults /\ faults' = faults + 1 /\ UNCHANGED <<file, closedInFile>>
  <2>1. \A n : n \in 1..asked => n \in 1..asked'
    BY <1>1
  <2>2. Sound(file, asked', closedInFile)
    BY <1>1, <2>1 DEF Sound
  <2>3. faults' \in 0..MaxFaults
    BY <1>1, <1>3, BoundFacts
  <2> QED
    BY <1>1, <1>3, <2>1, <2>2, <2>3 DEF StoresSound
<1> QED
  BY <1>2, <1>3 DEF Save

\* A plan that is done takes its place in the store again.
LEMMA StoredSound ==
    ASSUME IInv, NEW p, PlanOK(p), p.id \in 1..asked, Done(p)
    PROVE  /\ Sound(Stored(p), asked, closed \cup {p.id})
           /\ Len(Stored(p)) \in Nat /\ Len(Stored(p)) <= Len(plans) + 1
<1> DEFINE ids == [i \in DOMAIN plans |-> plans[i].id]
           t == Stored(p)
<1>1. Sound(plans, asked, closed) /\ asked \in Nat
  BY BoundFacts DEF IInv, StoresSound, TypeOK, StoreTypes
<1>2. plans \in Seq(AnyPlan) /\ Len(plans) \in Nat /\ DOMAIN plans = 1..Len(plans)
  BY <1>1, LenProperties DEF Sound
<1>3. /\ FirstIn(ids, {p.id}) \in 0..Len(plans)
      /\ FirstIn(ids, {p.id}) = 0 <=> \A i \in 1..Len(plans) : ids[i] \notin {p.id}
      /\ FirstIn(ids, {p.id}) # 0 => ids[FirstIn(ids, {p.id})] \in {p.id}
  <2>1. DOMAIN ids = 1..Len(plans)
    BY <1>2
  <2> HIDE DEF ids
  <2> QED
    BY <1>2, <2>1, FirstInFinds
<1>4. /\ Sound(t, asked, closed) /\ Len(t) \in Nat /\ Len(t) <= Len(plans) + 1
      /\ \E k \in 1..Len(t) : t[k] = p
  <2>1. CASE Index(p.id) = 0
    <3>1. t = Append(plans, p)
      BY <2>1 DEF Stored
    <3>2. \A i \in 1..Len(plans) : plans[i].id # p.id
      BY <1>2, <1>3, <2>1 DEF Index
    <3>3. Sound(t, asked, closed) /\ Len(t) = Len(plans) + 1
      BY <1>1, <3>1, <3>2, AppendSound
    <3>4. t[Len(plans) + 1] = p /\ Len(plans) + 1 \in 1..Len(t)
      <4>1. p \in AnyPlan
        BY DEF PlanOK
      <4> HIDE DEF t
      <4> QED
        BY <1>2, <3>1, <3>3, <4>1, AppendProperties
    <3> HIDE DEF t
    <3>5. \E k \in 1..Len(t) : t[k] = p
      BY <3>4
    <3> QED
      BY <1>2, <3>3, <3>5
  <2>2. CASE Index(p.id) # 0
    <3> DEFINE k == Index(p.id)
    <3>1. t = ReplaceAt(plans, k, p)
      BY <2>2 DEF Stored
    <3>2. k \in 1..Len(plans) /\ plans[k].id = p.id
      BY <1>2, <1>3, <2>2 DEF Index
    <3> HIDE DEF k
    <3>3. Sound(t, asked, closed) /\ Len(t) = Len(plans)
      BY <1>1, <3>1, <3>2, ReplaceSound
    <3>4. t[k] = p
      BY <1>2, <3>1, <3>2 DEF ReplaceAt
    <3> HIDE DEF t
    <3> QED
      BY <1>2, <3>2, <3>3, <3>4
  <2> QED
    BY <2>1, <2>2
<1> HIDE DEF t
<1>5. \A i \in 1..Len(t) : t[i].id = p.id => Done(t[i])
  BY <1>4 DEF Sound
<1>6. Sound(t, asked, closed \cup {p.id})
  <2>1. asked <= asked
    BY <1>1
  <2> QED
    BY <1>1, <1>4, <1>5, <2>1, SoundWith
<1> QED
  BY <1>4, <1>6 DEF t

\* The thread writes the plan back, and is idle again.
LEMMA WriteBackKeeps ==
    ASSUME IInv, NEW x \in Threads, WriteBack(x)
    PROVE  IInv'
<1> DEFINE p == held[x]
<1>1. /\ pc[x] = "step" /\ pc[x] # "idle" /\ at[x] > Len(p.steps)
      /\ plans' = Stored(p) /\ closed' = closed \cup {p.id} /\ Save
      /\ pc' = [pc EXCEPT ![x] = "idle"] /\ held' = [held EXCEPT ![x] = Empty]
      /\ at' = [at EXCEPT ![x] = 0] /\ run' = [run EXCEPT ![x] = 0]
      /\ UNCHANGED <<asked, wait, grant, runs, motion, ran>>
  BY DEF WriteBack
<1>2. /\ Execution(pc[x], p, at[x], grant[x], asked) /\ PlanOK(p)
      /\ Len(p.steps) \in Nat /\ at[x] \in Nat /\ asked \in 0..MaxPlans /\ runs \in 0..MaxRuns
  BY <1>1, ThreadFacts
<1>3. p.id \in 1..asked /\ Done(p)
  <2>1. \A j \in 1..Len(p.steps) : j \in 1..(at[x] - 1)
    BY <1>1, <1>2
  <2> QED
    BY <1>2, <2>1 DEF Execution, Done
<1>4. /\ Sound(plans', asked', closed')
      /\ Len(plans') \in Nat /\ Len(plans') <= Len(plans) + 1
  BY <1>1, <1>2, <1>3, StoredSound
<1>5. asked \in Nat /\ asked' \in Nat /\ asked <= asked' /\ runs \in Nat /\ runs' \in Nat
  BY <1>1, <1>2, BoundFacts
<1>6. closed' \subseteq 1..asked'
  <2>1. closed \subseteq 1..asked
    BY DEF IInv, StoresSound
  <2> QED
    BY <1>1, <1>3, <2>1
<1>7. StoresSound' /\ faults' \in 0..MaxFaults
  BY <1>1, <1>4, <1>5, <1>6, SaveKeeps
<1>8. /\ pc \in [Threads -> {"idle", "step", "call", "sleep"}]
      /\ held \in [Threads -> AnyPlan] /\ at \in [Threads -> Nat] /\ wait \in [Threads -> Nat]
      /\ run \in [Threads -> 0..MaxRuns] /\ runs \in 0..MaxRuns
      /\ grant \in [Threads -> [confirmed : BOOLEAN, late : BOOLEAN]]
      /\ \A y \in Threads : PlanOK(held[y]) /\ at[y] <= Len(held[y].steps) + 1 /\ run[y] <= runs
  BY DEF IInv, TypeOK, ThreadTypes
<1> HIDE DEF p
<1>9. \A y \in Threads : /\ pc'[y] = IF y = x THEN "idle" ELSE pc[y]
                         /\ held'[y] = IF y = x THEN Empty ELSE held[y]
                         /\ at'[y] = IF y = x THEN 0 ELSE at[y]
                         /\ run'[y] = IF y = x THEN 0 ELSE run[y]
                         /\ grant'[y] = grant[y] /\ wait'[y] = wait[y]
  BY <1>1, <1>8
<1>10. Cardinality(Active') \in Nat /\ Cardinality(Active) = Cardinality(Active') + 1
  <2>1. x \in Active /\ Active' = Active \ {x}
    BY <1>1, <1>9 DEF Active
  <2>2. Cardinality(Active') = Cardinality(Active) - 1 /\ IsFiniteSet(Active')
    BY <2>1, ActiveFacts, FS_RemoveElement
  <2>3. Cardinality(Active') \in Nat
    BY <2>2, FS_CardinalityType
  <2>4. \A m, n \in Nat : n = m - 1 => m = n + 1
    OBVIOUS
  <2> QED
    BY <2>2, <2>3, <2>4, ActiveFacts
<1>11. StoreBounded' /\ Len(plans') <= MaxStored + runs'
  <2>1. /\ Cardinality(Active) <= runs /\ Len(plans) + Cardinality(Active) <= MaxStored + runs
    BY DEF IInv, StoreBounded
  <2>2. \A c, d, l, m, b \in Nat : c = d + 1 /\ c <= b => d <= b
    OBVIOUS
  <2>3. \A c, d, l, m, b \in Nat : c = d + 1 /\ m <= l + 1 /\ l + c <= b => m + d <= b /\ m <= b
    OBVIOUS
  <2>4. Len(plans) \in Nat /\ MaxStored + runs \in Nat
    BY <1>5, BoundFacts, LenProperties DEF IInv, StoresSound, Sound
  <2>5. Cardinality(Active') <= runs
    BY <1>5, <1>10, <2>1, <2>2, ActiveFacts
  <2>6. Len(plans') + Cardinality(Active') <= MaxStored + runs /\ Len(plans') <= MaxStored + runs
    BY <1>4, <1>10, <2>1, <2>3, <2>4, ActiveFacts
  <2> QED
    BY <1>1, <2>5, <2>6 DEF StoreBounded
<1>12. StoreTypes'
  <2>1. asked' \in 0..MaxPlans
    BY <1>1, <1>2
  <2> QED
    BY <1>5, <1>7, <1>11, <2>1, StoreTypesNext
<1>13. ThreadTypes'
  <2>1. PlanOK(Empty) /\ Empty \in AnyPlan /\ Len(Empty.steps) = 0
    BY EmptyIsPlan
  <2>2. \A y \in Threads : PlanOK(held'[y]) /\ at'[y] <= Len(held'[y].steps) + 1 /\ run'[y] <= runs'
    BY <1>1, <1>5, <1>8, <1>9, <2>1
  <2>3. 0 \in Nat /\ 0 \in 0..MaxRuns
    BY BoundFacts
  <2>4. /\ pc' \in [Threads -> {"idle", "step", "call", "sleep"}]
        /\ held' \in [Threads -> AnyPlan] /\ at' \in [Threads -> Nat] /\ wait' \in [Threads -> Nat]
        /\ run' \in [Threads -> 0..MaxRuns] /\ runs' \in 0..MaxRuns
        /\ grant' \in [Threads -> [confirmed : BOOLEAN, late : BOOLEAN]]
    BY <1>1, <1>8, <2>1, <2>3
  <2> QED
    BY <2>2, <2>4 DEF ThreadTypes
<1>14. ExecutionsSound' /\ MotionsSound'
  <2>1. \A y \in Threads : pc[y] # "idle" => Execution(pc[y], held[y], at[y], grant[y], asked)
    BY DEF IInv, ExecutionsSound
  <2>2. \A y \in Threads : pc'[y] # "idle" => Execution(pc'[y], held'[y], at'[y], grant'[y], asked')
    BY <1>1, <1>9, <2>1
  <2>3. \A y, z \in Threads : pc'[y] # "idle" /\ pc'[z] # "idle" /\ run'[y] = run'[z] => y = z
    BY <1>9 DEF IInv, ExecutionsSound
  <2>4. \A y \in Threads, r \in Robots :
            pc'[y] # "idle" => Covered(pc'[y], run'[y], at'[y], wait'[y], motion'[r])
    BY <1>1, <1>9 DEF IInv, MotionsSound
  <2> QED
    BY <2>2, <2>3, <2>4 DEF ExecutionsSound, MotionsSound
<1>15. MotionTypes' /\ ConfirmedBeforeMoving' /\ NoStepAfterWriteBack'
  BY <1>1, HistoryKept
<1> QED
  BY <1>7, <1>11, <1>12, <1>13, <1>14, <1>15 DEF IInv, TypeOK

-----------------------------------------------------------------------------
(* A plan is made.                                                          *)

\* Threads whose plans were made before another one was.
LEMMA ThreadsUndisturbed ==
    ASSUME IInv, UNCHANGED <<threads, motion, ran>>, asked \in Nat, asked' \in Nat, asked <= asked'
    PROVE  /\ ThreadTypes' /\ ExecutionsSound' /\ MotionsSound' /\ Active' = Active /\ runs' = runs
           /\ MotionTypes' /\ ConfirmedBeforeMoving' /\ NoStepAfterWriteBack'
<1>1. /\ UNCHANGED <<pc, held, at, wait, run, grant, runs>> /\ UNCHANGED <<motion, ran, runs>>
  BY DEF threads
<1>2. ThreadTypes' /\ MotionsSound' /\ Active' = Active
  BY <1>1 DEF IInv, TypeOK, ThreadTypes, MotionsSound, Active
<1>3. ExecutionsSound'
  <2>1. \A n : n \in 1..asked => n \in 1..asked'
    OBVIOUS
  <2>2. \A x \in Threads : pc[x] # "idle" => Execution(pc[x], held[x], at[x], grant[x], asked')
    BY <2>1 DEF IInv, ExecutionsSound, Execution
  <2>3. \A x, y \in Threads : pc[x] # "idle" /\ pc[y] # "idle" /\ run[x] = run[y] => x = y
    BY DEF IInv, ExecutionsSound
  <2> QED
    BY <1>1, <2>2, <2>3 DEF ExecutionsSound
<1>4. MotionTypes' /\ ConfirmedBeforeMoving' /\ NoStepAfterWriteBack'
  BY <1>1, HistoryKept
<1> QED
  BY <1>1, <1>2, <1>3, <1>4

\* The plan is new, so no other one in the store has its number.
LEMMA StorePlanKeeps ==
    ASSUME IInv, NEW p, PlanOK(p), p.id = asked + 1, asked < MaxPlans, asked' = asked + 1,
           StorePlan(p), runs' = runs, Active' = Active
    PROVE  StoreTypes' /\ StoresSound' /\ StoreBounded'
<1>1. /\ asked \in 0..MaxPlans /\ asked \in Nat /\ runs \in Nat /\ MaxStored \in Nat
      /\ Sound(plans, asked, closed) /\ closed \subseteq 1..asked /\ Cardinality(Active) <= runs
  BY BoundFacts DEF IInv, TypeOK, StoreTypes, ThreadTypes, StoresSound, StoreBounded
<1>2. /\ asked' \in Nat /\ asked <= asked' /\ asked' \in 0..MaxPlans /\ p.id \in 1..asked'
      /\ \A n \in 1..asked : n # p.id /\ n \in 1..asked'
  BY <1>1, BoundFacts
<1>3. Sound(Append(plans, p), asked', closed)
  <2>1. Sound(plans, asked', closed)
    BY <1>1, <1>2 DEF Sound
  <2>2. \A i \in 1..Len(plans) : plans[i].id # p.id
    BY <1>1, <1>2 DEF Sound
  <2>3. p.id \notin closed
    BY <1>1, <1>2
  <2> QED
    BY <1>2, <2>1, <2>2, <2>3, AppendSound
<1>4. Sound(Append(plans, p), asked', closed')
  <2>1. CASE \A i \in DOMAIN p.steps : p.steps[i].status # "planned"
    <3>1. closed' = closed \cup {p.id}
      BY <2>1 DEF StorePlan
    <3>2. Done(p)
      BY <2>1, PlanFacts DEF Done, PlanOK
    <3> DEFINE t == Append(plans, p)
    <3>3. \A i \in 1..Len(t) : t[i].id = p.id => Done(t[i])
      <4>1. p \in AnyPlan /\ plans \in Seq(AnyPlan) /\ Len(plans) \in Nat
        BY <1>1, LenProperties DEF PlanOK, Sound
      <4>2. /\ Len(t) = Len(plans) + 1 /\ t[Len(plans) + 1] = p
            /\ \A i \in 1..Len(plans) : t[i] = plans[i]
        BY <4>1, AppendProperties
      <4> HIDE DEF t
      <4>3. \A i \in 1..Len(t) : i \in 1..Len(plans) \/ i = Len(plans) + 1
        BY <4>1, <4>2
      <4>4. \A i \in 1..Len(plans) : plans[i].id # p.id
        BY <1>1, <1>2 DEF Sound
      <4> QED
        BY <3>2, <4>2, <4>3, <4>4
    <3> HIDE DEF t
    <3>4. Sound(t, asked', closed \cup {p.id})
      <4>1. asked' <= asked' /\ Sound(t, asked', closed)
        BY <1>2, <1>3 DEF t
      <4> QED
        BY <1>2, <3>3, <4>1, SoundWith
    <3> QED
      BY <3>1, <3>4 DEF t
  <2>2. CASE ~\A i \in DOMAIN p.steps : p.steps[i].status # "planned"
    <3>1. closed' = closed
      BY <2>2 DEF StorePlan
    <3> QED
      BY <1>3, <3>1
  <2> QED
    BY <2>1, <2>2
<1>5. plans' = Newest(Append(plans, p)) /\ Save
  BY DEF StorePlan
<1>6. Sound(plans', asked', closed') /\ closed' \subseteq 1..asked' /\ Len(plans') <= MaxStored
  <2>1. closed' \subseteq closed \cup {p.id}
    BY DEF StorePlan
  <2> QED
    BY <1>1, <1>2, <1>4, <1>5, <2>1, NewestSound
<1>7. StoresSound' /\ faults' \in 0..MaxFaults
  BY <1>2, <1>5, <1>6, SaveKeeps
<1>8. Len(plans') \in Nat
  BY <1>6, LenProperties DEF Sound
<1>9. StoreBounded' /\ Len(plans') <= MaxStored + runs'
  <2>1. \A l, m, c, b \in Nat : l <= m /\ c <= b => l + c <= m + b /\ l <= m + b
    OBVIOUS
  <2>2. Len(plans') + Cardinality(Active) <= MaxStored + runs /\ Len(plans') <= MaxStored + runs
    BY <1>1, <1>6, <1>8, <2>1, ActiveFacts
  <2> QED
    BY <1>1, <2>2 DEF StoreBounded
<1>10. StoreTypes'
  BY <1>1, <1>2, <1>7, <1>9, StoreTypesNext
<1> QED
  BY <1>7, <1>9, <1>10

LEMMA PlanKeeps ==
    ASSUME IInv, Plan
    PROVE  IInv'
<1>1. asked < MaxPlans /\ asked' = asked + 1 /\ UNCHANGED <<threads, motion, ran>>
  BY DEF Plan
<1>2. asked \in 0..MaxPlans /\ asked \in Nat /\ asked' \in Nat /\ asked <= asked' /\ asked' \in 0..MaxPlans
  BY <1>1, BoundFacts DEF IInv, TypeOK, StoreTypes
<1>3. /\ ThreadTypes' /\ ExecutionsSound' /\ MotionsSound' /\ Active' = Active /\ runs' = runs
      /\ MotionTypes' /\ ConfirmedBeforeMoving' /\ NoStepAfterWriteBack'
  BY <1>1, <1>2, ThreadsUndisturbed
<1>0. PICK q \in Requests[asked + 1], fleet \in Fleets : \E raws \in ModelAnswers(q) :
          LET p == NewPlan(PlanSteps(q.req, raws, fleet))
          IN IF ~q.req.auto THEN StorePlan(p)
             ELSE IF ~MayExecute(p, ~p.confirm)
             THEN UNCHANGED <<plans, file, closed, closedInFile, faults>>
             ELSE \E done \in [DOMAIN p.steps -> {"executed", "failed"}] :
                    StorePlan([p EXCEPT !.steps =
                       [i \in DOMAIN @ |-> [@[i] EXCEPT !.status = done[i]]]])
  BY DEF Plan
<1>4. PICK raws \in ModelAnswers(q) :
          LET p == NewPlan(PlanSteps(q.req, raws, fleet))
          IN IF ~q.req.auto THEN StorePlan(p)
             ELSE IF ~MayExecute(p, ~p.confirm)
             THEN UNCHANGED <<plans, file, closed, closedInFile, faults>>
             ELSE \E done \in [DOMAIN p.steps -> {"executed", "failed"}] :
                    StorePlan([p EXCEPT !.steps =
                       [i \in DOMAIN @ |-> [@[i] EXCEPT !.status = done[i]]]])
  BY <1>0
<1> DEFINE p == NewPlan(PlanSteps(q.req, raws, fleet))
<1>5. PlanOK(p) /\ p.id = asked + 1
  <2>1. asked + 1 \in 1..Len(Requests)
    BY <1>1, <1>2, BoundFacts DEF MaxPlans
  <2>2. q \in [req : AnyRequest, raws : Seq(AnyRawStep)]
    <3>1. Requests[asked + 1] \in SUBSET [req : AnyRequest, raws : Seq(AnyRawStep)]
      BY <2>1, TasksAssumption, ElementOfSeq
    <3> QED
      BY <3>1
  <2>3. raws \in Seq(AnyRawStep) /\ q.req \in AnyRequest /\ fleet \in AnyFleet
    <3>1. <<>> \in Seq(AnyRawStep)
      BY EmptySeq
    <3> QED
      BY <2>2, <3>1, TasksAssumption DEF ModelAnswers
  <2> DEFINE steps == PlanSteps(q.req, raws, fleet)
  <2>4. steps \in Seq(AnyStep)
    BY <2>3, PlanStepsTypes
  <2> HIDE DEF steps
  <2>5. NewPlan(steps) \in AnyPlan
    <3>1. RequiresConfirmation(steps) \in BOOLEAN
      BY DEF RequiresConfirmation
    <3>2. asked + 1 \in 0..MaxPlans
      BY <1>1, <1>2
    <3> QED
      BY <2>4, <3>1, <3>2 DEF NewPlan, AnyPlan
  <2>6. PlanOK(NewPlan(steps)) /\ NewPlan(steps).id = asked + 1
    BY <2>5 DEF PlanOK, NewPlan
  <2> QED
    BY <2>6 DEF steps
<1>6. StoreTypes' /\ StoresSound' /\ StoreBounded'
  <2>1. CASE ~q.req.auto
    <3>1. StorePlan(p)
      BY <1>4, <2>1
    <3> HIDE DEF p
    <3> QED
      BY <1>1, <1>3, <1>5, <3>1, StorePlanKeeps
  <2>2. CASE q.req.auto /\ ~MayExecute(p, ~p.confirm)
    <3>1. UNCHANGED <<plans, file, closed, closedInFile, faults>>
      BY <1>4, <2>2
    <3>2. \A n : n \in 1..asked => n \in 1..asked'
      BY <1>2
    <3>3. StoresSound'
      BY <3>1, <3>2 DEF IInv, StoresSound, Sound
    <3>4. StoreBounded'
      BY <1>3, <3>1 DEF IInv, StoreBounded
    <3>5. /\ faults' \in 0..MaxFaults /\ runs' \in Nat /\ Len(plans') <= MaxStored + runs'
      BY <1>3, <3>1, BoundFacts DEF IInv, TypeOK, StoreTypes, ThreadTypes
    <3>6. StoreTypes'
      BY <1>2, <3>3, <3>5, StoreTypesNext
    <3> QED
      BY <3>3, <3>4, <3>6
  <2>3. CASE q.req.auto /\ MayExecute(p, ~p.confirm)
    <3>1. PICK done \in [DOMAIN p.steps -> {"executed", "failed"}] :
             StorePlan([p EXCEPT !.steps =
                 [i \in DOMAIN @ |-> [@[i] EXCEPT !.status = done[i]]]])
      BY <1>4, <2>3
    <3> HIDE DEF p
    <3> DEFINE e == [p EXCEPT !.steps = [i \in DOMAIN @ |-> [@[i] EXCEPT !.status = done[i]]]]
    <3>2. StorePlan(e)
      BY <3>1
    <3>3. e = [p EXCEPT !.steps = [i \in DOMAIN @ |-> [@[i] EXCEPT !.status = done[i]]]]
      OBVIOUS
    <3> HIDE DEF e
    <3>4. PlanOK(e) /\ e.id = p.id
      BY <1>5, <3>3, PlanExecuted
    <3> QED
      BY <1>1, <1>3, <1>5, <3>2, <3>4, StorePlanKeeps
  <2> QED
    BY <2>1, <2>2, <2>3
<1> QED
  BY <1>3, <1>6 DEF IInv, TypeOK

-----------------------------------------------------------------------------
(* Time and restarts.                                                       *)

\* What Elapse does to a time, for d the shortest of all.
After(t, d) == IF t > d THEN t - d ELSE 0

LEMMA ElapseIs ==
    ASSUME IInv, Elapse
    PROVE  \E d \in Nat :
              /\ \A x \in Threads : wait'[x] = After(wait[x], d)
              /\ \A r \in Robots : /\ motion'[r] = [motion[r] EXCEPT !.left = After(motion[r].left, d)]
              /\ wait' = [x \in Threads |-> After(wait[x], d)]
              /\ motion' = [r \in Robots |-> [motion[r] EXCEPT !.left = After(motion[r].left, d)]]
<1> DEFINE P == Pending \ {0}
           d == CHOOSE t \in P : \A u \in P : t <= u
<1>1. P \in SUBSET Nat
  <2>1. \A x \in Threads : wait[x] \in Nat
    BY DEF IInv, TypeOK, ThreadTypes
  <2>2. \A r \in Robots : motion[r].left \in Nat
    BY DEF IInv, TypeOK, MotionTypes
  <2> QED
    BY <2>1, <2>2 DEF Pending
<1>2. P # {}
  <2>1. Pending # {}
    <3>1. Canonical[DefaultRobot] \in Robots
      BY PlannerAssumption DEF Robots
    <3> QED
      BY <3>1 DEF Pending
  <2> QED
    BY <2>1 DEF Elapse
<1>3. d \in Nat
  <2> HIDE DEF P
  <2>1. \E t \in P : \A u \in P : t <= u
    BY <1>1, <1>2, Least
  <2>2. d \in P
    BY <2>1
  <2> QED
    BY <1>1, <2>2
<1>4. /\ wait' = [x \in Threads |-> After(wait[x], d)]
      /\ motion' = [r \in Robots |-> [motion[r] EXCEPT !.left = After(motion[r].left, d)]]
  BY DEF Elapse, After
<1> HIDE DEF d
<1> QED
  BY <1>3, <1>4

\* Time passes for the robots as it does for the threads that wait for them.
LEMMA ElapseKeeps ==
    ASSUME IInv, Elapse
    PROVE  IInv'
<1> DEFINE M == [run : 0..MaxRuns, step : Nat, tool : DirectRosTools \cup {"none"}, left : Nat,
                 acked : BOOLEAN]
<1>1. PICK d \in Nat :
          /\ \A x \in Threads : wait'[x] = After(wait[x], d)
          /\ \A r \in Robots : /\ motion'[r] = [motion[r] EXCEPT !.left = After(motion[r].left, d)]
          /\ wait' = [x \in Threads |-> After(wait[x], d)]
          /\ motion' = [r \in Robots |-> [motion[r] EXCEPT !.left = After(motion[r].left, d)]]
  BY ElapseIs
<1>2. UNCHANGED <<store, pc, held, at, run, grant, runs, history>>
  BY DEF Elapse
<1>3. /\ \A t \in Nat : After(t, d) \in Nat /\ (After(t, d) > 0 => t > 0)
      /\ \A t, u \in Nat : t >= u => After(t, d) >= After(u, d)
  BY DEF After
<1>4. motion \in [Robots -> M] /\ \A r \in Robots : motion[r].run <= runs
  BY DEF IInv, TypeOK, MotionTypes
<1>5. \A r \in Robots : /\ motion'[r] \in M /\ motion'[r].run = motion[r].run
                        /\ motion'[r].step = motion[r].step /\ motion'[r].tool = motion[r].tool
                        /\ motion'[r].acked = motion[r].acked
                        /\ motion'[r].left = After(motion[r].left, d) /\ motion[r].left \in Nat
  BY <1>1, <1>3, <1>4
<1>6. wait \in [Threads -> Nat]
  BY DEF IInv, TypeOK, ThreadTypes
<1>7. MotionTypes'
  <2>1. motion' \in [Robots -> M]
    <3> HIDE DEF M
    <3> QED
      BY <1>1, <1>5
  <2>2. \A r \in Robots : motion'[r].run <= runs'
    BY <1>2, <1>4, <1>5
  <2> QED
    BY <1>2, <2>1, <2>2 DEF IInv, TypeOK, MotionTypes, history
<1> HIDE DEF M
<1>8. ThreadTypes'
  <2>1. wait' \in [Threads -> Nat]
    BY <1>1, <1>3, <1>6
  <2> QED
    BY <1>2, <2>1 DEF IInv, TypeOK, ThreadTypes
<1>9. MotionsSound'
  <2>1. \A x \in Threads, r \in Robots :
            pc[x] # "idle" => Covered(pc[x], run[x], at[x], wait[x], motion[r])
    BY DEF IInv, MotionsSound
  <2>2. ASSUME NEW x \in Threads, NEW r \in Robots, pc[x] # "idle"
        PROVE  Covered(pc[x], run[x], at[x], wait'[x], motion'[r])
    <3>1. Covered(pc[x], run[x], at[x], wait[x], motion[r])
      BY <2>1, <2>2
    <3>2. After(motion[r].left, d) > 0 => motion[r].left > 0
      BY <1>3, <1>5
    <3>3. wait[x] >= motion[r].left => wait'[x] >= After(motion[r].left, d)
      BY <1>1, <1>3, <1>5, <1>6
    <3> QED
      BY <1>5, <3>1, <3>2, <3>3 DEF Covered
  <2> QED
    BY <1>2, <2>2 DEF MotionsSound
<1>10. UNCHANGED <<plans, file, asked, closed, closedInFile, faults, ran>> /\ Active' = Active
  BY <1>2 DEF store, history, Active
<1>11. StoreTypes' /\ StoresSound' /\ StoreBounded'
  BY <1>2, <1>10 DEF IInv, TypeOK, StoreTypes, StoresSound, StoreBounded
<1>12. ExecutionsSound' /\ ConfirmedBeforeMoving' /\ NoStepAfterWriteBack'
  BY <1>2, <1>10 DEF IInv, ExecutionsSound, ConfirmedBeforeMoving, NoStepAfterWriteBack
<1> QED
  BY <1>7, <1>8, <1>9, <1>11, <1>12 DEF IInv, TypeOK

LEMMA RestartKeeps ==
    ASSUME IInv, Restart
    PROVE  IInv'
<1>1. PICK found \in {file, <<>>} : plans' = found /\ file' = found
  BY DEF Restart
<1>2. /\ faults < MaxFaults /\ faults' = faults + 1 /\ closed' = closedInFile
      /\ pc' = [x \in Threads |-> "idle"] /\ held' = [x \in Threads |-> Empty]
      /\ at' = [x \in Threads |-> 0] /\ wait' = [x \in Threads |-> 0]
      /\ run' = [x \in Threads |-> 0]
      /\ UNCHANGED <<asked, grant, runs, motion, ran, closedInFile>>
  BY DEF Restart
<1>3. /\ Sound(file, asked, closedInFile) /\ closedInFile \subseteq 1..asked
      /\ Len(file) <= MaxStored /\ asked \in 0..MaxPlans /\ runs \in 0..MaxRuns /\ runs \in Nat
      /\ faults \in 0..MaxFaults
  BY BoundFacts DEF IInv, StoresSound, TypeOK, StoreTypes, ThreadTypes
<1>4. Sound(found, asked, closedInFile) /\ Len(found) <= MaxStored /\ Len(found) \in Nat
  <2>1. Sound(<<>>, asked, closedInFile) /\ Len(<<>>) = 0
    <3>1. <<>> \in Seq(AnyPlan) /\ Len(<<>>) = 0 /\ \A i \in 1..0 : FALSE
      BY EmptySeq
    <3> QED
      BY <3>1 DEF Sound
  <2>2. 0 <= MaxStored
    BY BoundFacts
  <2>3. \A s : Sound(s, asked, closedInFile) => Len(s) \in Nat
    BY LenProperties DEF Sound
  <2> QED
    BY <1>3, <2>1, <2>2, <2>3
<1>5. StoresSound'
  BY <1>1, <1>2, <1>3, <1>4 DEF StoresSound
<1>6. Active' = {}
  BY <1>2 DEF Active
<1>7. StoreBounded' /\ Len(plans') <= MaxStored + runs'
  <2>1. Cardinality(Active') = 0
    BY <1>6, FS_EmptySet
  <2>2. \A l, m, n \in Nat : l <= m => l + 0 <= m + n /\ l <= m + n /\ 0 <= n
    OBVIOUS
  <2>3. Len(found) + 0 <= MaxStored + runs /\ Len(found) <= MaxStored + runs /\ 0 <= runs
    BY <1>3, <1>4, <2>2, BoundFacts
  <2> QED
    BY <1>1, <1>2, <2>1, <2>3 DEF StoreBounded
<1>8. StoreTypes'
  <2>1. asked' \in 0..MaxPlans /\ faults' \in 0..MaxFaults /\ runs' \in Nat
    BY <1>2, <1>3, BoundFacts
  <2> QED
    BY <1>5, <1>7, <2>1, StoreTypesNext
<1>9. ThreadTypes'
  <2>1. PlanOK(Empty) /\ Empty \in AnyPlan /\ Len(Empty.steps) = 0 /\ 0 \in 0..MaxRuns
    BY EmptyIsPlan, BoundFacts
  <2>2. \A y \in Threads : PlanOK(held'[y]) /\ at'[y] <= Len(held'[y].steps) + 1 /\ run'[y] <= runs'
    BY <1>2, <1>3, <2>1
  <2>3. grant' \in [Threads -> [confirmed : BOOLEAN, late : BOOLEAN]]
    BY <1>2 DEF IInv, TypeOK, ThreadTypes
  <2> QED
    BY <1>2, <1>3, <2>1, <2>2, <2>3 DEF ThreadTypes
<1>10. ExecutionsSound' /\ MotionsSound'
  BY <1>2 DEF ExecutionsSound, MotionsSound
<1>11. MotionTypes' /\ ConfirmedBeforeMoving' /\ NoStepAfterWriteBack'
  BY <1>2, HistoryKept
<1> QED
  BY <1>5, <1>7, <1>8, <1>9, <1>10, <1>11 DEF IInv, TypeOK

LEMMA InitKeeps == Init => IInv
<1> SUFFICES ASSUME Init
             PROVE  IInv
  OBVIOUS
<1>1. /\ plans = <<>> /\ file = <<>> /\ asked = 0 /\ runs = 0 /\ closed = {} /\ closedInFile = {}
      /\ faults = 0 /\ ran = {} /\ grant = [x \in Threads |-> [confirmed |-> FALSE, late |-> FALSE]]
      /\ pc = [x \in Threads |-> "idle"] /\ held = [x \in Threads |-> Empty]
      /\ at = [x \in Threads |-> 0] /\ wait = [x \in Threads |-> 0] /\ run = [x \in Threads |-> 0]
      /\ motion = [r \in Robots |-> Idle]
  BY DEF Init
<1>2. /\ 0 \in 0..MaxPlans /\ 0 \in 0..MaxFaults /\ 0 \in 0..MaxRuns /\ 0 \in Nat
      /\ 0 <= MaxStored /\ 0 <= MaxStored + 0
  BY BoundFacts
<1>3. <<>> \in Seq(AnyPlan) /\ Len(<<>>) = 0 /\ DOMAIN <<>> = {} /\ \A i \in 1..0 : FALSE
  BY EmptySeq
<1>4. StoreTypes /\ StoresSound
  <2>1. Sound(<<>>, 0, {})
    BY <1>3 DEF Sound
  <2>2. StoresSound
    BY <1>1, <1>2, <1>3, <2>1 DEF StoresSound
  <2>3. StoreTypes
    BY <1>1, <1>2, <1>3 DEF StoreTypes
  <2> QED
    BY <2>2, <2>3
<1>5. StoreBounded
  <2>1. Active = {}
    BY <1>1 DEF Active
  <2>2. Cardinality(Active) = 0
    BY <2>1, FS_EmptySet
  <2> QED
    BY <1>1, <1>2, <1>3, <2>2 DEF StoreBounded
<1>6. ThreadTypes
  <2>1. PlanOK(Empty) /\ Empty \in AnyPlan /\ Len(Empty.steps) = 0
    BY EmptyIsPlan
  <2>2. \A y \in Threads : PlanOK(held[y]) /\ at[y] <= Len(held[y].steps) + 1 /\ run[y] <= runs
    BY <1>1, <1>2, <2>1
  <2> QED
    BY <1>1, <1>2, <2>1, <2>2 DEF ThreadTypes
<1>7. MotionTypes
  <2>1. /\ Idle \in [run : 0..MaxRuns, step : Nat, tool : DirectRosTools \cup {"none"}, left : Nat,
                     acked : BOOLEAN]
        /\ Idle.run <= 0
    BY <1>2 DEF Idle
  <2> HIDE DEF Idle
  <2> QED
    BY <1>1, <2>1 DEF MotionTypes
<1>8. ExecutionsSound /\ MotionsSound /\ ConfirmedBeforeMoving /\ NoStepAfterWriteBack
  BY <1>1 DEF ExecutionsSound, MotionsSound, ConfirmedBeforeMoving, NoStepAfterWriteBack
<1> QED
  BY <1>4, <1>5, <1>6, <1>7, <1>8 DEF IInv, TypeOK

-----------------------------------------------------------------------------
(* The theorems.                                                            *)

LEMMA StepKeeps == IInv /\ [Next]_vars => IInv'
<1> SUFFICES ASSUME IInv, [Next]_vars
             PROVE  IInv'
  OBVIOUS
<1>1. CASE Plan
  BY <1>1, PlanKeeps
<1>2. CASE Elapse
  BY <1>2, ElapseKeeps
<1>3. CASE Restart
  BY <1>3, RestartKeeps
<1>4. ASSUME NEW x \in Threads, Take(x)
      PROVE  IInv'
  BY <1>4, TakeKeeps
<1>5. ASSUME NEW x \in Threads, RunStep(x)
      PROVE  IInv'
  <2>1. CASE Skip(x)
    BY <2>1, SkipKeeps
  <2>2. CASE \/ Query(x) \/ Rescue(x) \/ Corridor(x) \/ AvoidHazard(x) \/ VerifyOrEscort(x)
             \/ Form(x) \/ PatrolCall(x)
    BY <2>2, QuietActionsKeep
  <2>3. CASE SafetyStop(x) \/ NudgeForward(x) \/ Motion(x)
    BY <2>3, MotionActionsKeep
  <2>4. CASE Rotate(x)
    BY <2>4, RotateKeeps
  <2>5. CASE RotateReturns(x)
    BY <2>5, RotateReturnsKeeps
  <2>6. CASE Wake(x)
    BY <2>6, WakeKeeps
  <2>7. CASE WriteBack(x)
    BY <2>7, WriteBackKeeps
  <2> QED
    BY <1>5, <2>1, <2>2, <2>3, <2>4, <2>5, <2>6, <2>7 DEF RunStep
<1>6. CASE UNCHANGED vars
  <2>1. /\ UNCHANGED <<plans, file, asked, pc, held, at, wait, run, grant, runs>>
        /\ UNCHANGED <<motion, ran, closed, closedInFile, faults>>
    BY <1>6 DEF vars, store, threads, history
  <2>2. StoreTypes' /\ ThreadTypes' /\ MotionTypes'
    BY <2>1 DEF IInv, TypeOK, StoreTypes, ThreadTypes, MotionTypes
  <2>3. /\ StoresSound' /\ ExecutionsSound' /\ StoreBounded' /\ MotionsSound'
        /\ ConfirmedBeforeMoving' /\ NoStepAfterWriteBack'
    BY <2>1 DEF IInv, StoresSound, ExecutionsSound, StoreBounded, Active, MotionsSound,
                ConfirmedBeforeMoving, NoStepAfterWriteBack
  <2> QED
    BY <2>2, <2>3 DEF IInv, TypeOK
<1> QED
  BY <1>1, <1>2, <1>3, <1>4, <1>5, <1>6 DEF Next

\* The inductive invariant.
THEOREM Invariance == Spec => []IInv
<1>1. Init => IInv
  BY InitKeeps
<1>2. IInv /\ [Next]_vars => IInv'
  BY StepKeeps
<1> QED
  BY <1>1, <1>2, PTL DEF Spec

\* The store and the file hold at most MaxStored plans, and the store as many
\* more as executions brought back; a stored plan asks for a confirmation
\* exactly if one of its steps does; no two have the same number.
THEOREM TypeCorrect == Spec => []TypeOK
<1>1. IInv => TypeOK
  BY DEF IInv
<1> QED
  BY <1>1, Invariance, PTL

\* Nothing moves, and no command or patrol starts, before the user confirmed
\* the plan (plan, _execute_plan), however executions and restarts interleave.
THEOREM Confirmed == Spec => []ConfirmedBeforeMoving
<1>1. IInv => ConfirmedBeforeMoving
  BY DEF IInv
<1> QED
  BY <1>1, Invariance, PTL

\* An execution that takes a plan another one has written back does nothing,
\* also when a restart has read the file in between (execute, _load_plans).
THEOREM DoneOnce == Spec => []NoStepAfterWriteBack
<1>1. IInv => NoStepAfterWriteBack
  BY DEF IInv
<1> QED
  BY <1>1, Invariance, PTL

\* A thread at a step calls bridges: the robots it reaches had no motion of the
\* same execution, that was acknowledged and still lasts.
LEMMA MovesCutNothingShort ==
    ASSUME IInv, NEW x \in Threads, pc[x] = "step", NEW call, NEW ticks, Moves(x, call, ticks),
           NEW r \in Robots, motion[r].left > 0, motion[r].tool = "fleet.motion", motion[r].acked,
           motion'[r].run = motion[r].run
    PROVE  motion'[r].step = motion[r].step
<1>1. CASE r \notin call[1]
  BY <1>1 DEF Moves
<1>2. CASE r \in call[1]
  <2>1. motion'[r].run = run[x]
    BY <1>2 DEF Moves
  <2>2. Covered("step", run[x], at[x], wait[x], motion[r])
    BY DEF IInv, MotionsSound
  <2> QED
    BY <2>1, <2>2 DEF Covered
<1> QED
  BY <1>1, <1>2

LEMMA StepCutsNothingShort ==
    ASSUME IInv, [Next]_vars, NEW r \in Robots, motion[r].left > 0, motion[r].tool = "fleet.motion",
           motion[r].acked, motion'[r].run = motion[r].run
    PROVE  motion'[r].step = motion[r].step
<1>1. CASE UNCHANGED motion
  BY <1>1
<1>2. CASE Elapse
  <2>1. PICK d \in Nat : motion'[r] = [motion[r] EXCEPT !.left = After(motion[r].left, d)]
    BY <1>2, ElapseIs
  <2>2. motion[r] \in [run : 0..MaxRuns, step : Nat, tool : DirectRosTools \cup {"none"},
                       left : Nat, acked : BOOLEAN]
    BY DEF IInv, TypeOK, MotionTypes
  <2> QED
    BY <2>1, <2>2
<1>3. ASSUME NEW x \in Threads, SafetyStop(x) \/ NudgeForward(x) \/ Motion(x) \/ Rotate(x)
      PROVE  motion'[r].step = motion[r].step
  <2>1. pc[x] = "step"
    BY <1>3 DEF SafetyStop, NudgeForward, Motion, Rotate, At
  <2>2. \E call, ticks : Moves(x, call, ticks)
    BY <1>3 DEF SafetyStop, NudgeForward, Motion, Rotate
  <2> QED
    BY <2>1, <2>2, MovesCutNothingShort
<1>4. \/ UNCHANGED motion \/ Elapse
      \/ \E x \in Threads : SafetyStop(x) \/ NudgeForward(x) \/ Motion(x) \/ Rotate(x)
  <2>1. CASE Plan \/ Restart \/ UNCHANGED vars
    BY <2>1 DEF Plan, Restart, vars
  <2>2. ASSUME NEW x \in Threads, Take(x)
        PROVE  UNCHANGED motion
    BY <2>2 DEF Take
  <2>3. ASSUME NEW x \in Threads,
               \/ Skip(x) \/ Query(x) \/ RotateReturns(x) \/ Rescue(x) \/ Corridor(x)
               \/ AvoidHazard(x) \/ VerifyOrEscort(x) \/ Form(x) \/ PatrolCall(x) \/ Wake(x)
               \/ WriteBack(x)
        PROVE  UNCHANGED motion
    BY <2>3 DEF Skip, Query, RotateReturns, Rescue, Corridor, AvoidHazard, VerifyOrEscort, Form,
                Downlink, PatrolCall, Wake, WriteBack
  <2> QED
    BY <2>1, <2>2, <2>3 DEF Next, RunStep
<1> QED
  BY <1>1, <1>2, <1>3, <1>4

\* A motion that a robot has acknowledged is not cut short by a later step of
\* the same execution: for any durations, any number of robots and threads,
\* whichever answers are lost (_step_execution_delay_seconds).
THEOREM MotionRunsOut == Spec => AcknowledgedMotionRunsOut
<1>1. IInv /\ [Next]_vars =>
          [\A r \in Robots :
             LET m == motion[r] IN
             (m.left > 0 /\ m.tool = "fleet.motion" /\ m.acked /\ motion'[r].run = m.run)
                => motion'[r].step = m.step]_vars
  BY StepCutsNothingShort
<1> QED
  BY <1>1, Invariance, PTL DEF Spec, AcknowledgedMotionRunsOut
===============================================================================
