----------------------------- MODULE GateProofs ------------------------------
(***************************************************************************)
(* Machine-checked proofs about the gate of EmbedGate: its counters are    *)
(* true, its limits hold, and nobody is forgotten, for every number of     *)
(* callers and of slots.  The argument rests on a slot being handed on the *)
(* moment it is given back: at most one call starts when another ends.     *)
(* And about Gateway: an answer is from one slot, however the slots fail.  *)
(***************************************************************************)
EXTENDS Gateway, FiniteSetTheorems, SequenceTheorems, TLAPS

GateInv == GateTypeOK /\ IsFiniteSet(gate.holding) /\ GateSafe /\ WaitsOnce

\* The limits are positive, and a background call never needs the last slot of several.
LEMMA LimitFacts ==
  /\ Limit \in Nat /\ Limit >= 1
  /\ BackgroundLimit \in Nat /\ BackgroundLimit >= 1 /\ BackgroundLimit <= Limit
BY ConcurrencyAssumption DEF Limit, BackgroundLimit

\* What is left of a queue is the rest of it, in its order.
LEMMA RestFacts ==
  ASSUME NEW S, NEW q \in Seq(S), NEW k \in 0..Len(q)
  PROVE  /\ Rest(q, k) \in Seq(S)
         /\ Len(Rest(q, k)) = Len(q) - k
         /\ \A i \in 1..(Len(q) - k) : Rest(q, k)[i] = q[i + k]
<1>1. \A i \in (k + 1)..Len(q) : q[i] \in S
  BY ElementOfSeq
<1>2. k + 1 \in Int /\ Len(q) \in Int
  BY LenProperties
<1>3. QED
  BY <1>1, <1>2, SubSeqProperties DEF Rest

\* The first of a queue is what one hand-over takes from it.
LEMMA FirstFacts ==
  ASSUME NEW q
  PROVE  FirstOf(q, 0) = {} /\ FirstOf(q, 1) = {q[1]}
<1>1. 1..0 = {} /\ 1..1 = {1}
  OBVIOUS
<1>2. QED
  BY <1>1 DEF FirstOf

\* One more at the end of a queue.
LEMMA AppendFirst ==
  ASSUME NEW S, NEW q \in Seq(S), NEW c \in S
  PROVE  FirstOf(Append(q, c), Len(Append(q, c))) = FirstOf(q, Len(q)) \cup {c}
<1>1. Len(q) \in Nat
  BY LenProperties
<1>2. 1..(Len(q) + 1) = (1..Len(q)) \cup {Len(q) + 1}
  BY <1>1
<1>3. /\ Len(Append(q, c)) = Len(q) + 1
      /\ \A i \in 1..Len(q) : Append(q, c)[i] = q[i]
      /\ Append(q, c)[Len(q) + 1] = c
  BY AppendProperties
<1> HIDE DEF Append
<1>4. QED
  BY <1>1, <1>2, <1>3, Zenon DEF FirstOf

\* The smaller of two numbers.
LEMMA LeastFacts ==
  ASSUME NEW x \in Int, NEW y \in Int
  PROVE  /\ Least(x, y) \in Int /\ Least(x, y) <= x /\ Least(x, y) <= y
         /\ Least(x, y) = x \/ Least(x, y) = y
BY DEF Least

-----------------------------------------------------------------------------
\* An arriving call takes a slot, or queues where somebody is before it or no slot is free.
LEMMA EnterKeepsGate ==
  ASSUME GateInv, NEW c \in Callers, Enter(c)
  PROVE  GateInv'
<1> USE DEF GateInv, GateSafe
<1>1. c \notin gate.holding /\ c \notin Waiting(gate)
  BY DEF Enter
<1>2. CASE Walks(gate, c)
  <2>1. gate' = [gate EXCEPT !.inFlight = @ + 1,
                             !.backgroundInFlight = IF c \in Background THEN @ + 1 ELSE @,
                             !.holding = @ \cup {c}]
    BY <1>2 DEF Enter, Entered
  <2>2. GateTypeOK'
    <3>1. (IF c \in Background THEN gate.backgroundInFlight + 1 ELSE gate.backgroundInFlight) \in Nat
      BY DEF GateTypeOK
    <3>2. gate.holding \cup {c} \in SUBSET Callers
      BY DEF GateTypeOK
    <3>3. gate' = [inFlight |-> gate.inFlight + 1,
                   backgroundInFlight |-> IF c \in Background THEN gate.backgroundInFlight + 1
                                                              ELSE gate.backgroundInFlight,
                   queries |-> gate.queries, backlog |-> gate.backlog,
                   holding |-> gate.holding \cup {c}]
      BY <2>1 DEF GateTypeOK
    <3>4. QED
      BY <3>1, <3>2, <3>3 DEF GateTypeOK
  <2>3. IsFiniteSet(gate'.holding) /\ Cardinality(gate'.holding) = Cardinality(gate.holding) + 1
    BY <1>1, <2>1, FS_AddElement DEF GateTypeOK
  <2>4. Cardinality(gate'.holding \cap Background)
          = IF c \in Background THEN Cardinality(gate.holding \cap Background) + 1
                                ELSE Cardinality(gate.holding \cap Background)
    <3>1. IsFiniteSet(gate.holding \cap Background)
      BY FS_Intersection
    <3>2. CASE c \in Background
      <4>1. gate'.holding \cap Background = (gate.holding \cap Background) \cup {c}
        BY <2>1, <3>2 DEF GateTypeOK
      <4>2. QED
        BY <1>1, <3>1, <3>2, <4>1, FS_AddElement
    <3>3. CASE c \notin Background
      <4>1. gate'.holding \cap Background = gate.holding \cap Background
        BY <2>1, <3>3 DEF GateTypeOK
      <4>2. QED
        BY <3>3, <4>1
    <3>4. QED
      BY <3>2, <3>3
  <2>5. CountsHolders'
    BY <2>1, <2>3, <2>4 DEF CountsHolders, GateTypeOK
  <2>6. LimitsKept'
    BY <1>2, <2>1, LimitFacts DEF LimitsKept, GateTypeOK, Walks, CanStart
  <2>7. NobodyForgotten'
    BY <1>2, <2>1, LimitFacts DEF NobodyForgotten, GateTypeOK, Walks, CanStart
  <2>8. WaitsOnce'
    BY <1>1, <2>1 DEF WaitsOnce, Waiting, GateTypeOK
  <2>9. QED
    BY <2>2, <2>3, <2>5, <2>6, <2>7, <2>8
<1>3. CASE ~Walks(gate, c) /\ c \in Background
  <2>1. gate' = [gate EXCEPT !.backlog = Append(@, c)]
    BY <1>3 DEF Enter, Entered
  <2>2. /\ Append(gate.backlog, c) \in Seq(Background)
        /\ Append(gate.backlog, c) # <<>>
        /\ Len(Append(gate.backlog, c)) = Len(gate.backlog) + 1
        /\ \A i \in 1..Len(gate.backlog) : Append(gate.backlog, c)[i] = gate.backlog[i]
        /\ Append(gate.backlog, c)[Len(gate.backlog) + 1] = c
    BY <1>3, AppendProperties DEF GateTypeOK
  <2>3. GateTypeOK'
    BY <2>1, <2>2 DEF GateTypeOK
  <2>4. CountsHolders' /\ LimitsKept' /\ IsFiniteSet(gate'.holding)
    BY <2>1 DEF CountsHolders, LimitsKept, GateTypeOK
  <2>5. NobodyForgotten'
    BY <1>3, <2>1, LimitFacts DEF NobodyForgotten, GateTypeOK, Walks, CanStart
  <2>6. \A i \in 1..Len(gate.backlog) : gate.backlog[i] # c
    BY <1>1 DEF Waiting, FirstOf
  <2>7. Len(gate.backlog) \in Nat
    BY LenProperties DEF GateTypeOK
  <2>8. Waiting(gate') = Waiting(gate) \cup {c}
    <3>1. FirstOf(Append(gate.backlog, c), Len(Append(gate.backlog, c)))
            = FirstOf(gate.backlog, Len(gate.backlog)) \cup {c}
      BY <1>3, AppendFirst DEF GateTypeOK
    <3>2. /\ gate'.backlog = Append(gate.backlog, c)
          /\ gate'.queries = gate.queries
      BY <2>1 DEF GateTypeOK
    <3>3. QED
      BY <3>1, <3>2 DEF Waiting
  <2>9. WaitsOnce'
    <3>1. gate'.holding \cap Waiting(gate') = {}
      BY <1>1, <2>1, <2>8 DEF WaitsOnce, GateTypeOK
    <3>2. \A i, j \in 1..Len(gate'.queries) : gate'.queries[i] = gate'.queries[j] => i = j
      BY <2>1 DEF WaitsOnce, GateTypeOK
    <3>3. \A i, j \in 1..Len(gate'.backlog) : gate'.backlog[i] = gate'.backlog[j] => i = j
      BY <2>1, <2>2, <2>6, <2>7 DEF WaitsOnce, GateTypeOK
    <3>4. QED
      BY <3>1, <3>2, <3>3 DEF WaitsOnce
  <2>10. QED
    BY <2>3, <2>4, <2>5, <2>9
<1>4. CASE ~Walks(gate, c) /\ c \notin Background
  <2>1. gate' = [gate EXCEPT !.queries = Append(@, c)]
    BY <1>4 DEF Enter, Entered
  <2>2. /\ Append(gate.queries, c) \in Seq(Callers \ Background)
        /\ Append(gate.queries, c) # <<>>
        /\ Len(Append(gate.queries, c)) = Len(gate.queries) + 1
        /\ \A i \in 1..Len(gate.queries) : Append(gate.queries, c)[i] = gate.queries[i]
        /\ Append(gate.queries, c)[Len(gate.queries) + 1] = c
    BY <1>4, AppendProperties DEF GateTypeOK
  <2>3. GateTypeOK'
    BY <2>1, <2>2 DEF GateTypeOK
  <2>4. CountsHolders' /\ LimitsKept' /\ IsFiniteSet(gate'.holding)
    BY <2>1 DEF CountsHolders, LimitsKept, GateTypeOK
  <2>5. NobodyForgotten'
    BY <1>4, <2>1, LimitFacts DEF NobodyForgotten, GateTypeOK, Walks, CanStart
  <2>6. \A i \in 1..Len(gate.queries) : gate.queries[i] # c
    BY <1>1 DEF Waiting, FirstOf
  <2>7. Len(gate.queries) \in Nat
    BY LenProperties DEF GateTypeOK
  <2>8. Waiting(gate') = Waiting(gate) \cup {c}
    <3>1. FirstOf(Append(gate.queries, c), Len(Append(gate.queries, c)))
            = FirstOf(gate.queries, Len(gate.queries)) \cup {c}
      BY <1>4, AppendFirst DEF GateTypeOK
    <3>2. /\ gate'.queries = Append(gate.queries, c)
          /\ gate'.backlog = gate.backlog
      BY <2>1 DEF GateTypeOK
    <3>3. QED
      BY <3>1, <3>2 DEF Waiting
  <2>9. WaitsOnce'
    <3>1. gate'.holding \cap Waiting(gate') = {}
      BY <1>1, <2>1, <2>8 DEF WaitsOnce, GateTypeOK
    <3>2. \A i, j \in 1..Len(gate'.backlog) : gate'.backlog[i] = gate'.backlog[j] => i = j
      BY <2>1 DEF WaitsOnce, GateTypeOK
    <3>3. \A i, j \in 1..Len(gate'.queries) : gate'.queries[i] = gate'.queries[j] => i = j
      BY <2>1, <2>2, <2>6, <2>7 DEF WaitsOnce, GateTypeOK
    <3>4. QED
      BY <3>1, <3>2, <3>3 DEF WaitsOnce
  <2>10. QED
    BY <2>3, <2>4, <2>5, <2>9
<1>5. QED
  BY <1>2, <1>3, <1>4

-----------------------------------------------------------------------------
\* A slot that is given back goes to one query, or to one background call, or to nobody.
LEMMA OneHandOver ==
  ASSUME GateInv, NEW c \in gate.holding
  PROVE  LET g == GivenBack(gate, c)
         IN /\ QueriesServed(g) \in {0, 1} /\ BackgroundServed(g) \in {0, 1}
            /\ QueriesServed(g) <= Len(gate.queries) /\ BackgroundServed(g) <= Len(gate.backlog)
            /\ QueriesServed(g) = 1 => BackgroundServed(g) = 0 /\ gate.inFlight = Limit
            /\ gate.queries # <<>> => QueriesServed(g) = 1
            /\ BackgroundServed(g) = 1 =>
                 /\ gate.queries = <<>>
                 /\ g.inFlight < Limit /\ g.backgroundInFlight < BackgroundLimit
            /\ gate.queries = <<>> /\ gate.backlog # <<>> /\ BackgroundServed(g) = 0 =>
                 g.inFlight >= Limit \/ g.backgroundInFlight >= BackgroundLimit
            /\ gate.backlog # <<>> /\ BackgroundServed(g) = 1 =>
                 gate.inFlight >= Limit \/ gate.backgroundInFlight >= BackgroundLimit
<1> DEFINE g == GivenBack(gate, c)
<1> USE DEF GateInv, GateSafe
<1>1. /\ g.inFlight = gate.inFlight - 1
      /\ g.backgroundInFlight = IF c \in Background THEN gate.backgroundInFlight - 1
                                                    ELSE gate.backgroundInFlight
      /\ g.queries = gate.queries /\ g.backlog = gate.backlog
  BY DEF GivenBack, GateTypeOK
<1>2. gate.inFlight >= 1
  <2>1. Cardinality(gate.holding) # 0
    BY FS_EmptySet
  <2>2. QED
    BY <2>1 DEF CountsHolders, GateTypeOK
<1>3. c \in Background => gate.backgroundInFlight >= 1
  <2>1. IsFiniteSet(gate.holding \cap Background)
    BY FS_Intersection
  <2>2. c \in Background => Cardinality(gate.holding \cap Background) # 0
    BY <2>1, FS_EmptySet
  <2>3. QED
    BY <2>2 DEF CountsHolders, GateTypeOK
<1>4. /\ Len(gate.queries) \in Nat /\ (Len(gate.queries) = 0 <=> gate.queries = <<>>)
      /\ Len(gate.backlog) \in Nat /\ (Len(gate.backlog) = 0 <=> gate.backlog = <<>>)
  BY EmptySeq, LenProperties DEF GateTypeOK
<1>5. /\ gate.inFlight \in Nat /\ gate.inFlight <= Limit
      /\ gate.backgroundInFlight \in Nat /\ gate.backgroundInFlight <= BackgroundLimit
  BY DEF GateTypeOK, LimitsKept
<1>6. /\ gate.queries # <<>> => gate.inFlight = Limit
      /\ gate.backlog # <<>> => gate.inFlight = Limit \/ gate.backgroundInFlight = BackgroundLimit
  BY <1>5, LimitFacts DEF NobodyForgotten
<1> HIDE DEF g
<1>7. QueriesServed(g) = IF gate.queries = <<>> THEN 0 ELSE 1
  BY <1>1, <1>2, <1>4, <1>5, <1>6, LimitFacts DEF QueriesServed, Least
<1>70. /\ Limit - g.inFlight - QueriesServed(g) \in Nat
       /\ BackgroundLimit - g.backgroundInFlight \in Nat
  BY <1>1, <1>2, <1>3, <1>5, <1>6, <1>7, LimitFacts
<1>8. gate.queries # <<>> => BackgroundServed(g) = 0
  <2>1. gate.queries # <<>> => Limit - g.inFlight - QueriesServed(g) = 0
    BY <1>1, <1>5, <1>6, <1>7, LimitFacts
  <2>2. QED
    BY <1>1, <1>4, <1>70, <2>1 DEF BackgroundServed, Least
<1>9. gate.backlog = <<>> => BackgroundServed(g) = 0
  BY <1>1, <1>2, <1>3, <1>4, <1>5, <1>7, LimitFacts DEF BackgroundServed, Least
<1>10. ASSUME gate.queries = <<>>, gate.backlog # <<>>
       PROVE  BackgroundServed(g) = IF /\ g.inFlight < Limit
                                       /\ g.backgroundInFlight < BackgroundLimit
                                    THEN 1 ELSE 0
  <2>1. /\ Limit - g.inFlight - QueriesServed(g) = Limit - g.inFlight
        /\ Len(gate.backlog) >= 1
        /\ QueriesServed(g) = Len(g.queries)
    BY <1>1, <1>4, <1>5, <1>7, <1>10, LimitFacts
  <2>2. Limit - g.inFlight <= 1 \/ BackgroundLimit - g.backgroundInFlight <= 1
    BY <1>1, <1>5, <1>6, <1>10, LimitFacts
  <2>3. g.inFlight \in Int /\ g.backgroundInFlight \in Int
    BY <1>1, <1>5
  <2>4. BackgroundServed(g) = Least(Len(gate.backlog),
                                    Least(Limit - g.inFlight, BackgroundLimit - g.backgroundInFlight))
    BY <1>1, <1>4, <2>1 DEF BackgroundServed
  <2>5. /\ Limit - g.inFlight \in Nat /\ (Limit - g.inFlight >= 1 <=> g.inFlight < Limit)
        /\ (BackgroundLimit - g.backgroundInFlight >= 1 <=> g.backgroundInFlight < BackgroundLimit)
    BY <1>70, <2>1, <2>3, LimitFacts, SMTT(20)
  <2>6. QED
    BY <1>4, <1>70, <2>1, <2>2, <2>4, <2>5 DEF Least
<1>11. g.inFlight \in Int /\ g.backgroundInFlight \in Int
  BY <1>1, <1>5
<1>12. QED
  BY <1>4, <1>6, <1>7, <1>8, <1>9, <1>10, <1>11, LimitFacts DEF g

\* Who still waits when k calls of a queue were handed a slot.
LEMMA RestWaits ==
  ASSUME NEW S, NEW q \in Seq(S), NEW k \in {0, 1}, k <= Len(q),
         \A i, j \in 1..Len(q) : q[i] = q[j] => i = j
  PROVE  /\ FirstOf(Rest(q, k), Len(Rest(q, k))) \subseteq FirstOf(q, Len(q))
         /\ k = 1 => q[1] \in FirstOf(q, Len(q)) /\ q[1] \notin FirstOf(Rest(q, k), Len(Rest(q, k)))
         /\ \A i, j \in 1..Len(Rest(q, k)) : Rest(q, k)[i] = Rest(q, k)[j] => i = j
<1>0. k \in 0..Len(q)
  BY LenProperties
<1>1. /\ Len(Rest(q, k)) = Len(q) - k
      /\ \A i \in 1..(Len(q) - k) : Rest(q, k)[i] = q[i + k]
  BY <1>0, RestFacts
<1>2. Len(q) \in Nat
  BY LenProperties
<1>3. \A i \in 1..(Len(q) - k) : i + k \in 1..Len(q) /\ i + k # k
  BY <1>2
<1>4. FirstOf(Rest(q, k), Len(Rest(q, k))) \subseteq FirstOf(q, Len(q))
  BY <1>1, <1>3 DEF FirstOf
<1>5. k = 1 => q[1] \in FirstOf(q, Len(q)) /\ q[1] \notin FirstOf(Rest(q, k), Len(Rest(q, k)))
  BY <1>1, <1>2, <1>3 DEF FirstOf
<1>6. \A i, j \in 1..Len(Rest(q, k)) : Rest(q, k)[i] = Rest(q, k)[j] => i = j
  BY <1>1, <1>2, <1>3
<1>7. QED
  BY <1>4, <1>5, <1>6

\* A call that ends gives its slot back, and it is handed on.
LEMMA LeaveKeepsGate ==
  ASSUME GateInv, NEW c \in Callers, Leave(c)
  PROVE  /\ GateInv'
         /\ AfterQueries
<1> DEFINE g == GivenBack(gate, c)
           q == QueriesServed(g)
           b == BackgroundServed(g)
           given == FirstOf(gate.queries, q) \cup FirstOf(gate.backlog, b)
<1> USE DEF GateInv, GateSafe
<1>1. c \in gate.holding
  BY DEF Leave
<1>2. /\ g.inFlight = gate.inFlight - 1
      /\ g.backgroundInFlight = IF c \in Background THEN gate.backgroundInFlight - 1
                                                    ELSE gate.backgroundInFlight
      /\ g.queries = gate.queries /\ g.backlog = gate.backlog
      /\ g.holding = gate.holding \ {c}
  BY DEF GivenBack, GateTypeOK
<1>3. gate' = [inFlight |-> g.inFlight + q + b,
              backgroundInFlight |-> g.backgroundInFlight + b,
              queries |-> Rest(gate.queries, q), backlog |-> Rest(gate.backlog, b),
              holding |-> (gate.holding \ {c}) \cup given]
  <2>1. gate' = [inFlight |-> g.inFlight + q + b,
                backgroundInFlight |-> g.backgroundInFlight + b,
                queries |-> Rest(g.queries, q), backlog |-> Rest(g.backlog, b),
                holding |-> g.holding \cup FirstOf(g.queries, q) \cup FirstOf(g.backlog, b)]
    BY DEF Leave, Released, HandedOver
  <2>2. QED
    BY <1>2, <2>1
<1>4. /\ q \in {0, 1} /\ b \in {0, 1}
      /\ q <= Len(gate.queries) /\ b <= Len(gate.backlog)
      /\ q = 1 => b = 0 /\ gate.inFlight = Limit
      /\ gate.queries # <<>> => q = 1
      /\ b = 1 => /\ gate.queries = <<>>
                  /\ g.inFlight < Limit /\ g.backgroundInFlight < BackgroundLimit
      /\ gate.queries = <<>> /\ gate.backlog # <<>> /\ b = 0 =>
           g.inFlight >= Limit \/ g.backgroundInFlight >= BackgroundLimit
      /\ gate.backlog # <<>> /\ b = 1 =>
           gate.inFlight >= Limit \/ gate.backgroundInFlight >= BackgroundLimit
  BY <1>1, OneHandOver
<1>5. /\ gate.inFlight \in Nat /\ gate.backgroundInFlight \in Nat
      /\ gate.holding \subseteq Callers
      /\ gate.queries \in Seq(Callers \ Background) /\ gate.backlog \in Seq(Background)
  BY DEF GateTypeOK
<1>6. /\ Len(gate.queries) \in Nat /\ Len(gate.backlog) \in Nat
      /\ (Len(gate.queries) = 0 <=> gate.queries = <<>>) /\ (Len(gate.backlog) = 0 <=> gate.backlog = <<>>)
  BY <1>5, EmptySeq, LenProperties
<1> HIDE DEF g, q, b
\* The one that is given the slot, if there is one.
<1>7. /\ q = 0 => FirstOf(gate.queries, q) = {}
      /\ q = 1 => FirstOf(gate.queries, q) = {gate.queries[1]}
      /\ b = 0 => FirstOf(gate.backlog, b) = {}
      /\ b = 1 => FirstOf(gate.backlog, b) = {gate.backlog[1]}
  BY FirstFacts
<1>8. /\ q = 1 => gate.queries[1] \in Callers \ Background
      /\ b = 1 => gate.backlog[1] \in Background
  BY <1>4, <1>5, <1>6, ElementOfSeq
<1>9. /\ FirstOf(Rest(gate.queries, q), Len(Rest(gate.queries, q))) \subseteq FirstOf(gate.queries, Len(gate.queries))
      /\ q = 1 => /\ gate.queries[1] \in FirstOf(gate.queries, Len(gate.queries))
                  /\ gate.queries[1] \notin FirstOf(Rest(gate.queries, q), Len(Rest(gate.queries, q)))
      /\ \A i, j \in 1..Len(Rest(gate.queries, q)) :
           Rest(gate.queries, q)[i] = Rest(gate.queries, q)[j] => i = j
  <2>1. \A i, j \in 1..Len(gate.queries) : gate.queries[i] = gate.queries[j] => i = j
    BY DEF WaitsOnce
  <2>2. gate.queries \in Seq(Callers \ Background) /\ q \in {0, 1} /\ q <= Len(gate.queries)
    BY <1>4, <1>5
  <2>3. QED
    BY <2>1, <2>2, RestWaits
<1>90. /\ FirstOf(Rest(gate.backlog, b), Len(Rest(gate.backlog, b))) \subseteq FirstOf(gate.backlog, Len(gate.backlog))
       /\ b = 1 => /\ gate.backlog[1] \in FirstOf(gate.backlog, Len(gate.backlog))
                   /\ gate.backlog[1] \notin FirstOf(Rest(gate.backlog, b), Len(Rest(gate.backlog, b)))
       /\ \A i, j \in 1..Len(Rest(gate.backlog, b)) :
            Rest(gate.backlog, b)[i] = Rest(gate.backlog, b)[j] => i = j
  <2>1. \A i, j \in 1..Len(gate.backlog) : gate.backlog[i] = gate.backlog[j] => i = j
    BY DEF WaitsOnce
  <2>2. gate.backlog \in Seq(Background) /\ b \in {0, 1} /\ b <= Len(gate.backlog)
    BY <1>4, <1>5
  <2>3. QED
    BY <2>1, <2>2, RestWaits
\* The two lanes share no call.
<1>91. FirstOf(gate.queries, Len(gate.queries)) \cap FirstOf(gate.backlog, Len(gate.backlog)) = {}
  <2>1. \A i \in 1..Len(gate.queries) : gate.queries[i] \in Callers \ Background
    BY <1>5, ElementOfSeq
  <2>2. \A i \in 1..Len(gate.backlog) : gate.backlog[i] \in Background
    BY <1>5, ElementOfSeq
  <2>3. QED
    BY <2>1, <2>2 DEF FirstOf
<1>92. gate.holding \cap Waiting(gate) = {}
  BY DEF WaitsOnce
<1>10. given \subseteq Waiting(gate) /\ given \cap gate.holding = {} /\ given \subseteq Callers
  <2>1. given \subseteq Waiting(gate)
    BY <1>4, <1>7, <1>9, <1>90 DEF Waiting
  <2>2. given \subseteq Callers
    BY <1>4, <1>7, <1>8, BackgroundAssumption
  <2>3. QED
    BY <1>92, <2>1, <2>2
<1>11. /\ Rest(gate.queries, q) \in Seq(Callers \ Background)
       /\ q = 0 => Len(Rest(gate.queries, q)) = Len(gate.queries)
       /\ Rest(gate.backlog, b) \in Seq(Background)
       /\ b = 0 => Len(Rest(gate.backlog, b)) = Len(gate.backlog)
       /\ Len(Rest(gate.backlog, b)) = Len(gate.backlog) - b
  <2>1. q \in 0..Len(gate.queries) /\ b \in 0..Len(gate.backlog)
    BY <1>4, <1>6
  <2>2. /\ Rest(gate.queries, q) \in Seq(Callers \ Background)
        /\ Len(Rest(gate.queries, q)) = Len(gate.queries) - q
    BY <1>5, <2>1, RestFacts
  <2>3. /\ Rest(gate.backlog, b) \in Seq(Background)
        /\ Len(Rest(gate.backlog, b)) = Len(gate.backlog) - b
    BY <1>5, <2>1, RestFacts
  <2>4. QED
    BY <1>6, <2>2, <2>3
\* The counters follow the calls that hold a slot.
<1>12. /\ IsFiniteSet(gate'.holding)
       /\ Cardinality(gate'.holding) = g.inFlight + q + b
       /\ Cardinality(gate'.holding \cap Background) = g.backgroundInFlight + b
  <2> DEFINE stays == gate.holding \ {c}
  <2>1. IsFiniteSet(stays) /\ Cardinality(stays) = g.inFlight
    BY <1>1, <1>2, FS_RemoveElement DEF CountsHolders
  <2>2. IsFiniteSet(stays \cap Background) /\ Cardinality(stays \cap Background) = g.backgroundInFlight
    <3>1. IsFiniteSet(gate.holding \cap Background)
      BY FS_Intersection
    <3>2. CASE c \in Background
      <4>1. stays \cap Background = (gate.holding \cap Background) \ {c}
        OBVIOUS
      <4>2. c \in gate.holding \cap Background
        BY <1>1, <3>2
      <4>3. /\ IsFiniteSet((gate.holding \cap Background) \ {c})
            /\ Cardinality((gate.holding \cap Background) \ {c})
                 = Cardinality(gate.holding \cap Background) - 1
        BY <3>1, <4>2, FS_RemoveElement
      <4>4. QED
        BY <1>2, <3>2, <4>1, <4>3 DEF CountsHolders
    <3>3. CASE c \notin Background
      <4>1. stays \cap Background = gate.holding \cap Background
        BY <3>3
      <4>2. QED
        BY <1>2, <3>1, <3>3, <4>1 DEF CountsHolders
    <3>4. QED
      BY <3>2, <3>3
  <2>3. gate'.holding = stays \cup given
    BY <1>3
  <2>4. g.inFlight \in Int /\ g.backgroundInFlight \in Int
    BY <1>2, <1>5
  <2> HIDE DEF stays
  <2>5. CASE q = 1
    <3>1. given = {gate.queries[1]} /\ b = 0
      BY <1>4, <1>7, <2>5
    <3>2. gate.queries[1] \notin stays /\ gate.queries[1] \notin Background
      BY <1>8, <1>10, <2>5, <3>1 DEF stays
    <3>3. (stays \cup {gate.queries[1]}) \cap Background = stays \cap Background
      BY <3>2
    <3>4. /\ IsFiniteSet(stays \cup {gate.queries[1]})
          /\ Cardinality(stays \cup {gate.queries[1]}) = Cardinality(stays) + 1
      BY <2>1, <3>2, FS_AddElement
    <3>5. gate'.holding = stays \cup {gate.queries[1]}
      BY <2>3, <3>1
    <3>6. /\ IsFiniteSet(gate'.holding)
          /\ Cardinality(gate'.holding) = g.inFlight + 1
          /\ Cardinality(gate'.holding \cap Background) = g.backgroundInFlight
      BY <2>1, <2>2, <3>3, <3>4, <3>5
    <3>7. QED
      BY <2>4, <2>5, <3>1, <3>6
  <2>6. CASE b = 1
    <3>1. given = {gate.backlog[1]} /\ q = 0
      BY <1>4, <1>7, <2>6
    <3>2. gate.backlog[1] \notin stays /\ gate.backlog[1] \in Background
      BY <1>8, <1>10, <2>6, <3>1 DEF stays
    <3>3. (stays \cup {gate.backlog[1]}) \cap Background
            = (stays \cap Background) \cup {gate.backlog[1]}
      BY <3>2
    <3>4. /\ IsFiniteSet(stays \cup {gate.backlog[1]})
          /\ Cardinality(stays \cup {gate.backlog[1]}) = Cardinality(stays) + 1
      BY <2>1, <3>2, FS_AddElement
    <3>5. Cardinality((stays \cap Background) \cup {gate.backlog[1]})
            = Cardinality(stays \cap Background) + 1
      BY <2>2, <3>2, FS_AddElement
    <3>6. gate'.holding = stays \cup {gate.backlog[1]}
      BY <2>3, <3>1
    <3>7. /\ IsFiniteSet(gate'.holding)
          /\ Cardinality(gate'.holding) = g.inFlight + 1
          /\ Cardinality(gate'.holding \cap Background) = g.backgroundInFlight + 1
      BY <2>1, <2>2, <3>3, <3>4, <3>5, <3>6
    <3>8. QED
      BY <2>4, <2>6, <3>1, <3>7
  <2>7. CASE q = 0 /\ b = 0
    <3>1. given = {}
      BY <1>7, <2>7
    <3>2. gate'.holding = stays
      BY <2>3, <3>1
    <3>3. QED
      BY <2>1, <2>2, <2>4, <2>7, <3>2
  <2>8. QED
    BY <1>4, <2>5, <2>6, <2>7
<1>13. LimitsKept'
  BY <1>2, <1>3, <1>4, <1>5, LimitFacts DEF LimitsKept
<1>14. CountsHolders'
  BY <1>3, <1>12 DEF CountsHolders
<1>15. GateTypeOK'
  <2>1. /\ Cardinality(gate'.holding) \in Nat
        /\ Cardinality(gate'.holding \cap Background) \in Nat
    BY <1>12, FS_CardinalityType, FS_Intersection
  <2>2. g.inFlight + q + b \in Nat /\ g.backgroundInFlight + b \in Nat
    BY <1>12, <2>1
  <2>3. (gate.holding \ {c}) \cup given \in SUBSET Callers
    BY <1>5, <1>10
  <2>4. QED
    BY <1>3, <1>11, <2>2, <2>3 DEF GateTypeOK
<1>16. NobodyForgotten'
  <2>1. /\ gate'.queries = Rest(gate.queries, q) /\ gate'.backlog = Rest(gate.backlog, b)
        /\ gate'.inFlight = g.inFlight + q + b
        /\ gate'.backgroundInFlight = g.backgroundInFlight + b
    BY <1>3
  <2>2. gate'.queries # <<>> => gate.queries # <<>>
    BY <1>4, <1>6, <1>11, <2>1, EmptySeq
  <2>3. gate'.backlog # <<>> => gate.backlog # <<>>
    BY <1>4, <1>6, <1>11, <2>1, EmptySeq
  <2>4. q = 1 => gate'.inFlight >= Limit
    BY <1>2, <1>4, <1>5, <2>1, LimitFacts
  <2>5. q = 0 => gate.queries = <<>>
    BY <1>4
  <2>6. q = 0 /\ b = 0 /\ gate.backlog # <<>> =>
          gate'.inFlight >= Limit \/ gate'.backgroundInFlight >= BackgroundLimit
    BY <1>2, <1>4, <1>5, <2>1, <2>5
  <2>7. b = 1 => gate.backlog # <<>>
    BY <1>4, <1>6
  <2>8. ASSUME b = 1
        PROVE  gate'.inFlight >= Limit \/ gate'.backgroundInFlight >= BackgroundLimit
    <3>1. q = 0 /\ (gate.inFlight >= Limit \/ gate.backgroundInFlight >= BackgroundLimit)
      BY <1>4, <2>7, <2>8
    <3>2. gate'.inFlight = gate.inFlight
      BY <1>2, <1>5, <2>1, <2>8, <3>1
    <3>3. c \in Background => gate'.backgroundInFlight = gate.backgroundInFlight
      BY <1>2, <1>5, <2>1, <2>8
    <3>4. c \notin Background => gate'.backgroundInFlight = gate.backgroundInFlight + 1
      BY <1>2, <1>5, <2>1, <2>8
    <3>5. QED
      BY <1>5, <3>1, <3>2, <3>3, <3>4, LimitFacts
  <2>9. QED
    BY <1>4, <2>2, <2>3, <2>4, <2>5, <2>6, <2>8 DEF NobodyForgotten
<1>17. WaitsOnce'
  <2>1. /\ gate'.queries = Rest(gate.queries, q) /\ gate'.backlog = Rest(gate.backlog, b)
        /\ gate'.holding = (gate.holding \ {c}) \cup given
    BY <1>3
  <2>2. Waiting(gate') \subseteq Waiting(gate)
    BY <1>9, <1>90, <2>1 DEF Waiting
  <2>3. given \cap Waiting(gate') = {}
    <3>1. CASE q = 1
      BY <1>4, <1>7, <1>9, <1>90, <1>91, <2>1, <3>1 DEF Waiting
    <3>2. CASE b = 1
      BY <1>4, <1>7, <1>9, <1>90, <1>91, <2>1, <3>2 DEF Waiting
    <3>3. CASE q = 0 /\ b = 0
      BY <1>7, <3>3
    <3>4. QED
      BY <1>4, <3>1, <3>2, <3>3
  <2>4. gate'.holding \cap Waiting(gate') = {}
    BY <1>92, <2>1, <2>2, <2>3
  <2>5. QED
    BY <1>9, <1>90, <2>1, <2>4 DEF WaitsOnce
<1>18. AfterQueries
  <2>1. SUFFICES ASSUME NEW d \in Background, d \in gate'.holding \ gate.holding
                 PROVE  gate'.queries = <<>>
    BY DEF AfterQueries
  <2>2. d \in given
    BY <1>3, <2>1
  <2>3. q = 0
    BY <1>4, <1>7, <1>8, <2>2
  <2>4. gate'.queries = Rest(gate.queries, q) /\ gate.queries = <<>>
    BY <1>3, <1>4, <2>3
  <2>5. Len(Rest(gate.queries, q)) = 0
    BY <1>6, <1>11, <2>3, <2>4
  <2>6. QED
    BY <1>11, <2>4, <2>5, EmptySeq
<1>19. QED
  BY <1>12, <1>13, <1>14, <1>15, <1>16, <1>17, <1>18

-----------------------------------------------------------------------------
\* The empty gate satisfies the invariant.
LEMMA EmptyGateSafe == GateInit => GateInv
<1> SUFFICES ASSUME GateInit PROVE GateInv
  OBVIOUS
<1>1. gate = EmptyGate
  BY DEF GateInit
<1>2. Len(<<>>) = 0 /\ 1..0 = {}
  BY EmptySeq
<1>3. IsFiniteSet({}) /\ Cardinality({}) = 0 /\ {} \cap Background = {}
  BY FS_EmptySet
<1>4. gate.queries = <<>> /\ gate.backlog = <<>> /\ gate.holding = {}
  BY <1>1 DEF EmptyGate
<1>5. GateTypeOK
  BY <1>1, EmptySeq DEF EmptyGate, GateTypeOK
<1>6. CountsHolders /\ LimitsKept /\ NobodyForgotten
  BY <1>1, <1>3, LimitFacts DEF EmptyGate, CountsHolders, LimitsKept, NobodyForgotten
<1>7. WaitsOnce
  BY <1>2, <1>4 DEF WaitsOnce
<1>8. QED
  BY <1>3, <1>4, <1>5, <1>6, <1>7 DEF GateInv, GateSafe

\* A background call that walks in finds no query waiting.
LEMMA WalksPastNobody ==
  ASSUME GateInv, NEW c \in Callers, Enter(c)
  PROVE  AfterQueries
<1>1. gate \in [inFlight : Nat, backgroundInFlight : Nat,
               queries : Seq(Callers \ Background), backlog : Seq(Background),
               holding : SUBSET Callers]
  BY DEF GateInv, GateTypeOK
<1>2. CASE Walks(gate, c)
  <2>1. gate'.queries = gate.queries
    BY <1>1, <1>2 DEF Enter, Entered
  <2>2. QED
    BY <1>2, <2>1 DEF Walks, AfterQueries
<1>3. CASE ~Walks(gate, c)
  <2>1. gate'.holding = gate.holding
    BY <1>1, <1>3 DEF Enter, Entered
  <2>2. QED
    BY <2>1 DEF AfterQueries
<1>4. QED
  BY <1>2, <1>3

\* Every step keeps the invariant.
LEMMA GateInvInductive == GateInv /\ [GateNext]_gate => GateInv'
<1> SUFFICES ASSUME GateInv, [GateNext]_gate PROVE GateInv'
  OBVIOUS
<1>1. ASSUME NEW c \in Callers, Enter(c) PROVE GateInv'
  BY <1>1, EnterKeepsGate
<1>2. ASSUME NEW c \in Callers, Leave(c) PROVE GateInv'
  BY <1>2, LeaveKeepsGate
<1>3. CASE UNCHANGED gate
  BY <1>3 DEF GateInv, GateTypeOK, GateSafe, CountsHolders, LimitsKept, NobodyForgotten,
              WaitsOnce, Waiting
<1>4. QED
  BY <1>1, <1>2, <1>3 DEF GateNext

(***************************************************************************)
(* The counters of the gate are the calls that hold a slot, its limits     *)
(* hold, and no call waits for a slot it could have, in every state, for   *)
(* any number of callers and of slots.                                     *)
(***************************************************************************)
THEOREM GateIsSafe == GateSpec => []GateSafe
<1>1. GateInv => GateSafe
  BY DEF GateInv
<1>2. QED
  BY EmptyGateSafe, GateInvInductive, <1>1, PTL DEF GateSpec

(***************************************************************************)
(* No background call ever gets a slot while a query is left waiting.      *)
(***************************************************************************)
THEOREM QueriesGoFirst == GateSpec => QueriesFirst
<1>1. GateInv /\ [GateNext]_gate => [AfterQueries]_gate
  <2> SUFFICES ASSUME GateInv, GateNext PROVE AfterQueries
    OBVIOUS
  <2>1. ASSUME NEW c \in Callers, Enter(c) PROVE AfterQueries
    BY <2>1, WalksPastNobody
  <2>2. ASSUME NEW c \in Callers, Leave(c) PROVE AfterQueries
    BY <2>2, LeaveKeepsGate
  <2>3. QED
    BY <2>1, <2>2 DEF GateNext
<1>2. QED
  BY EmptyGateSafe, GateInvInductive, <1>1, PTL DEF GateSpec, QueriesFirst

-----------------------------------------------------------------------------
(***************************************************************************)
(* The answers of the gateway.  Calls that a request no longer waits for   *)
(* still end: that they write nothing is what Awaited is for.  The vectors *)
(* of the attempt under way are all of its slot, and each is at the place  *)
(* of its text, also where the provider names the places.                  *)
(***************************************************************************)
Vectors == {NoVector} \cup (Slots \X Nat)

Rows(r) ==
  [at : {"idle", "refused", "begin", "chat", "batch", "perText", "texts", "retry", "pause", "fail",
         "answer", "answered", "failed"},
   chain : Seq(Slots), i : Nat, n : Nat, got : [Texts(r) -> Vectors]]

GatewayTypeOK ==
  /\ req = [r \in Requests |-> req[r]]
  /\ answer = [r \in Requests |-> answer[r]]
  /\ \A r \in Requests : req[r] \in Rows(r) /\ answer[r] \in [Texts(r) -> Vectors]

\* All of these vectors are of slot s, each at its own text.
OfSlot(got, r, s) == \A k \in Texts(r) : got[k] \in {NoVector, <<s, k>>}

\* How far a request is, and whose vectors it has.
RequestInv(row, r) ==
  /\ row.at = "begin" => row.chain # <<>>
  /\ row.at \notin {"idle", "refused", "begin"} => row.i \in 1..Len(row.chain)
  /\ row.at = "texts" => OfSlot(row.got, r, row.chain[row.i])
  /\ row.at = "answer" => \E s \in Slots : OfSlot(row.got, r, s)

AnswerInv ==
  /\ GatewayTypeOK
  /\ \A r \in Requests : RequestInv(req[r], r)
  /\ AnswerFromOneSlot

\* A row that is written keeps the invariant when it is of the right shape and satisfies it itself.
LEMMA RowWritten ==
  ASSUME AnswerInv, NEW r \in Requests, NEW row, req' = [req EXCEPT ![r] = row], UNCHANGED answer,
         row \in Rows(r), RequestInv(row, r)
  PROVE  AnswerInv'
<1>1. /\ req' = [q \in Requests |-> req'[q]] /\ req'[r] = row
      /\ \A q \in Requests \ {r} : req'[q] = req[q]
  BY DEF AnswerInv, GatewayTypeOK
<1>2. \A q \in Requests : RequestInv(req'[q], q)
  BY <1>1 DEF AnswerInv
<1>3. GatewayTypeOK'
  BY <1>1 DEF AnswerInv, GatewayTypeOK, Rows, Texts, Vectors, NoVector
<1>4. QED
  BY <1>2, <1>3 DEF AnswerInv, AnswerFromOneSlot, Texts, NoVector, RequestInv, OfSlot

\* What is not written stays as it is.
LEMMA RowFacts ==
  ASSUME AnswerInv, NEW r \in Requests
  PROVE  /\ req[r] \in Rows(r) /\ RequestInv(req[r], r)
         /\ Nothing(r) \in [Texts(r) -> Vectors]
         /\ \A s \in Slots : OfSlot(Nothing(r), r, s)
         /\ \A s \in Slots : [k \in Texts(r) |-> <<s, k>>] \in [Texts(r) -> Vectors]
         /\ Len(req[r].chain) \in Nat
         /\ \A j \in 1..Len(req[r].chain) : req[r].chain[j] \in Slots
<1>1. req[r] \in Rows(r) /\ RequestInv(req[r], r)
  BY DEF AnswerInv, GatewayTypeOK
<1>2. Texts(r) \subseteq Nat
  BY GatewayAssumption DEF Texts
<1>3. \A s \in Slots : [k \in Texts(r) |-> <<s, k>>] \in [Texts(r) -> Vectors]
  BY <1>2 DEF Vectors
<1>4. Nothing(r) \in [Texts(r) -> Vectors] /\ \A s \in Slots : OfSlot(Nothing(r), r, s)
  BY DEF Nothing, Vectors, OfSlot
<1>5. req[r].chain \in Seq(Slots)
  BY <1>1 DEF Rows
<1>6. QED
  BY <1>1, <1>3, <1>4, <1>5, LenProperties, ElementOfSeq

\* An attempt at a slot of the chain begins with none of its texts.
LEMMA AttemptAnswers ==
  ASSUME AnswerInv, NEW r \in Requests, NEW i \in 1..Len(req[r].chain), NEW n \in Nat,
         Attempt(r, i, n) \/ PerText(r, i, n), UNCHANGED answer
  PROVE  AnswerInv'
<1>0. i \in Nat /\ req[r].chain[i] \in Slots
  BY RowFacts
<1>1. ASSUME NEW at \in {"chat", "batch"}, req' = [req EXCEPT ![r].at = at, ![r].i = i, ![r].n = n]
      PROVE  AnswerInv'
  <2> DEFINE row == [req[r] EXCEPT !.at = at, !.i = i, !.n = n]
  <2>1. row \in Rows(r) /\ RequestInv(row, r)
    BY <1>0, RowFacts DEF Rows, RequestInv
  <2>2. req' = [req EXCEPT ![r] = row]
    BY <1>1
  <2>3. QED
    BY <2>1, <2>2, RowWritten
<1>2. CASE PerText(r, i, n)
  <2> DEFINE row == [req[r] EXCEPT !.at = "texts", !.i = i, !.n = n, !.got = Nothing(r)]
  <2>1. row \in Rows(r)
    BY <1>0, RowFacts DEF Rows
  <2>2. RequestInv(row, r)
    BY <1>0, RowFacts DEF Rows, RequestInv
  <2>3. req' = [req EXCEPT ![r] = row]
    BY <1>2 DEF PerText
  <2>4. QED
    BY <2>1, <2>2, <2>3, RowWritten
<1>3. QED
  BY <1>1, <1>2 DEF Attempt

\* A request changes its step only.
LEMMA StepWritten ==
  ASSUME AnswerInv, NEW r \in Requests, req[r].at \notin {"idle", "refused", "begin"}, UNCHANGED answer,
         NEW at \in {"perText", "retry", "pause", "fail", "failed"}, req' = [req EXCEPT ![r].at = at]
  PROVE  AnswerInv'
<1> DEFINE row == [req[r] EXCEPT !.at = at]
<1>1. row \in Rows(r) /\ RequestInv(row, r)
  BY RowFacts DEF Rows, RequestInv
<1>2. req' = [req EXCEPT ![r] = row]
  OBVIOUS
<1>3. QED
  BY <1>1, <1>2, RowWritten

\* However the replies to a batch are ordered, what stands at a place is the vector of its text.
LEMMA PlacedOfSlot ==
  ASSUME NEW r \in Requests, NEW reply \in Replies(r), Possible(r, reply), Slot(r) \in Slots
  PROVE  /\ Placed(r, reply) \in [Texts(r) -> Vectors]
         /\ OfSlot(Placed(r, reply), r, Slot(r))
<1>1. \A i \in DOMAIN reply.texts : Place(reply, i) = reply.texts[i]
  BY DEF Possible, Place
<1>2. ASSUME NEW k \in Texts(r) PROVE Placed(r, reply)[k] \in {NoVector, <<Slot(r), k>>}
  <2>1. CASE \E i \in DOMAIN reply.texts : Place(reply, i) = k
    <3> DEFINE at == CHOOSE i \in DOMAIN reply.texts : Place(reply, i) = k
    <3>1. at \in DOMAIN reply.texts /\ Place(reply, at) = k
      BY <2>1
    <3>2. reply.texts[at] = k
      BY <1>1, <3>1
    <3>3. QED
      BY <2>1, <3>2 DEF Placed
  <2>2. CASE ~\E i \in DOMAIN reply.texts : Place(reply, i) = k
    BY <2>2 DEF Placed
  <2>3. QED
    BY <2>1, <2>2
<1>3. Texts(r) \subseteq Nat
  BY GatewayAssumption DEF Texts
<1>4. \A k \in Texts(r) : Placed(r, reply)[k] \in Vectors
  BY <1>2, <1>3 DEF Vectors
<1>5. Placed(r, reply) \in [Texts(r) -> Vectors]
  BY <1>4 DEF Placed
<1>6. QED
  BY <1>2, <1>5 DEF OfSlot

\* The request has its answer.
LEMMA AnswerWritten ==
  ASSUME AnswerInv, NEW r \in Requests, req[r].at \notin {"idle", "refused", "begin"}, UNCHANGED answer,
         NEW got \in [Texts(r) -> Vectors], NEW s \in Slots, OfSlot(got, r, s),
         NEW at \in {"texts", "answer"}, at = "texts" => s = Slot(r),
         req' = [req EXCEPT ![r].at = at, ![r].got = got]
  PROVE  AnswerInv'
<1> DEFINE row == [req[r] EXCEPT !.at = at, !.got = got]
<1>1. row \in Rows(r)
  BY RowFacts DEF Rows
<1>2. /\ row.at = at /\ row.got = got /\ row.i = req[r].i /\ row.chain = req[r].chain
      /\ req[r].i \in 1..Len(req[r].chain)
  BY RowFacts DEF Rows, RequestInv
<1>3. RequestInv(row, r)
  BY <1>2 DEF RequestInv, Slot
<1>4. req' = [req EXCEPT ![r] = row]
  OBVIOUS
<1>5. QED
  BY <1>1, <1>3, <1>4, RowWritten

\* A request that arrives has a chain to go through, or is refused.
LEMMA ReceiveAnswers ==
  ASSUME AnswerInv, NEW r \in Requests, Receive(r)
  PROVE  AnswerInv'
<1>1. PICK chain \in Chains :
        IF used >= Budget \/ chain = <<>>
        THEN req' = [req EXCEPT ![r].at = "refused"]
        ELSE req' = [req EXCEPT ![r].at = "begin", ![r].chain = chain]
  BY DEF Receive
<1>2. chain \in Seq(Slots)
  <2>1. PICK n \in 0..Cardinality(Slots) : chain \in [1..n -> Slots]
    BY DEF Chains
  <2>2. n \in Nat
    BY FS_CardinalityType, GatewayAssumption
  <2>3. QED
    BY <2>1, <2>2
<1>3. CASE used >= Budget \/ chain = <<>>
  <2> DEFINE row == [req[r] EXCEPT !.at = "refused"]
  <2>1. row \in Rows(r) /\ RequestInv(row, r)
    BY RowFacts DEF Rows, RequestInv
  <2>2. req' = [req EXCEPT ![r] = row]
    BY <1>1, <1>3
  <2>3. QED
    BY <2>1, <2>2, RowWritten DEF Receive
<1>4. CASE ~(used >= Budget \/ chain = <<>>)
  <2> DEFINE row == [req[r] EXCEPT !.at = "begin", !.chain = chain]
  <2>1. row \in Rows(r) /\ RequestInv(row, r)
    BY <1>2, <1>4, RowFacts DEF Rows, RequestInv
  <2>2. req' = [req EXCEPT ![r] = row]
    BY <1>1, <1>4
  <2>3. QED
    BY <2>1, <2>2, RowWritten DEF Receive
<1>5. QED
  BY <1>3, <1>4

\* The slot of a request under way is one of the gateway's.
LEMMA SlotFacts ==
  ASSUME AnswerInv, NEW r \in Requests, req[r].at \notin {"idle", "refused", "begin"}
  PROVE  Slot(r) \in Slots /\ req[r].i \in 1..Len(req[r].chain)
BY RowFacts DEF RequestInv, Slot

\* The reply to a batch is taken whole, from the slot that was asked, or not at all.
LEMMA BatchAnswers ==
  ASSUME AnswerInv, NEW r \in Requests, BatchEnds(r)
  PROVE  AnswerInv'
<1>1. req[r].at = "batch" /\ UNCHANGED answer
  BY DEF BatchEnds
<1>2. CASE \E next \in {"perText", "retry"} : req' = [req EXCEPT ![r].at = next]
  BY <1>1, <1>2, StepWritten
<1>3. ASSUME NEW reply \in Replies(r), Possible(r, reply),
             req' = [req EXCEPT ![r].at = "answer", ![r].got = Placed(r, reply)]
      PROVE  AnswerInv'
  BY <1>1, <1>3, SlotFacts, PlacedOfSlot, AnswerWritten
<1>4. QED
  BY <1>1, <1>2, <1>3 DEF BatchEnds

\* So is the reply to a chat.
LEMMA ChatAnswers ==
  ASSUME AnswerInv, NEW r \in Requests, ChatEnds(r)
  PROVE  AnswerInv'
<1>1. req[r].at = "chat" /\ UNCHANGED answer
  BY DEF ChatEnds
<1>2. CASE \E next \in {"retry", "fail"} : req' = [req EXCEPT ![r].at = next]
  BY <1>1, <1>2, StepWritten
<1>3. CASE req' = [req EXCEPT ![r].at = "answer", ![r].got = [k \in Texts(r) |-> <<Slot(r), k>>]]
  <2> DEFINE got == [k \in Texts(r) |-> <<Slot(r), k>>]
  <2>1. got \in [Texts(r) -> Vectors] /\ OfSlot(got, r, Slot(r))
    BY <1>1, SlotFacts, RowFacts DEF OfSlot
  <2>2. QED
    BY <1>1, <1>3, <2>1, SlotFacts, AnswerWritten
<1>4. QED
  BY <1>2, <1>3 DEF ChatEnds

\* A late reply writes nothing, and an awaited one a vector of the slot under way.
LEMMA TextAnswers ==
  ASSUME AnswerInv, NEW r \in Requests, NEW i \in 1..Cardinality(Slots), NEW n \in 0..Retries,
         NEW k \in Texts(r), TextEnds(r, i, n, k)
  PROVE  AnswerInv'
<1> DEFINE got == [req[r].got EXCEPT ![k] = <<req[r].chain[i], k>>]
<1>1. CASE ~Awaited(r, i, n)
  <2>1. UNCHANGED <<req, answer>>
    BY <1>1 DEF TextEnds
  <2>2. QED
    BY <2>1 DEF AnswerInv, GatewayTypeOK, AnswerFromOneSlot, RequestInv, OfSlot, Rows, Texts, Vectors, NoVector
<1>2. CASE Awaited(r, i, n)
  <2>1. /\ UNCHANGED answer /\ req[r].at = "texts" /\ req[r].i = i
        /\ \/ req' = [req EXCEPT ![r].got = got,
                                 ![r].at = IF NoVector \in Range(got) THEN @ ELSE "answer"]
           \/ \E next \in {"retry", "fail"} : req' = [req EXCEPT ![r].at = next]
    BY <1>2 DEF TextEnds, Awaited
  <2>2. CASE \E next \in {"retry", "fail"} : req' = [req EXCEPT ![r].at = next]
    BY <2>1, <2>2, StepWritten
  <2>3. Slot(r) \in Slots /\ req[r].chain[i] = Slot(r) /\ OfSlot(req[r].got, r, Slot(r))
    BY <2>1, SlotFacts, RowFacts DEF RequestInv, Slot
  <2>4. got \in [Texts(r) -> Vectors] /\ OfSlot(got, r, Slot(r))
    <3>1. req[r].got \in [Texts(r) -> Vectors] /\ k \in Nat
      BY RowFacts, GatewayAssumption DEF Rows, Texts
    <3>2. QED
      BY <2>3, <3>1 DEF OfSlot, Vectors
  <2>5. ASSUME NEW at \in {"texts", "answer"}, req' = [req EXCEPT ![r].at = at, ![r].got = got]
        PROVE  AnswerInv'
    <3> HIDE DEF got
    <3>1. QED
      BY <2>1, <2>3, <2>4, <2>5, AnswerWritten
  <2>6. CASE req' = [req EXCEPT ![r].got = got, ![r].at = IF NoVector \in Range(got) THEN @ ELSE "answer"]
    <3> HIDE DEF got
    <3>1. /\ req = [q \in Requests |-> req[q]]
          /\ req[r] = [at |-> "texts", chain |-> req[r].chain, i |-> req[r].i, n |-> req[r].n, got |-> req[r].got]
      BY <2>1, RowFacts DEF AnswerInv, GatewayTypeOK, Rows
    <3>2. \E at \in {"texts", "answer"} : req' = [req EXCEPT ![r].at = at, ![r].got = got]
      BY <2>6, <3>1
    <3>3. QED
      BY <2>5, <3>2
  <2>7. QED
    BY <2>1, <2>2, <2>6
<1>3. QED
  BY <1>1, <1>2

\* A request that goes on to another slot leaves behind what it had got from the one before.
LEMMA ProceedAnswers ==
  ASSUME AnswerInv, NEW r \in Requests, Proceed(r)
  PROVE  AnswerInv'
<1>0. Len(req[r].chain) \in Nat /\ req[r].i \in Nat /\ req[r].n \in Nat /\ req[r].chain \in Seq(Slots)
  BY RowFacts DEF Rows
<1>1. CASE req[r].at = "begin" /\ Attempt(r, 1, 0) /\ UNCHANGED answer
  <2>1. 1 \in 1..Len(req[r].chain)
    BY <1>0, <1>1, RowFacts DEF RequestInv
  <2>2. QED
    BY <1>1, <2>1, AttemptAnswers
<1>2. CASE req[r].at = "perText" /\ PerText(r, req[r].i, req[r].n) /\ UNCHANGED answer
  BY <1>0, <1>2, SlotFacts, AttemptAnswers
<1>3. CASE req[r].at = "pause" /\ Attempt(r, req[r].i, req[r].n + 1) /\ UNCHANGED answer
  BY <1>0, <1>3, SlotFacts, AttemptAnswers
<1>4. CASE /\ req[r].at = "answer" /\ req' = [req EXCEPT ![r].at = "answered"]
           /\ answer' = [answer EXCEPT ![r] = req[r].got]
  <2>1. /\ req' = [q \in Requests |-> req'[q]] /\ answer' = [q \in Requests |-> answer'[q]]
        /\ req'[r] = [req[r] EXCEPT !.at = "answered"] /\ answer'[r] = req[r].got
        /\ \A q \in Requests \ {r} : req'[q] = req[q] /\ answer'[q] = answer[q]
    BY <1>4 DEF AnswerInv, GatewayTypeOK
  <2>2. /\ req'[r] \in Rows(r) /\ RequestInv(req'[r], r) /\ answer'[r] \in [Texts(r) -> Vectors]
        /\ \E s \in Slots : OfSlot(answer'[r], r, s)
    BY <1>4, <2>1, RowFacts DEF Rows, RequestInv
  <2>3. GatewayTypeOK'
    BY <2>1, <2>2 DEF AnswerInv, GatewayTypeOK, Rows, Texts, Vectors, NoVector
  <2>4. \A q \in Requests : RequestInv(req'[q], q)
    BY <2>1, <2>2 DEF AnswerInv
  <2>5. AnswerFromOneSlot'
    BY <2>1, <2>2 DEF AnswerInv, AnswerFromOneSlot, OfSlot, Texts, NoVector
  <2>6. QED
    BY <2>3, <2>4, <2>5 DEF AnswerInv, RequestInv, OfSlot, Texts, NoVector
<1>5. CASE req[r].at = "retry" /\ req' = [req EXCEPT ![r].at = "pause"] /\ UNCHANGED answer
  BY <1>5, StepWritten
<1>6. CASE /\ req[r].at \in {"fail", "retry"} /\ UNCHANGED answer
           /\ IF req[r].i = Len(req[r].chain)
              THEN req' = [req EXCEPT ![r].at = "failed"]
              ELSE Attempt(r, req[r].i + 1, 0)
  <2>1. req[r].i \in 1..Len(req[r].chain)
    BY <1>6, SlotFacts
  <2>2. CASE req[r].i = Len(req[r].chain)
    BY <1>6, <2>2, StepWritten
  <2>3. CASE req[r].i # Len(req[r].chain)
    <3>1. req[r].i + 1 \in 1..Len(req[r].chain)
      BY <1>0, <2>1, <2>3
    <3>2. QED
      BY <1>6, <2>3, <3>1, AttemptAnswers
  <2>4. QED
    BY <2>2, <2>3
<1>7. QED
  BY <1>1, <1>2, <1>3, <1>4, <1>5, <1>6 DEF Proceed

\* Every vector of an answer is that of the text at its place, and all are of one slot, whatever
\* calls of earlier attempts and slots still end, for every number of requests, slots and texts.
THEOREM AnswersHold ==
  ASSUME Slots # {} PROVE GatewaySpec => []AnswerFromOneSlot
<1>1. GatewayInit => AnswerInv
  <2> SUFFICES ASSUME GatewayInit PROVE AnswerInv
    OBVIOUS
  <2>1. \A r \in Requests : Nothing(r) \in [Texts(r) -> Vectors] /\ \A s \in Slots : OfSlot(Nothing(r), r, s)
    BY DEF Nothing, Vectors, OfSlot
  <2>2. /\ req = [r \in Requests |-> [at |-> "idle", chain |-> <<>>, i |-> 0, n |-> 0, got |-> Nothing(r)]]
        /\ answer = [r \in Requests |-> Nothing(r)]
    BY DEF GatewayInit
  <2> HIDE DEF Nothing
  <2>3. GatewayTypeOK
    BY <2>1, <2>2 DEF GatewayTypeOK, Rows
  <2>4. \A r \in Requests : RequestInv(req[r], r)
    BY <2>2 DEF RequestInv
  <2>5. AnswerFromOneSlot
    BY <2>1, <2>2 DEF AnswerFromOneSlot, OfSlot
  <2>6. QED
    BY <2>3, <2>4, <2>5 DEF AnswerInv
<1>2. AnswerInv /\ [GatewayNext]_gatewayVars => AnswerInv'
  <2> SUFFICES ASSUME AnswerInv, [GatewayNext]_gatewayVars PROVE AnswerInv'
    OBVIOUS
  <2>1. CASE UNCHANGED gatewayVars
    BY <2>1 DEF gatewayVars, AnswerInv, GatewayTypeOK, AnswerFromOneSlot, RequestInv, OfSlot, Rows, Texts,
      Vectors, NoVector
  <2>2. QED
    BY <2>1, ReceiveAnswers, BatchAnswers, ChatAnswers, TextAnswers, ProceedAnswers DEF GatewayNext, RequestStep
<1>3. AnswerInv => AnswerFromOneSlot
  BY DEF AnswerInv
<1>4. QED
  BY <1>1, <1>2, <1>3, PTL DEF GatewaySpec
=============================================================================
