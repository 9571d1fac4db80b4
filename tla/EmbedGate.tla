------------------------------ MODULE EmbedGate ------------------------------
(***************************************************************************)
(* The gate in front of the embedding provider (dashboard-api,             *)
(* lib/embed-gate.ts).  It admits Concurrency calls at a time, in two      *)
(* lanes: a query starts before any background call that waits, and        *)
(* background calls never hold the last slot.                              *)
(*                                                                         *)
(* The gate is a record, and run's two halves are functions of it: Entered *)
(* is what a call does until it holds a slot or waits, Released is its     *)
(* finally block.  A slot is counted for a waiter before the waiter wakes, *)
(* so "holding" begins at the hand-over.                                   *)
(***************************************************************************)
EXTENDS Integers, Sequences, FiniteSets

CONSTANTS
  Callers,      \* calls of run
  Background,   \* the calls of the background lane; the others are queries
  Concurrency   \* slots of the gate

ASSUME BackgroundAssumption == Background \subseteq Callers
ASSUME ConcurrencyAssumption == Concurrency \in Nat

VARIABLE gate

Limit == IF Concurrency < 1 THEN 1 ELSE Concurrency
BackgroundLimit == IF Limit < 2 THEN 1 ELSE Limit - 1

Least(x, y) == IF x < y THEN x ELSE y

\* The first k members of a queue, and what is left of it.
FirstOf(q, k) == {q[i] : i \in 1..k}
Rest(q, k) == SubSeq(q, k + 1, Len(q))

EmptyGate == [inFlight |-> 0, backgroundInFlight |-> 0,
              queries |-> <<>>, backlog |-> <<>>, holding |-> {}]

CanStart(g, c) ==
  /\ g.inFlight < Limit
  /\ c \in Background => g.backgroundInFlight < BackgroundLimit

(***************************************************************************)
(* run, until fn starts: the call takes a slot when nobody of its lane     *)
(* waits and, in the background, no query either; otherwise it queues.     *)
(***************************************************************************)
Walks(g, c) ==
  /\ g.queries = <<>>
  /\ c \in Background => g.backlog = <<>>
  /\ CanStart(g, c)

Entered(g, c) ==
  IF Walks(g, c)
  THEN [g EXCEPT !.inFlight = @ + 1,
                 !.backgroundInFlight = IF c \in Background THEN @ + 1 ELSE @,
                 !.holding = @ \cup {c}]
  ELSE IF c \in Background
       THEN [g EXCEPT !.backlog = Append(@, c)]
       ELSE [g EXCEPT !.queries = Append(@, c)]

(***************************************************************************)
(* handOver: as many queries as there are slots, then, when no query is    *)
(* left waiting, as many background calls as both limits allow.            *)
(***************************************************************************)
QueriesServed(g) == Least(Len(g.queries), Limit - g.inFlight)
BackgroundServed(g) ==
  IF QueriesServed(g) < Len(g.queries)
  THEN 0
  ELSE Least(Len(g.backlog),
             Least(Limit - g.inFlight - QueriesServed(g),
                   BackgroundLimit - g.backgroundInFlight))

\* Mutant: background calls are served first.
HandedOverBackgroundFirst(g) ==
  LET b == Least(Len(g.backlog),
                 Least(Limit - g.inFlight, BackgroundLimit - g.backgroundInFlight))
      q == Least(Len(g.queries), Limit - g.inFlight - b)
  IN [inFlight |-> g.inFlight + q + b,
      backgroundInFlight |-> g.backgroundInFlight + b,
      queries |-> Rest(g.queries, q),
      backlog |-> Rest(g.backlog, b),
      holding |-> g.holding \cup FirstOf(g.queries, q) \cup FirstOf(g.backlog, b)]

HandedOver(g) ==
  LET q == QueriesServed(g)
      b == BackgroundServed(g)
  IN [inFlight |-> g.inFlight + q + b,
      backgroundInFlight |-> g.backgroundInFlight + b,
      queries |-> Rest(g.queries, q),
      backlog |-> Rest(g.backlog, b),
      holding |-> g.holding \cup FirstOf(g.queries, q) \cup FirstOf(g.backlog, b)]

\* The finally block of run: the slot is given back and handed on.
GivenBack(g, c) ==
  [g EXCEPT !.inFlight = @ - 1,
            !.backgroundInFlight = IF c \in Background THEN @ - 1 ELSE @,
            !.holding = @ \ {c}]

\* Mutant: a slot is handed on within its lane only.
ReleasedInLane(g, c) ==
  LET after == GivenBack(g, c)
  IN IF c \in Background
     THEN [HandedOver([after EXCEPT !.queries = <<>>]) EXCEPT !.queries = g.queries]
     ELSE [HandedOver([after EXCEPT !.backlog = <<>>]) EXCEPT !.backlog = g.backlog]

Released(g, c) == HandedOver(GivenBack(g, c))

-----------------------------------------------------------------------------
Waiting(g) == FirstOf(g.queries, Len(g.queries)) \cup FirstOf(g.backlog, Len(g.backlog))

GateInit == gate = EmptyGate

Enter(c) ==
  /\ c \notin gate.holding \cup Waiting(gate)
  /\ gate' = Entered(gate, c)

Leave(c) ==
  /\ c \in gate.holding
  /\ gate' = Released(gate, c)

GateNext == \E c \in Callers : Enter(c) \/ Leave(c)

GateSpec == GateInit /\ [][GateNext]_gate

-----------------------------------------------------------------------------
GateTypeOK ==
  gate \in [inFlight : Nat, backgroundInFlight : Nat,
            queries : Seq(Callers \ Background), backlog : Seq(Background),
            holding : SUBSET Callers]

\* The gate's two counters are the calls that really hold a slot: one handed
\* over is neither lost nor given twice, whichever calls arrive or end around it.
CountsHolders ==
  /\ gate.inFlight = Cardinality(gate.holding)
  /\ gate.backgroundInFlight = Cardinality(gate.holding \cap Background)

\* The provider never has more calls than the gate has slots, and background
\* calls leave one of them for a query, unless there is only one.
LimitsKept ==
  /\ gate.inFlight <= Limit
  /\ gate.backgroundInFlight <= BackgroundLimit

\* Nobody waits for a slot that it could have: what a call that ends leaves
\* free is handed on at once, and there is no later event that would do it.
NobodyForgotten ==
  /\ gate.queries # <<>> => gate.inFlight >= Limit
  /\ gate.backlog # <<>> =>
       \/ gate.inFlight >= Limit
       \/ gate.backgroundInFlight >= BackgroundLimit

\* A call waits in one place only, and holds no slot while it waits.
WaitsOnce ==
  /\ gate.holding \cap Waiting(gate) = {}
  /\ \A i, j \in 1..Len(gate.queries) : gate.queries[i] = gate.queries[j] => i = j
  /\ \A i, j \in 1..Len(gate.backlog) : gate.backlog[i] = gate.backlog[j] => i = j

\* What the gate owes its callers, whichever calls arrive, end or fail around each other.
GateSafe == CountsHolders /\ LimitsKept /\ NobodyForgotten

AfterQueries == (\E c \in Background : c \in gate'.holding \ gate.holding) => gate'.queries = <<>>

\* A background call gets a slot only in a moment when no query is left
\* waiting, whether it arrives or is handed the slot.
QueriesFirst == [][AfterQueries]_gate

=============================================================================
