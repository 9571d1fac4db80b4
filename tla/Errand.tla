------------------------------- MODULE Errand -------------------------------
(***************************************************************************)
(* What the hub and the workers together promise of an attempt at a task:  *)
(* it is handed out, a worker runs it, perhaps again after a crash, until  *)
(* it has an outcome, and that outcome is taken in once, if the attempt is *)
(* still the newest of its task.  How it is told and retold is Fleet.      *)
(***************************************************************************)
EXTENDS Naturals

CONSTANT Attempts   \* pairs of a task and a number

VARIABLES
  handed,    \* attempts that have been given to a worker
  running,   \* attempts a worker is on
  produced,  \* attempts a worker has an outcome for
  taken      \* attempts whose outcome the hub has

errandVars == <<handed, running, produced, taken>>

Newest(e) == \A d \in handed : d[1] = e[1] => d[2] <= e[2]

Init == handed = {} /\ running = {} /\ produced = {} /\ taken = {}

HandOut(S) ==
  /\ \A e \in S : Newest(e)
  /\ handed' = handed \cup S
  /\ UNCHANGED <<running, produced, taken>>

Begin(e) ==
  /\ e \in handed \ produced
  /\ running' = running \cup {e}
  /\ UNCHANGED <<handed, produced, taken>>

\* A crash, a revocation, a stop.
Abandon(e) ==
  /\ e \in running
  /\ running' = running \ {e}
  /\ UNCHANGED <<handed, produced, taken>>

Produce(e) ==
  /\ e \in running
  /\ running' = running \ {e}
  /\ produced' = produced \cup {e}
  /\ UNCHANGED <<handed, taken>>

TakeIn(e) ==
  /\ e \in produced \ taken
  /\ Newest(e)
  /\ taken' = taken \cup {e}
  /\ UNCHANGED <<handed, running, produced>>

Next ==
  \/ \E S \in SUBSET (Attempts \ handed) : HandOut(S)
  \/ \E e \in Attempts : Begin(e) \/ Abandon(e) \/ Produce(e) \/ TakeIn(e)

Spec == Init /\ [][Next]_errandVars

=============================================================================
