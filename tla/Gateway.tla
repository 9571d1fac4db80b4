------------------------------- MODULE Gateway -------------------------------
(***************************************************************************)
(* The LLM gateway (dashboard-api, routes/llm.ts): an embeddings or a chat *)
(* request goes through the chain of provider slots, up to Retries + 1     *)
(* times at each, until one answers.  An embeddings request first asks for *)
(* all its texts in one call and, where the provider cannot do that, for   *)
(* each in a call of its own; every such call passes the gate of           *)
(* EmbedGate.                                                              *)
(*                                                                         *)
(* Texts are numbered.  A vector is the slot that made it and the text it  *)
(* is of.  A call is named by its request, the place in the chain, the     *)
(* attempt and the text (0: all of them).  When one of a request's calls   *)
(* fails the others go on: nobody waits for them, but they keep their      *)
(* place in the gate.                                                      *)
(***************************************************************************)
EXTENDS EmbedGate, SequencesExt

CONSTANTS
  Requests,
  Chats,      \* the requests that are chat completions
  Size,       \* Size[r]: the texts of r
  Slots,      \* provider accounts in the routing chain
  Gemini,     \* those that answer in order, without an index
  Retries,
  Budget      \* the token limit; a text costs one

ASSUME GatewayAssumption ==
  /\ Chats \subseteq Requests
  /\ Size \in [Requests -> Nat \ {0}]
  /\ IsFiniteSet(Slots)
  /\ Gemini \subseteq Slots
  /\ Retries \in Nat
  /\ Budget \in Nat
  /\ Callers = {<<r, i, n, k>> : r \in Requests, i \in 1..Cardinality(Slots), n \in 0..Retries,
                                 k \in 0..Max({Size[q] : q \in Requests})}
  /\ \A c, d \in Callers : c[1] = d[1] /\ c \in Background => d \in Background

VARIABLES
  req,     \* where each request is: its step, chain, place in the chain, attempt, vectors
  answer,  \* what it was answered with
  used     \* tokens in usage_logs

gatewayVars == <<gate, req, answer, used>>

NoVector == <<>>
Texts(r) == 1..Size[r]
Nothing(r) == [k \in Texts(r) |-> NoVector]

GatewayInit ==
  /\ GateInit
  /\ req = [r \in Requests |-> [at |-> "idle", chain |-> <<>>, i |-> 0, n |-> 0, got |-> Nothing(r)]]
  /\ answer = [r \in Requests |-> Nothing(r)]
  /\ used = 0

Slot(r) == req[r].chain[req[r].i]
Call(r, i, n, k) == <<r, i, n, k>>

-----------------------------------------------------------------------------
(***************************************************************************)
(* Attempts.  A single text goes into the gate at once; several go in one  *)
(* call, and each in its own when the provider cannot do that.             *)
(***************************************************************************)
AllEntered(g, calls) == FoldLeft(Entered, g, calls)

PerText(r, i, n) ==
  /\ req' = [req EXCEPT ![r].at = "texts", ![r].i = i, ![r].n = n, ![r].got = Nothing(r)]
  /\ gate' = AllEntered(gate, [k \in Texts(r) |-> Call(r, i, n, k)])

Attempt(r, i, n) ==
  \/ /\ r \in Chats
     /\ req' = [req EXCEPT ![r].at = "chat", ![r].i = i, ![r].n = n]
     /\ UNCHANGED gate
  \/ /\ r \notin Chats /\ Size[r] = 1
     /\ PerText(r, i, n)
  \/ /\ r \notin Chats /\ Size[r] > 1
     /\ req' = [req EXCEPT ![r].at = "batch", ![r].i = i, ![r].n = n]
     /\ gate' = Entered(gate, Call(r, i, n, 0))

\* The chains resolveChain may give, in any order a wanted model or the complexity puts them.
Chains == {c \in UNION {[1..n -> Slots] : n \in 0..Cardinality(Slots)} : IsInjective(c)}

\* A request arrives.  The budget is looked at here, and never again.
Receive(r) ==
  /\ req[r].at = "idle"
  /\ \E chain \in Chains :
       IF used >= Budget \/ chain = <<>>
       THEN req' = [req EXCEPT ![r].at = "refused"]
       ELSE req' = [req EXCEPT ![r].at = "begin", ![r].chain = chain]
  /\ UNCHANGED <<gate, answer, used>>

-----------------------------------------------------------------------------
(***************************************************************************)
(* The replies to a batch: of any of the texts in any order, each with its *)
(* index, or without and then in the order asked.  The vectors are placed  *)
(* by the index where there is one, and the array is as long as its last   *)
(* place says; places nothing was put in are skipped by every().           *)
(***************************************************************************)
Replies(r) ==
  [texts : {s \in UNION {[1..n -> Texts(r)] : n \in 0..Size[r]} : IsInjective(s)}, indexed : BOOLEAN]
Possible(r, reply) ==
  /\ ~reply.indexed => \A i \in DOMAIN reply.texts : reply.texts[i] = i
  /\ Slot(r) \in Gemini => ~reply.indexed

\* Mutant: the vectors are taken in the order they came in.
PlaceInOrder(reply, i) == i

Place(reply, i) == IF reply.indexed THEN reply.texts[i] ELSE i
Placed(r, reply) ==
  [k \in Texts(r) |->
     IF \E i \in DOMAIN reply.texts : Place(reply, i) = k
     THEN <<Slot(r), reply.texts[CHOOSE i \in DOMAIN reply.texts : Place(reply, i) = k]>>
     ELSE NoVector]
Complete(r, reply) == \E i \in DOMAIN reply.texts : Place(reply, i) = Size[r]

(***************************************************************************)
(* Calls end: the slot is handed on, and what the request makes of it is   *)
(* left to Proceed, which runs after whatever was woken before it.            *)
(***************************************************************************)
BatchEnds(r) ==
  LET c == Call(r, req[r].i, req[r].n, 0)
  IN /\ req[r].at = "batch" /\ c \in gate.holding
     /\ gate' = Released(gate, c)
     /\ \/ \E reply \in Replies(r) :
             /\ Possible(r, reply)
             /\ req' = IF Complete(r, reply)
                       THEN [req EXCEPT ![r].at = "answer", ![r].got = Placed(r, reply)]
                       ELSE [req EXCEPT ![r].at = "perText"]
        \/ \E next \in {"perText", "retry"} : req' = [req EXCEPT ![r].at = next]
     /\ UNCHANGED <<answer, used>>

ChatEnds(r) ==
  /\ req[r].at = "chat"
  /\ \/ req' = [req EXCEPT ![r].at = "answer", ![r].got = [k \in Texts(r) |-> <<Slot(r), k>>]]
     \/ \E next \in {"retry", "fail"} : req' = [req EXCEPT ![r].at = next]
  /\ UNCHANGED <<gate, answer, used>>

\* The call is one of those the request waits for now.
Awaited(r, i, n) == req[r].at = "texts" /\ req[r].i = i /\ req[r].n = n

TextEnds(r, i, n, k) ==
  LET c == Call(r, i, n, k)
      got == [req[r].got EXCEPT ![k] = <<req[r].chain[i], k>>]
  IN /\ k > 0 /\ c \in gate.holding
     /\ gate' = Released(gate, c)
     /\ IF Awaited(r, i, n)
        THEN \/ req' = [req EXCEPT ![r].got = got,
                                   ![r].at = IF NoVector \in Range(got) THEN @ ELSE "answer"]
             \/ \E next \in {"retry", "fail"} : req' = [req EXCEPT ![r].at = next]
        ELSE UNCHANGED req
     /\ UNCHANGED <<answer, used>>

(***************************************************************************)
(* The request goes on: usage is logged with its answer; a retryable error *)
(* waits and tries the slot again; after that, or after another error, the *)
(* next slot has its turn, and after the last the request fails.           *)
(***************************************************************************)
Proceed(r) ==
  \/ req[r].at = "begin" /\ Attempt(r, 1, 0) /\ UNCHANGED <<answer, used>>
  \/ req[r].at = "perText" /\ PerText(r, req[r].i, req[r].n) /\ UNCHANGED <<answer, used>>
  \/ req[r].at = "pause" /\ Attempt(r, req[r].i, req[r].n + 1) /\ UNCHANGED <<answer, used>>
  \/ /\ req[r].at = "answer"
     /\ req' = [req EXCEPT ![r].at = "answered"]
     /\ answer' = [answer EXCEPT ![r] = req[r].got]
     /\ used' = used + Size[r]
     /\ UNCHANGED gate
  \/ /\ req[r].at = "retry" /\ req[r].n < Retries
     /\ req' = [req EXCEPT ![r].at = "pause"]
     /\ UNCHANGED <<gate, answer, used>>
  \/ /\ req[r].at = "fail" \/ (req[r].at = "retry" /\ req[r].n = Retries)
     /\ IF req[r].i = Len(req[r].chain)
        THEN req' = [req EXCEPT ![r].at = "failed"] /\ UNCHANGED gate
        ELSE Attempt(r, req[r].i + 1, 0)
     /\ UNCHANGED <<answer, used>>

\* What happens to a request once it is let in.
RequestStep(r) ==
  \/ Proceed(r) \/ ChatEnds(r) \/ BatchEnds(r)
  \/ \E i \in 1..Cardinality(Slots), n \in 0..Retries, k \in Texts(r) : TextEnds(r, i, n, k)

GatewayNext == \E r \in Requests : Receive(r) \/ RequestStep(r)

GatewaySpec == GatewayInit /\ [][GatewayNext]_gatewayVars

\* Every provider call carries a timeout, and every pause is a timer.
GatewayFairness == WF_gatewayVars(\E r \in Requests : RequestStep(r))

-----------------------------------------------------------------------------
\* A vector in the wrong place is noticed by nobody downstream: every vector of an answer is that
\* of the text at its place, and all of them are of the one slot that the answer names, whatever
\* late replies of earlier attempts and slots come in.
AnswerFromOneSlot ==
  \A r \in Requests :
    \E s \in Slots : \A k \in Texts(r) : answer[r][k] \in {NoVector, <<s, k>>}

\* A request that was let in is answered or told that every slot failed, though the calls of
\* others, and what earlier attempts have left in the gate, come before its own.
RequestsEnd ==
  []<>(\A r \in Requests : req[r].at \in {"idle", "refused", "answered", "failed"})

=============================================================================
