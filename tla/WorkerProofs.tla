----------------------------- MODULE WorkerProofs -----------------------------
(***************************************************************************)
(* Machine-checked proofs about the worker process of Worker, against a    *)
(* hub that may say anything: its state stays well formed, the task it     *)
(* runs is the one its state file names unless the last write failed, and  *)
(* the file never names a task beside an outcome, whatever writes fail,    *)
(* for any number of workers, tasks and faults.                            *)
(*                                                                         *)
(* The argument has two parts: what a worker has in memory (WorkerInv),    *)
(* and what of it is in its file (DiskInv), where a new process begins.    *)
(***************************************************************************)
EXTENDS Worker, SequenceTheorems, TLAPS

\* What one worker knows of its task, and what it is on.
FileOK(w) ==
  /\ slot[w].stage = "run" => active[w] = slot[w].task
  /\ active[w] = NoTask \/ unconf[w] = NoOutcome

WorkerInv == WorkerTypeOK /\ \A w \in Workers : FileOK(w)

\* A record a new process can begin with.
Loadable(f) ==
  /\ f.active \in Tasks \cup {NoTask} /\ f.unconf \in Outcomes \cup {NoOutcome}
  /\ f.active = NoTask \/ f.unconf = NoOutcome

\* The file holds what the memory holds, or what it held before a write that failed.
DiskInv ==
  /\ StateFileTypeOK
  /\ \A w \in Workers : Loadable(disk[w]) /\ (~unsaved[w] => disk[w] = Memory(w))

-----------------------------------------------------------------------------
(* What is sent and read is well formed.                                   *)

\* Every message about an attempt is one that sendReliable may keep.
LEMMA ReportsReliable ==
  /\ \A o \in Outcomes : Report(o) \in ReliableMsg
  /\ \A s \in Slots \ {NoSlot} : {Decline(s), DeclineBusy(s), AcceptMsg(s)} \subseteq ReliableMsg
  /\ \A t \in Tasks, n \in Attempts :
       DeclineBusy([task |-> t, attempt |-> n, stage |-> "none", abort |-> "no"]) \in ReliableMsg
BY DEF Outcomes, Report, ReliableMsg, UpMsg, Slots, Decline, DeclineBusy, AcceptMsg

\* The other messages carry no attempt.
LEMMA StatusTyped ==
  /\ Idle \in UpMsg /\ Busy \in UpMsg
  /\ \A t \in Tasks \cup {NoTask} : RegisterMsg(t) \in UpMsg
  /\ ReliableMsg \subseteq UpMsg
BY DEF Idle, Busy, RegisterMsg, UpMsg, ReliableMsg

\* A well-formed message makes a well-formed sequence of one.
LEMMA OneTyped ==
  ASSUME NEW S, NEW x \in S
  PROVE  <<x>> \in Seq(S)
OBVIOUS

\* No message is a sequence of messages of any kind.
LEMMA NoneTyped == ASSUME NEW S PROVE <<>> \in Seq(S)
BY EmptySeq

\* A sequence over a set is one over any larger set.
LEMMA SeqSubset ==
  ASSUME NEW S, NEW T, S \subseteq T, NEW s \in Seq(S)
  PROVE  s \in Seq(T)
<1>1. /\ s \in [1..Len(s) -> S] /\ Len(s) \in Nat
  BY LenProperties
<1>2. s \in [1..Len(s) -> T]
  BY <1>1
<1>3. QED
  BY <1>1, <1>2, SeqDef

\* What is posted is queued or under way.
LEMMA PostTyped ==
  ASSUME WorkerTypeOK, NEW w \in Workers,
         NEW reliable \in Seq(ReliableMsg), NEW plain \in Seq(UpMsg), Post(w, reliable, plain)
  PROVE  queue' \in [Workers -> Seq(ReliableMsg)] /\ up' \in [Workers -> Seq(UpMsg)]
<1>1. reliable \in Seq(UpMsg)
  BY SeqSubset, StatusTyped
<1>2. up[w] \in Seq(UpMsg) /\ queue[w] \in Seq(ReliableMsg)
  BY DEF WorkerTypeOK
<1>3. up[w] \o reliable \o plain \in Seq(UpMsg) /\ queue[w] \o reliable \in Seq(ReliableMsg)
  BY <1>1, <1>2, ConcatProperties
<1>4. QED
  BY <1>3 DEF Post, WorkerTypeOK

\* What is read is a message of the hub, and what is left are such messages.
LEMMA ReadTyped ==
  ASSUME WorkerTypeOK, NEW w \in Workers, NEW type, Read(w, type)
  PROVE  down' \in [Workers -> Seq(DownMsg)] /\ Head(down[w]) \in DownMsg
<1>1. down[w] \in Seq(DownMsg) /\ down[w] # <<>>
  BY DEF Read, WorkerTypeOK
<1>2. Tail(down[w]) \in Seq(DownMsg) /\ Head(down[w]) \in DownMsg
  BY <1>1, HeadTailProperties
<1>3. QED
  BY <1>2 DEF Read, WorkerTypeOK

\* A prefix is of the same kind.
LEMMA PrefixTyped ==
  ASSUME NEW S, NEW s \in Seq(S), NEW p \in Prefixes(s)
  PROVE  p \in Seq(S)
<1>1. PICK n \in 0..Len(s) : p = SubSeq(s, 1, n)
  BY DEF Prefixes
<1>2. Len(s) \in Nat
  BY LenProperties
<1>3. \A i \in 1..n : s[i] \in S
  BY <1>1, <1>2, ElementOfSeq
<1>4. QED
  BY <1>1, <1>2, <1>3, SubSeqProperties

-----------------------------------------------------------------------------
(* One lemma per step.                                                     *)

\* A new socket begins with the registration.
LEMMA OpenKeeps ==
  ASSUME WorkerInv, NEW w \in Workers, Open(w)
  PROVE  WorkerInv'
<1> USE DEF WorkerInv, state, client, wires
<1>1. Reported(w) \in Tasks \cup {NoTask}
  BY DEF Reported, WorkerTypeOK, Slots, NoSlot, Outcomes, NoOutcome
<1>2. <<RegisterMsg(Reported(w))>> \in Seq(UpMsg) /\ <<>> \in Seq(DownMsg)
  BY <1>1, StatusTyped, OneTyped, NoneTyped
<1>3. WorkerTypeOK'
  BY <1>2 DEF Open, WorkerTypeOK
<1>4. \A x \in Workers : FileOK(x)'
  BY DEF Open, FileOK
<1>5. QED
  BY <1>3, <1>4

\* Registration sends the queue, which is well formed.
LEMMA OnRegisteredKeeps ==
  ASSUME WorkerInv, NEW w \in Workers, OnRegistered(w)
  PROVE  WorkerInv'
<1> USE DEF WorkerInv, state, client, wires
<1> DEFINE status == IF unready[w] /\ slot[w] = NoSlot THEN <<Busy>> ELSE <<>>
<1>1. down' \in [Workers -> Seq(DownMsg)]
  BY ReadTyped DEF OnRegistered
<1>2. status \in Seq(UpMsg) /\ <<>> \in Seq(ReliableMsg)
  BY StatusTyped, OneTyped, NoneTyped
<1>3. queue[w] \in Seq(UpMsg) /\ up[w] \in Seq(UpMsg)
  BY SeqSubset, StatusTyped DEF WorkerTypeOK
<1> HIDE DEF status
<1>4. up[w] \o queue[w] \o status \in Seq(UpMsg)
  BY <1>2, <1>3, ConcatProperties
<1>5. /\ reg' \in [Workers -> BOOLEAN] /\ queue' \in [Workers -> Seq(ReliableMsg)]
      /\ up' \in [Workers -> Seq(UpMsg)]
  <2>1. CASE sock[w] # "open"
    BY <2>1 DEF OnRegistered, WorkerTypeOK
  <2>2. CASE sock[w] = "open"
    <3>1. /\ reg' = [reg EXCEPT ![w] = TRUE] /\ queue' = [queue EXCEPT ![w] = <<>>]
          /\ up' = [up EXCEPT ![w] = up[w] \o queue[w] \o status]
      BY <2>2 DEF OnRegistered, status
    <3>2. QED
      BY <1>2, <1>4, <3>1 DEF WorkerTypeOK
  <2>3. QED
    BY <2>1, <2>2
<1>6. WorkerTypeOK'
  BY <1>1, <1>5 DEF OnRegistered, WorkerTypeOK
<1>7. \A x \in Workers : FileOK(x)'
  BY DEF OnRegistered, FileOK
<1>8. QED
  BY <1>6, <1>7

\* An offer is ignored, declined, or taken into an empty slot; the state file is not touched.
LEMMA OfferTyped ==
  ASSUME WorkerTypeOK, NEW w \in Workers, NEW t \in Tasks, NEW n \in Attempts,
         Offer(w, [task |-> t, attempt |-> n, stage |-> "none", abort |-> "no"])
  PROVE  /\ queue' \in [Workers -> Seq(ReliableMsg)] /\ up' \in [Workers -> Seq(UpMsg)]
         /\ slot' \in [Workers -> Slots]
         /\ \A x \in Workers : slot'[x] = slot[x] \/ slot'[x].stage = "check"
<1> DEFINE s == [task |-> t, attempt |-> n, stage |-> "none", abort |-> "no"]
<1>1. CASE slot[w] # NoSlot /\ SameAttempt(slot[w], s)
  BY <1>1 DEF Offer, WorkerTypeOK
<1>2. CASE ~(slot[w] # NoSlot /\ SameAttempt(slot[w], s)) /\ (slot[w] # NoSlot \/ stopping[w])
  <2>1. Post(w, <<DeclineBusy(s)>>, <<>>) /\ UNCHANGED slot
    BY <1>2 DEF Offer
  <2>2. <<DeclineBusy(s)>> \in Seq(ReliableMsg) /\ <<>> \in Seq(UpMsg)
    BY ReportsReliable, OneTyped, NoneTyped
  <2>3. QED
    BY <2>1, <2>2, PostTyped DEF WorkerTypeOK
<1>3. CASE slot[w] = NoSlot /\ ~stopping[w]
  <2>1. Take(w, s) /\ UNCHANGED <<up, queue>>
    BY <1>3 DEF Offer
  <2>2. slot' = [slot EXCEPT ![w] = [task |-> t, attempt |-> n, stage |-> "check", abort |-> "no"]]
    <3>1. [s EXCEPT !.stage = "check"] = [task |-> t, attempt |-> n, stage |-> "check", abort |-> "no"]
      OBVIOUS
    <3>2. QED
      BY <2>1, <3>1 DEF Take
  <2>3. [task |-> t, attempt |-> n, stage |-> "check", abort |-> "no"] \in Slots
    BY DEF Slots
  <2>4. QED
    BY <2>1, <2>2, <2>3 DEF WorkerTypeOK
<1>4. QED
  BY <1>1, <1>2, <1>3

\* An assignment offers a task, or is ignored before registration.
LEMMA OnAssignedKeeps ==
  ASSUME WorkerInv, NEW w \in Workers, OnAssigned(w)
  PROVE  WorkerInv'
<1> USE DEF WorkerInv, state, client, wires
<1>1. down' \in [Workers -> Seq(DownMsg)] /\ Head(down[w]) \in DownMsg
  BY ReadTyped DEF OnAssigned
<1>2. Head(down[w]).task \in Tasks /\ Head(down[w]).attempt \in Attempts
  BY <1>1 DEF OnAssigned, Read, DownMsg, Registered
<1>3. /\ queue' \in [Workers -> Seq(ReliableMsg)] /\ up' \in [Workers -> Seq(UpMsg)]
      /\ slot' \in [Workers -> Slots]
      /\ \A x \in Workers : slot'[x] = slot[x] \/ slot'[x].stage = "check"
  <2>1. CASE reg[w]
    BY <1>2, <2>1, OfferTyped DEF OnAssigned, Offered
  <2>2. CASE ~reg[w]
    BY <2>2 DEF OnAssigned, WorkerTypeOK
  <2>3. QED
    BY <2>1, <2>2 DEF WorkerTypeOK
<1>4. WorkerTypeOK'
  BY <1>1, <1>3 DEF OnAssigned, WorkerTypeOK
<1>5. \A x \in Workers : FileOK(x)'
  BY <1>3 DEF OnAssigned, FileOK
<1>6. QED
  BY <1>4, <1>5

\* A resumed attempt is reported again, or run; an outcome is dropped, never added.
LEMMA OnResumedKeeps ==
  ASSUME WorkerInv, NEW w \in Workers, OnResumed(w)
  PROVE  WorkerInv'
<1> USE DEF WorkerInv, state, client, wires
<1> DEFINE m == Head(down[w])
           known == slot[w].task # m.task /\ unconf[w].task = m.task
<1>1. down' \in [Workers -> Seq(DownMsg)] /\ m \in DownMsg
  BY ReadTyped DEF OnResumed
<1>2. m.task \in Tasks /\ m.attempt \in Attempts
  BY <1>1 DEF OnResumed, Read, DownMsg, Registered
<1>3. UNCHANGED <<active, unready, sock, reg, stopping, broken, faults>>
  BY DEF OnResumed
<1>4. /\ queue' \in [Workers -> Seq(ReliableMsg)] /\ up' \in [Workers -> Seq(UpMsg)]
      /\ slot' \in [Workers -> Slots]
      /\ \A x \in Workers : slot'[x] = slot[x] \/ slot'[x].stage = "check"
      /\ unconf' = unconf \/ unconf' = [unconf EXCEPT ![w] = NoOutcome]
  <2>1. CASE ~reg[w]
    BY <2>1 DEF OnResumed, WorkerTypeOK
  <2>2. CASE reg[w] /\ known /\ unconf[w].attempt = m.attempt
    <3>1. unconf[w] \in Outcomes
      BY <1>2, <2>2, WorkerAssumption DEF WorkerTypeOK, NoOutcome
    <3>2. <<Report(unconf[w])>> \in Seq(ReliableMsg) /\ <<>> \in Seq(UpMsg)
      BY <3>1, ReportsReliable, OneTyped, NoneTyped
    <3>3. Post(w, <<Report(unconf[w])>>, <<>>) /\ UNCHANGED <<slot, unconf>>
      BY <2>2 DEF OnResumed
    <3>4. QED
      BY <3>2, <3>3, PostTyped DEF WorkerTypeOK
  <2>3. CASE reg[w] /\ ~(known /\ unconf[w].attempt = m.attempt)
    <3>1. Offer(w, Offered(m)) /\ (unconf' = unconf \/ unconf' = [unconf EXCEPT ![w] = NoOutcome])
      BY <2>3 DEF OnResumed
    <3>2. QED
      BY <1>2, <3>1, OfferTyped DEF Offered
  <2>4. QED
    BY <2>1, <2>2, <2>3
<1> HIDE DEF m, known
<1>5. WorkerTypeOK'
  BY <1>1, <1>3, <1>4 DEF WorkerTypeOK
<1>6. \A x \in Workers : FileOK(x)'
  BY <1>3, <1>4 DEF WorkerTypeOK, FileOK
<1>7. QED
  BY <1>5, <1>6

\* A task that is taken back is aborted, or struck from the file.
LEMMA OnRevokedKeeps ==
  ASSUME WorkerInv, NEW w \in Workers, OnRevoked(w)
  PROVE  WorkerInv'
<1> USE DEF WorkerInv, state, client, wires
<1>1. down' \in [Workers -> Seq(DownMsg)] /\ Head(down[w]) \in DownMsg
  BY ReadTyped DEF OnRevoked
<1>2. Head(down[w]).task \in Tasks
  BY <1>1 DEF OnRevoked, Read, DownMsg, Registered
<1>3. CASE slot[w].task = Head(down[w]).task
  <2>1. /\ slot' = [slot EXCEPT ![w].abort = IF @ = "no" THEN "revoked" ELSE @]
        /\ UNCHANGED <<active, unconf>>
    BY <1>3 DEF OnRevoked
  <2>2. slot[w] \in Slots \ {NoSlot}
    BY <1>2, <1>3, WorkerAssumption DEF WorkerTypeOK, NoSlot
  <2>3. slot' \in [Workers -> Slots]
    BY <2>1, <2>2 DEF WorkerTypeOK, Slots
  <2>4. \A x \in Workers : slot'[x].stage = slot[x].stage /\ slot'[x].task = slot[x].task
    BY <2>1, <2>2 DEF WorkerTypeOK, Slots
  <2>5. WorkerTypeOK'
    BY <1>1, <2>1, <2>3 DEF OnRevoked, WorkerTypeOK
  <2>6. \A x \in Workers : FileOK(x)'
    BY <2>1, <2>4 DEF FileOK
  <2>7. QED
    BY <2>5, <2>6
<1>4. CASE slot[w].task # Head(down[w]).task
  <2>1. Forget(w, Head(down[w]).task) /\ UNCHANGED slot
    BY <1>4 DEF OnRevoked
  <2>2. WorkerTypeOK'
    BY <1>1, <2>1 DEF OnRevoked, Forget, WorkerTypeOK
  <2>3. \A x \in Workers : FileOK(x)'
    BY <1>2, <1>4, <2>1 DEF Forget, FileOK, WorkerTypeOK
  <2>4. QED
    BY <2>2, <2>3
<1>5. QED
  BY <1>3, <1>4

\* A check that is aborted leaves at most the file without the task.
LEMMA CheckAbortedKeeps ==
  ASSUME WorkerInv, NEW w \in Workers, CheckAborted(w)
  PROVE  WorkerInv'
<1> USE DEF WorkerInv, state, client, wires
<1>1. slot' = [slot EXCEPT ![w] = NoSlot] /\ slot' \in [Workers -> Slots]
  BY DEF CheckAborted, Release, WorkerTypeOK, Slots
<1>2. unready' \in [Workers -> BOOLEAN]
  BY DEF CheckAborted, WorkerTypeOK
<1>3. CASE slot[w].abort = "revoked"
  <2>1. Forget(w, slot[w].task) /\ Post(w, <<>>, <<Idle>>)
    BY <1>3 DEF CheckAborted
  <2>2. queue' \in [Workers -> Seq(ReliableMsg)] /\ up' \in [Workers -> Seq(UpMsg)]
    BY <2>1, PostTyped, StatusTyped, OneTyped, NoneTyped
  <2>3. WorkerTypeOK'
    BY <1>1, <1>2, <2>1, <2>2 DEF CheckAborted, Forget, WorkerTypeOK
  <2>4. \A x \in Workers : FileOK(x)'
    BY <1>1, <2>1 DEF Forget, WorkerTypeOK, FileOK, NoSlot
  <2>5. QED
    BY <2>3, <2>4
<1>4. CASE slot[w].abort # "revoked"
  <2>1. UNCHANGED <<active, unconf, up, queue>>
    BY <1>4 DEF CheckAborted
  <2>2. WorkerTypeOK'
    BY <1>1, <1>2, <2>1 DEF CheckAborted, WorkerTypeOK
  <2>3. \A x \in Workers : FileOK(x)'
    BY <1>1, <2>1 DEF WorkerTypeOK, FileOK, NoSlot
  <2>4. QED
    BY <2>2, <2>3
<1>5. QED
  BY <1>3, <1>4

\* A task that is given back before it was accepted leaves the file alone.
LEMMA CheckNotReadyKeeps ==
  ASSUME WorkerInv, NEW w \in Workers, CheckNotReady(w)
  PROVE  WorkerInv'
<1> USE DEF WorkerInv, state, client, wires
<1>1. slot[w] \in Slots \ {NoSlot}
  BY DEF CheckNotReady, Release, NoSlot, WorkerTypeOK
<1>2. <<DeclineBusy(slot[w])>> \in Seq(ReliableMsg) /\ <<>> \in Seq(UpMsg)
  BY <1>1, ReportsReliable, StatusTyped, OneTyped, NoneTyped
<1>3. queue' \in [Workers -> Seq(ReliableMsg)] /\ up' \in [Workers -> Seq(UpMsg)]
  BY <1>2, PostTyped DEF CheckNotReady, Release, WorkerTypeOK
<1>4. slot' \in [Workers -> Slots]
  BY <1>1 DEF CheckNotReady, Release, WorkerTypeOK, Slots
<1>5. WorkerTypeOK'
  BY <1>1, <1>3, <1>4 DEF CheckNotReady, Release, WorkerTypeOK, Slots
<1>6. \A x \in Workers : FileOK(x)'
  BY <1>1 DEF CheckNotReady, Release, WorkerTypeOK, FileOK, NoSlot, Slots
<1>7. QED
  BY <1>5, <1>6

\* So does one that is refused.
LEMMA CheckRefusedKeeps ==
  ASSUME WorkerInv, NEW w \in Workers, CheckRefused(w)
  PROVE  WorkerInv'
<1> USE DEF WorkerInv, state, client, wires
<1>1. slot[w] \in Slots \ {NoSlot}
  BY DEF CheckRefused, Release, NoSlot, WorkerTypeOK
<1>2. <<Decline(slot[w])>> \in Seq(ReliableMsg) /\ <<>> \in Seq(UpMsg)
  BY <1>1, ReportsReliable, StatusTyped, OneTyped, NoneTyped
<1>3. queue' \in [Workers -> Seq(ReliableMsg)] /\ up' \in [Workers -> Seq(UpMsg)]
  BY <1>2, PostTyped DEF CheckRefused, Release, WorkerTypeOK
<1>4. slot' \in [Workers -> Slots]
  BY <1>1 DEF CheckRefused, Release, WorkerTypeOK, Slots
<1>5. WorkerTypeOK'
  BY <1>1, <1>3, <1>4 DEF CheckRefused, Release, WorkerTypeOK, Slots
<1>6. \A x \in Workers : FileOK(x)'
  BY <1>1 DEF CheckRefused, Release, WorkerTypeOK, FileOK, NoSlot, Slots
<1>7. QED
  BY <1>5, <1>6

\* The file names the task before it is accepted, and the outcome of before no longer.
LEMMA AcceptKeeps ==
  ASSUME WorkerInv, NEW w \in Workers, Accept(w)
  PROVE  WorkerInv'
<1> USE DEF WorkerInv, state, client, wires
<1>1. slot[w] \in Slots \ {NoSlot}
  BY DEF Accept, NoSlot, WorkerTypeOK
<1>2. <<AcceptMsg(slot[w])>> \in Seq(ReliableMsg) /\ <<Busy>> \in Seq(UpMsg)
  BY <1>1, ReportsReliable, StatusTyped, OneTyped, NoneTyped
<1>3. queue' \in [Workers -> Seq(ReliableMsg)] /\ up' \in [Workers -> Seq(UpMsg)]
  BY <1>2, PostTyped DEF Accept, WorkerTypeOK
<1>4. slot' \in [Workers -> Slots]
  BY <1>1 DEF Accept, WorkerTypeOK, Slots
<1>5. WorkerTypeOK'
  BY <1>1, <1>3, <1>4 DEF Accept, WorkerTypeOK, Slots
<1>6. \A x \in Workers : FileOK(x)'
  BY <1>1 DEF Accept, WorkerTypeOK, FileOK, NoSlot, Slots
<1>7. QED
  BY <1>5, <1>6

\* A run that gives its task back empties the slot and the file.
LEMMA SettleDeclinedKeeps ==
  ASSUME WorkerInv, NEW w \in Workers, SettleDeclined(w)
  PROVE  WorkerInv'
<1> USE DEF WorkerInv, state, client, wires
<1>1. slot[w] \in Slots \ {NoSlot}
  BY DEF SettleDeclined, Release, NoSlot, WorkerTypeOK
<1>2. <<Decline(slot[w])>> \in Seq(ReliableMsg) /\ <<Idle>> \in Seq(UpMsg)
  BY <1>1, ReportsReliable, StatusTyped, OneTyped, NoneTyped
<1>3. queue' \in [Workers -> Seq(ReliableMsg)] /\ up' \in [Workers -> Seq(UpMsg)]
  BY <1>2, PostTyped DEF SettleDeclined, Release, WorkerTypeOK
<1>4. slot' \in [Workers -> Slots]
  BY <1>1 DEF SettleDeclined, Release, WorkerTypeOK, Slots
<1>5. WorkerTypeOK'
  BY <1>1, <1>3, <1>4 DEF SettleDeclined, Release, WorkerTypeOK, Slots
<1>6. \A x \in Workers : FileOK(x)'
  BY <1>1 DEF SettleDeclined, Release, WorkerTypeOK, FileOK, NoSlot, Slots
<1>7. QED
  BY <1>5, <1>6

\* An outcome takes the task's place in the file.
LEMMA SettleKeeps ==
  ASSUME WorkerInv, NEW w \in Workers, NEW kind \in {"completed", "failed", "quota"}, Settle(w, kind)
  PROVE  WorkerInv'
<1> USE DEF WorkerInv, state, client, wires
<1> DEFINE o == [task |-> slot[w].task, attempt |-> slot[w].attempt, kind |-> kind]
<1>1. slot[w] \in Slots \ {NoSlot}
  BY DEF Settle, NoSlot, WorkerTypeOK
<1>2. o \in Outcomes
  BY <1>1 DEF Outcomes, Slots
<1>3. <<Report(o)>> \in Seq(ReliableMsg) /\ <<Idle>> \in Seq(UpMsg)
  BY <1>2, ReportsReliable, StatusTyped, OneTyped
<1>4. /\ slot' = [slot EXCEPT ![w] = NoSlot] /\ active' = [active EXCEPT ![w] = NoTask]
      /\ unconf' = [unconf EXCEPT ![w] = o] /\ Post(w, <<Report(o)>>, <<Idle>>)
      /\ UNCHANGED <<unready, sock, reg, stopping, broken, down, faults>>
  BY DEF Settle, Release
<1> HIDE DEF o
<1>5. queue' \in [Workers -> Seq(ReliableMsg)] /\ up' \in [Workers -> Seq(UpMsg)]
  BY <1>3, <1>4, PostTyped
<1>6. WorkerTypeOK'
  BY <1>2, <1>4, <1>5 DEF WorkerTypeOK, Slots
<1>7. \A x \in Workers : FileOK(x)'
  BY <1>4 DEF WorkerTypeOK, FileOK, NoSlot
<1>8. QED
  BY <1>6, <1>7

\* A run that is aborted empties the slot, and the file unless it is to be resumed.
LEMMA SettleAbortedKeeps ==
  ASSUME WorkerInv, NEW w \in Workers, SettleAborted(w)
  PROVE  WorkerInv'
<1> USE DEF WorkerInv, state, client, wires
<1>1. slot' = [slot EXCEPT ![w] = NoSlot] /\ slot' \in [Workers -> Slots]
  BY DEF SettleAborted, Release, WorkerTypeOK, Slots
<1>2. CASE slot[w].abort = "revoked"
  <2>1. active' = [active EXCEPT ![w] = NoTask] /\ Post(w, <<>>, <<Idle>>)
    BY <1>2 DEF SettleAborted
  <2>2. queue' \in [Workers -> Seq(ReliableMsg)] /\ up' \in [Workers -> Seq(UpMsg)]
    BY <2>1, PostTyped, StatusTyped, OneTyped, NoneTyped
  <2>3. WorkerTypeOK'
    BY <1>1, <2>1, <2>2 DEF SettleAborted, WorkerTypeOK
  <2>4. \A x \in Workers : FileOK(x)'
    BY <1>1, <2>1 DEF SettleAborted, WorkerTypeOK, FileOK, NoSlot
  <2>5. QED
    BY <2>3, <2>4
<1>3. CASE slot[w].abort # "revoked"
  <2>1. UNCHANGED <<active, up, queue>>
    BY <1>3 DEF SettleAborted
  <2>2. WorkerTypeOK'
    BY <1>1, <2>1 DEF SettleAborted, WorkerTypeOK
  <2>3. \A x \in Workers : FileOK(x)'
    BY <1>1, <2>1 DEF SettleAborted, WorkerTypeOK, FileOK, NoSlot
  <2>4. QED
    BY <2>2, <2>3
<1>4. QED
  BY <1>2, <1>3

\* A machine that is ready again says so.
LEMMA RecheckKeeps ==
  ASSUME WorkerInv, NEW w \in Workers, Recheck(w)
  PROVE  WorkerInv'
<1> USE DEF WorkerInv, state, client, wires
<1>1. (IF slot[w] = NoSlot THEN <<Idle>> ELSE <<>>) \in Seq(UpMsg) /\ <<>> \in Seq(ReliableMsg)
  BY StatusTyped, OneTyped, NoneTyped
<1>2. queue' \in [Workers -> Seq(ReliableMsg)] /\ up' \in [Workers -> Seq(UpMsg)]
  BY <1>1, PostTyped DEF Recheck
<1>3. WorkerTypeOK'
  BY <1>2 DEF Recheck, WorkerTypeOK
<1>4. \A x \in Workers : FileOK(x)'
  BY DEF Recheck, FileOK
<1>5. QED
  BY <1>3, <1>4

\* A connection that is over changes nothing else.
LEMMA OnCloseKeeps ==
  ASSUME WorkerInv, NEW w \in Workers, OnClose(w)
  PROVE  WorkerInv'
<1> USE DEF WorkerInv, state, client, wires
<1>1. <<>> \in Seq(DownMsg)
  BY NoneTyped
<1>2. WorkerTypeOK'
  BY <1>1 DEF OnClose, WorkerTypeOK
<1>3. \A x \in Workers : FileOK(x)'
  BY DEF OnClose, FileOK
<1>4. QED
  BY <1>2, <1>3

\* A new process has the state file, and nothing else of the old one.
LEMMA RestartedKeeps ==
  ASSUME WorkerInv, NEW w \in Workers, Restarted(w), Loadable(disk[w]),
         up' \in [Workers -> Seq(UpMsg)], faults' \in [Workers -> 0..MaxFaults]
  PROVE  WorkerInv'
<1> USE DEF WorkerInv
<1>1. <<>> \in Seq(DownMsg) /\ <<>> \in Seq(ReliableMsg)
  BY NoneTyped
<1>2. WorkerTypeOK'
  BY <1>1 DEF Restarted, Release, Loadable, WorkerTypeOK, Slots
<1>3. \A x \in Workers : FileOK(x)'
  BY DEF Restarted, Release, Loadable, WorkerTypeOK, FileOK, NoSlot
<1>4. QED
  BY <1>2, <1>3

\* A crash loses what was under way behind some point.
LEMMA CrashKeeps ==
  ASSUME WorkerInv, NEW w \in Workers, Crash(w), Loadable(disk[w])
  PROVE  WorkerInv'
<1> USE DEF WorkerInv, state, client, wires
<1>1. PICK sent \in Prefixes(up[w]) : up' = [up EXCEPT ![w] = sent]
  BY DEF Crash
<1>2. sent \in Seq(UpMsg)
  BY PrefixTyped DEF WorkerTypeOK
<1>3. up' \in [Workers -> Seq(UpMsg)]
  BY <1>1, <1>2 DEF WorkerTypeOK
<1>4. faults' \in [Workers -> 0..MaxFaults]
  BY WorkerAssumption DEF Crash, Fault, WorkerTypeOK
<1>5. QED
  BY <1>3, <1>4, RestartedKeeps DEF Crash

\* A stop marks the task that is held.
LEMMA StopKeeps ==
  ASSUME WorkerInv, NEW w \in Workers, Stop(w)
  PROVE  WorkerInv'
<1> USE DEF WorkerInv, state, client, wires
<1>1. slot' = [slot EXCEPT ![w].abort = IF slot[w] # NoSlot /\ @ = "no" THEN "stopping" ELSE @]
  BY DEF Stop
<1>2. slot' \in [Workers -> Slots]
  <2>1. CASE slot[w] = NoSlot
    <3>1. slot'[w] = NoSlot
      BY <1>1, <2>1 DEF WorkerTypeOK, NoSlot
    <3>2. QED
      BY <1>1, <3>1 DEF WorkerTypeOK, Slots
  <2>2. CASE slot[w] # NoSlot
    <3>1. slot'[w] \in Slots
      BY <1>1, <2>2 DEF WorkerTypeOK, Slots
    <3>2. QED
      BY <1>1, <3>1 DEF WorkerTypeOK
  <2>3. QED
    BY <2>1, <2>2
<1>3. \A x \in Workers : slot'[x].stage = slot[x].stage /\ slot'[x].task = slot[x].task
  BY <1>1 DEF WorkerTypeOK, Slots, NoSlot
<1>4. WorkerTypeOK'
  BY <1>2, WorkerAssumption DEF Stop, Fault, WorkerTypeOK
<1>5. \A x \in Workers : FileOK(x)'
  BY <1>3 DEF Stop, FileOK
<1>6. QED
  BY <1>4, <1>5

\* The process ends when no task is held.
LEMMA ExitKeeps ==
  ASSUME WorkerInv, NEW w \in Workers, Exit(w), Loadable(disk[w])
  PROVE  WorkerInv'
<1> USE DEF WorkerInv, state, client, wires
<1>1. QED
  BY RestartedKeeps DEF Exit, WorkerTypeOK

\* A connection that begins to end loses what was under way behind some point.
LEMMA CutKeeps ==
  ASSUME WorkerInv, NEW w \in Workers, Cut(w)
  PROVE  WorkerInv'
<1> USE DEF WorkerInv, state, client, wires
<1>1. PICK sent \in Prefixes(up[w]) : up' = [up EXCEPT ![w] = sent]
  BY DEF Cut
<1>2. sent \in Seq(UpMsg)
  BY PrefixTyped DEF WorkerTypeOK
<1>3. WorkerTypeOK'
  BY <1>1, <1>2, WorkerAssumption DEF Cut, Ending, Fault, WorkerTypeOK
<1>4. \A x \in Workers : FileOK(x)'
  BY DEF Cut, Ending, FileOK
<1>5. QED
  BY <1>3, <1>4

\* What befalls the machine is not in the file.
LEMMA MachineKeeps ==
  ASSUME WorkerInv, NEW w \in Workers, Breaks(w) \/ Repaired(w)
  PROVE  WorkerInv'
<1> USE DEF WorkerInv, state, client, wires
<1>1. WorkerTypeOK'
  <2>1. CASE Breaks(w)
    BY <2>1, WorkerAssumption DEF Breaks, Fault, WorkerTypeOK
  <2>2. CASE Repaired(w)
    BY <2>2 DEF Repaired, WorkerTypeOK
  <2>3. QED
    BY <2>1, <2>2
<1>2. \A x \in Workers : FileOK(x)'
  BY DEF Breaks, Repaired, FileOK
<1>3. QED
  BY <1>1, <1>2

\* The hub says and reads what it likes.
LEMMA HubKeeps ==
  ASSUME WorkerInv, NEW w \in Workers, HubSays(w) \/ HubReads(w)
  PROVE  WorkerInv'
<1> USE DEF WorkerInv, state, client, wires
<1>1. CASE HubSays(w)
  <2>1. PICK m \in DownMsg : down' = [down EXCEPT ![w] = Append(@, m)]
    BY <1>1 DEF HubSays
  <2>2. Append(down[w], m) \in Seq(DownMsg)
    BY AppendProperties DEF WorkerTypeOK
  <2>3. WorkerTypeOK'
    BY <1>1, <2>1, <2>2 DEF HubSays, WorkerTypeOK
  <2>4. \A x \in Workers : FileOK(x)'
    BY <1>1 DEF HubSays, FileOK
  <2>5. QED
    BY <2>3, <2>4
<1>2. CASE HubReads(w)
  <2>1. up[w] \in Seq(UpMsg) /\ up[w] # <<>>
    BY <1>2 DEF HubReads, WorkerTypeOK
  <2>2. Tail(up[w]) \in Seq(UpMsg)
    BY <2>1, HeadTailProperties
  <2>3. WorkerTypeOK'
    BY <1>2, <2>2 DEF HubReads, WorkerTypeOK
  <2>4. \A x \in Workers : FileOK(x)'
    BY <1>2 DEF HubReads, FileOK
  <2>5. QED
    BY <2>3, <2>4
<1>3. QED
  BY <1>1, <1>2

-----------------------------------------------------------------------------
\* A worker starts without a task,
LEMMA MemoryIsEmpty == WorkerInit => WorkerInv
<1> SUFFICES ASSUME WorkerInit PROVE WorkerInv
  OBVIOUS
<1>1. <<>> \in Seq(DownMsg) /\ <<>> \in Seq(ReliableMsg) /\ <<>> \in Seq(UpMsg)
  BY NoneTyped
<1>2. WorkerTypeOK
  BY <1>1, WorkerAssumption DEF WorkerInit, WorkerTypeOK, Slots
<1>3. \A w \in Workers : FileOK(w)
  BY DEF WorkerInit, FileOK, NoSlot
<1>4. QED
  BY <1>2, <1>3 DEF WorkerInv

\* and with an empty state file.
LEMMA FileIsEmpty == WorkerInit /\ StateFileInit => WorkerInv /\ DiskInv
<1>1. WorkerInit /\ StateFileInit => DiskInv
  BY DEF WorkerInit, StateFileInit, DiskInv, StateFileTypeOK, Loadable, Memory
<1>2. QED
  BY <1>1, MemoryIsEmpty

\* A step of a worker keeps what it has in memory, if its file can be loaded.
LEMMA WorkerStepKeeps ==
  ASSUME WorkerInv, NEW w \in Workers, Loadable(disk[w]), WorkerStep(w) \/ Open(w)
  PROVE  WorkerInv'
<1>1. CASE Hears(w)
  BY <1>1, OnRegisteredKeeps, OnAssignedKeeps, OnResumedKeeps, OnRevokedKeeps DEF Hears
<1>2. CASE Checked(w)
  BY <1>2, CheckAbortedKeeps, CheckNotReadyKeeps, CheckRefusedKeeps, AcceptKeeps DEF Checked
<1>3. CASE Produces(w)
  BY <1>3, SettleKeeps DEF Produces
<1>4. CASE GivesUp(w)
  BY <1>4, SettleDeclinedKeeps, SettleAbortedKeeps DEF GivesUp
<1>5. CASE Befalls(w)
  BY <1>5, RecheckKeeps, OnCloseKeeps, CrashKeeps, StopKeeps, ExitKeeps, CutKeeps, MachineKeeps
  DEF Befalls
<1>6. CASE Open(w)
  BY <1>6, OpenKeeps
<1>7. QED
  BY <1>1, <1>2, <1>3, <1>4, <1>5, <1>6 DEF WorkerStep

\* The task and the outcome of the other workers are not touched.
LEMMA OthersRemember ==
  ASSUME WorkerTypeOK, NEW w \in Workers, WorkerStep(w) \/ Open(w), NEW v \in Workers \ {w}
  PROVE  Memory(v)' = Memory(v)
<1> USE DEF state, client, wires, WorkerTypeOK, Memory
<1>1. CASE Hears(w)
  BY <1>1 DEF Hears, OnRegistered, OnAssigned, OnResumed, OnRevoked, Forget
<1>2. CASE Checked(w)
  BY <1>2 DEF Checked, CheckAborted, CheckNotReady, CheckRefused, Accept, Forget
<1>3. CASE Produces(w)
  BY <1>3 DEF Produces, Settle
<1>4. CASE GivesUp(w)
  BY <1>4 DEF GivesUp, SettleDeclined, SettleAborted
<1>5. CASE Befalls(w)
  BY <1>5 DEF Befalls, Recheck, OnClose, Crash, Exit, Restarted, Stop, Cut, Ending, Breaks, Repaired
<1>6. CASE Open(w)
  BY <1>6 DEF Open
<1>7. QED
  BY <1>1, <1>2, <1>3, <1>4, <1>5, <1>6 DEF WorkerStep

\* A write that succeeds or fails leaves a file that can be loaded.
LEMMA WriteKeeps ==
  ASSUME DiskInv, WorkerInv', NEW w \in Workers, Write(w),
         \A v \in Workers \ {w} : Memory(v)' = Memory(v)
  PROVE  DiskInv'
<1>1. Loadable(Memory(w)') /\ Memory(w)' \in [active : Tasks \cup {NoTask}, unconf : Outcomes \cup {NoOutcome}]
  BY DEF WorkerInv, WorkerTypeOK, FileOK, Loadable, Memory
<1>2. CASE disk' = [disk EXCEPT ![w] = Memory(w)'] /\ unsaved' = [unsaved EXCEPT ![w] = FALSE]
  <2>1. StateFileTypeOK'
    BY <1>1, <1>2 DEF DiskInv, StateFileTypeOK
  <2>2. disk'[w] = Memory(w)' /\ \A v \in Workers \ {w} : disk'[v] = disk[v] /\ unsaved'[v] = unsaved[v]
    BY <1>2 DEF DiskInv, StateFileTypeOK
  <2>3. QED
    BY <1>1, <2>1, <2>2 DEF DiskInv
<1>3. CASE unsaved' = [unsaved EXCEPT ![w] = TRUE] /\ UNCHANGED disk
  <2>1. StateFileTypeOK'
    BY <1>3 DEF DiskInv, StateFileTypeOK
  <2>2. unsaved'[w] /\ \A v \in Workers \ {w} : unsaved'[v] = unsaved[v]
    BY <1>3 DEF DiskInv, StateFileTypeOK
  <2>3. QED
    BY <1>3, <2>1, <2>2 DEF DiskInv
<1>4. QED
  BY <1>2, <1>3 DEF Write

\* Nothing that concerns the file changes.
LEMMA FileStays ==
  ASSUME DiskInv, UNCHANGED stateFile, \A v \in Workers : Memory(v)' = Memory(v)
  PROVE  DiskInv'
BY DEF DiskInv, StateFileTypeOK, stateFile

\* Every step keeps the invariant.
LEMMA WorkerInvInductive ==
  WorkerInv /\ DiskInv /\ [WorkerNext]_<<workerVars, stateFile>> => WorkerInv' /\ DiskInv'
<1> SUFFICES ASSUME WorkerInv, DiskInv, [WorkerNext]_<<workerVars, stateFile>>
             PROVE  WorkerInv' /\ DiskInv'
  OBVIOUS
<1>1. ASSUME NEW w \in Workers, WorkerStep(w), Filed(w) PROVE WorkerInv' /\ DiskInv'
  <2>1. WorkerInv'
    BY <1>1, WorkerStepKeeps DEF DiskInv
  <2>2. \A v \in Workers \ {w} : Memory(v)' = Memory(v)
    BY <1>1, OthersRemember DEF WorkerInv
  <2>3. CASE Updates(w)
    BY <1>1, <2>1, <2>2, <2>3, WriteKeeps DEF Filed
  <2>4. CASE ~Updates(w)
    <3>1. Memory(w)' = Memory(w)
      BY <2>4 DEF Updates
    <3>2. UNCHANGED stateFile
      BY <1>1, <2>4 DEF Filed
    <3>3. QED
      BY <2>1, <2>2, <3>1, <3>2, FileStays
  <2>5. QED
    BY <2>1, <2>3, <2>4
<1>2. ASSUME NEW w \in Workers, EngineNoted(w) PROVE WorkerInv' /\ DiskInv'
  <2>1. WorkerInv'
    BY <1>2 DEF EngineNoted, state, client, wires, WorkerInv, WorkerTypeOK, FileOK
  <2>2. \A v \in Workers : Memory(v)' = Memory(v)
    BY <1>2 DEF EngineNoted, state, Memory
  <2>3. QED
    BY <1>2, <2>1, <2>2, WriteKeeps DEF EngineNoted
<1>3. ASSUME NEW w \in Workers, Open(w) \/ HubSays(w) \/ HubReads(w), UNCHANGED stateFile
      PROVE  WorkerInv' /\ DiskInv'
  <2>1. WorkerInv'
    BY <1>3, OpenKeeps, HubKeeps
  <2>2. \A v \in Workers : Memory(v)' = Memory(v)
    BY <1>3 DEF Open, HubSays, HubReads, state, Memory
  <2>3. QED
    BY <1>3, <2>1, <2>2, FileStays
<1>4. CASE UNCHANGED <<workerVars, stateFile>>
  <2>1. WorkerInv'
    BY <1>4 DEF workerVars, state, client, wires, WorkerInv, WorkerTypeOK, FileOK
  <2>2. \A v \in Workers : Memory(v)' = Memory(v)
    BY <1>4 DEF workerVars, state, Memory
  <2>3. QED
    BY <1>4, <2>1, <2>2, FileStays
<1>5. QED
  BY <1>1, <1>2, <1>3, <1>4 DEF WorkerNext

(***************************************************************************)
(* The worker's slot, state, state file, queue and connection are always   *)
(* well formed, whatever the hub sends and whatever befalls the process.   *)
(***************************************************************************)
THEOREM WorkerTypeCorrect == WorkerSpec => [](WorkerTypeOK /\ StateFileTypeOK)
<1>1. WorkerInv /\ DiskInv => WorkerTypeOK /\ StateFileTypeOK
  BY DEF WorkerInv, DiskInv
<1>2. QED
  BY FileIsEmpty, WorkerInvInductive, <1>1, PTL DEF WorkerSpec

(***************************************************************************)
(* Unless the last write of the state file failed, a task that is being    *)
(* run is the one in the file, so the process that comes after a crash at  *)
(* any point of the run registers with it; a later write that succeeds     *)
(* makes up for one that failed.                                           *)
(***************************************************************************)
THEOREM RunStaysOnFile == WorkerSpec => []RunIsOnFile
<1>1. WorkerInv /\ DiskInv => RunIsOnFile
  <2>1. SUFFICES ASSUME WorkerInv, DiskInv, NEW w \in Workers, slot[w].stage = "run", ~unsaved[w]
                 PROVE  disk[w].active = slot[w].task
    BY DEF RunIsOnFile
  <2>2. disk[w] = Memory(w)
    BY <2>1 DEF DiskInv
  <2>3. active[w] = slot[w].task
    BY <2>1 DEF WorkerInv, FileOK
  <2>4. QED
    BY <2>2, <2>3 DEF Memory
<1>2. QED
  BY FileIsEmpty, WorkerInvInductive, <1>1, PTL DEF WorkerSpec

(***************************************************************************)
(* The state file names a task to go on with or an outcome to report       *)
(* again, never both, of which a registration could report only one; and   *)
(* that with any of its writes failing.                                    *)
(***************************************************************************)
THEOREM FileNamesOneTask == WorkerSpec => []OneTaskOnFile
<1>1. DiskInv => OneTaskOnFile
  BY DEF DiskInv, Loadable, OneTaskOnFile
<1>2. QED
  BY FileIsEmpty, WorkerInvInductive, <1>1, PTL DEF WorkerSpec

-----------------------------------------------------------------------------
(***************************************************************************)
(* What a step of one worker comes to, for proofs about the whole fleet:   *)
(* the wires as sets of messages, the other workers as they were.          *)
(***************************************************************************)
Msgs(q) == {q[i] : i \in 1..Len(q)}

\* What is said of no attempt, or of one that goes on.
Words == {"accept", "idle", "busy"}

\* q is p with the messages of R and perhaps a word more.
Gains(q, p, R) ==
  /\ Msgs(p) \cup R \subseteq Msgs(q)
  /\ \A m \in Msgs(q) : m \in Msgs(p) \cup R \/ m.type \in Words

Sends(w, R) ==
  IF CanSend(w) THEN Gains(up'[w], up[w], R) /\ queue'[w] = queue[w]
  ELSE Gains(queue'[w], queue[w], R) /\ up'[w] = up[w]

SameLink(w)  == sock'[w] = sock[w] /\ reg'[w] = reg[w] /\ stopping'[w] = stopping[w] /\ faults'[w] = faults[w]
SameWork(w)  == slot'[w] = slot[w] /\ unconf'[w] = unconf[w]
SameWires(w) == queue'[w] = queue[w] /\ up'[w] = up[w]

OnlyFor(w) ==
  \A v \in Workers \ {w} : SameLink(v) /\ SameWork(v) /\ SameWires(v) /\ down'[v] = down[v]

Heard(w, type) == down[w] # <<>> /\ down[w][1].type = type /\ down'[w] = Tail(down[w])

IsOn(x, t, n) == x.task = t /\ x.attempt = n

Registers(w) ==
  /\ Heard(w, "registered") /\ SameWork(w)
  /\ sock'[w] = sock[w] /\ stopping'[w] = stopping[w] /\ faults'[w] = faults[w]
  /\ \/ sock[w] # "open" /\ reg'[w] = reg[w] /\ SameWires(w)
     \/ sock[w] = "open" /\ reg'[w] /\ queue'[w] = <<>> /\ Gains(up'[w], up[w], Msgs(queue[w]))

\* An offer of attempt n at t is ignored, answered with its outcome, declined or taken.
Considers(w, type, t, n) ==
  /\ Heard(w, type) /\ IsOn(down[w][1], t, n) /\ SameLink(w)
  /\ \/ (~reg[w] \/ IsOn(slot[w], t, n)) /\ SameWork(w) /\ SameWires(w)
     \/ /\ reg[w] /\ type = "resumed" /\ IsOn(unconf[w], t, n) /\ SameWork(w)
        /\ \E kind \in {"completed", "failed", "quota"} : Sends(w, {[type |-> kind, task |-> t, attempt |-> n]})
     \/ /\ reg[w]
        /\ unconf'[w] = unconf[w] \/ (/\ unconf[w].task = t /\ unconf[w].attempt # n
                                     /\ slot[w].task # t /\ unconf'[w] = NoOutcome)
        /\ \/ /\ slot[w].task # NoTask \/ stopping[w]
              /\ slot'[w] = slot[w]
              /\ Sends(w, {[type |-> "busydecline", task |-> t, attempt |-> n]})
           \/ /\ slot[w].task = NoTask /\ ~stopping[w]
              /\ type = "resumed" => ~IsOn(unconf[w], t, n)
              /\ slot'[w] = [task |-> t, attempt |-> n, stage |-> "check", abort |-> "no"]
              /\ SameWires(w)

LosesTask(w, t) ==
  /\ Heard(w, "revoked") /\ down[w][1].task = t /\ SameLink(w) /\ SameWires(w)
  /\ \/ slot[w].task = t /\ unconf'[w] = unconf[w]
        /\ slot'[w] = [slot[w] EXCEPT !.abort = IF slot[w].abort = "no" THEN "revoked" ELSE slot[w].abort]
     \/ /\ slot[w].task # t /\ slot'[w] = slot[w]
        /\ unconf'[w] = unconf[w] \/ (unconf[w].task = t /\ unconf'[w] = NoOutcome)

\* The task leaves the slot without an outcome.
Drops(w) ==
  /\ slot[w].task # NoTask /\ slot'[w] = NoSlot /\ down'[w] = down[w] /\ SameLink(w)
  /\ \/ /\ slot[w].abort = "no" /\ unconf'[w] = unconf[w]
        /\ \E kind \in {"decline", "busydecline"} :
             Sends(w, {[type |-> kind, task |-> slot[w].task, attempt |-> slot[w].attempt]})
     \/ /\ slot[w].abort # "no" /\ Sends(w, {})
        /\ \/ unconf'[w] = unconf[w]
           \/ slot[w].abort = "revoked" /\ unconf[w].task = slot[w].task /\ unconf'[w] = NoOutcome

Begins(w) ==
  /\ slot[w].stage = "check" /\ slot[w].abort = "no" /\ slot'[w] = [slot[w] EXCEPT !.stage = "run"]
  /\ unconf'[w] = NoOutcome /\ down'[w] = down[w] /\ SameLink(w) /\ Sends(w, {})

Ends(w) ==
  /\ slot[w].stage = "run" /\ slot[w].abort \in {"no", "stopping"}
  /\ slot'[w] = NoSlot /\ down'[w] = down[w] /\ SameLink(w)
  /\ \E kind \in {"completed", "failed", "quota"} :
       LET o == [task |-> slot[w].task, attempt |-> slot[w].attempt, kind |-> kind]
       IN unconf'[w] = o /\ Sends(w, {[type |-> kind, task |-> slot[w].task, attempt |-> slot[w].attempt]})

Waits(w) ==
  /\ SameWork(w) /\ down'[w] = down[w] /\ Sends(w, {})
  /\ sock'[w] = sock[w] /\ reg'[w] = reg[w] /\ stopping'[w] = stopping[w]
  /\ faults'[w] \in {faults[w], faults[w] + 1}

LosesLink(w) ==
  /\ SameWork(w) /\ SameWires(w) /\ stopping'[w] = stopping[w] /\ faults'[w] = faults[w]
  /\ sock[w] = "ending" /\ sock'[w] = "none" /\ ~reg'[w] /\ down'[w] = <<>>

\* A new process, after a crash or once a stopping one is through.
Starts(w) ==
  /\ slot'[w] = NoSlot /\ unconf'[w] = unconf[w] /\ queue'[w] = <<>>
  /\ Msgs(up'[w]) \subseteq Msgs(up[w]) /\ Len(up'[w]) <= Len(up[w])
  /\ sock'[w] = "none" /\ ~reg'[w] /\ ~stopping'[w] /\ down'[w] = <<>>
  /\ \/ faults'[w] = faults[w] + 1
     \/ faults'[w] = faults[w] /\ stopping[w]

Stops(w) ==
  /\ slot'[w] = [slot[w] EXCEPT !.abort = IF slot[w] # NoSlot /\ slot[w].abort = "no" THEN "stopping" ELSE slot[w].abort]
  /\ unconf'[w] = unconf[w] /\ SameWires(w) /\ down'[w] = down[w]
  /\ sock'[w] = sock[w] /\ reg'[w] = reg[w] /\ stopping'[w] /\ faults'[w] = faults[w] + 1

CutsLink(w) ==
  /\ SameWork(w) /\ down'[w] = down[w] /\ queue'[w] = queue[w]
  /\ Msgs(up'[w]) \subseteq Msgs(up[w]) /\ Len(up'[w]) <= Len(up[w])
  /\ sock[w] = "open" /\ sock'[w] = "ending" /\ reg'[w] = reg[w] /\ stopping'[w] = stopping[w]
  /\ faults'[w] = faults[w] + 1

\* The messages of two sequences, one after the other.
LEMMA ConcatMsgs ==
  ASSUME NEW S, NEW p \in Seq(S), NEW q \in Seq(S)
  PROVE  Msgs(p \o q) = Msgs(p) \cup Msgs(q)
<1>1. /\ Len(p) \in Nat /\ Len(q) \in Nat /\ Len(p \o q) = Len(p) + Len(q)
      /\ \A i \in 1..Len(p) : (p \o q)[i] = p[i]
      /\ \A i \in 1..Len(q) : (p \o q)[Len(p) + i] = q[i]
  <2>1. Len(p) \in Nat /\ Len(q) \in Nat
    BY LenProperties
  <2>2. \A i \in 1..Len(q) : Len(p) + i \in 1..(Len(p) + Len(q)) /\ ~(Len(p) + i <= Len(p)) /\ (Len(p) + i) - Len(p) = i
    BY <2>1
  <2>3. QED
    BY <2>1, <2>2, ConcatProperties
<1>2. \A i \in 1..(Len(p) + Len(q)) : i \in 1..Len(p) \/ \E j \in 1..Len(q) : i = Len(p) + j
  <2> SUFFICES ASSUME NEW i \in 1..(Len(p) + Len(q)), i \notin 1..Len(p) PROVE \E j \in 1..Len(q) : i = Len(p) + j
    OBVIOUS
  <2>1. i - Len(p) \in 1..Len(q) /\ i = Len(p) + (i - Len(p))
    BY <1>1
  <2>2. QED
    BY <2>1
<1>3. \A i \in 1..Len(p) : i \in 1..(Len(p) + Len(q))
  BY <1>1
<1>4. \A i \in 1..Len(q) : Len(p) + i \in 1..(Len(p) + Len(q))
  BY <1>1
<1>5. \A m \in Msgs(p \o q) : m \in Msgs(p) \cup Msgs(q)
  BY <1>1, <1>2 DEF Msgs
<1>6. \A m \in Msgs(p) : m \in Msgs(p \o q)
  BY <1>1, <1>3 DEF Msgs
<1>7. \A m \in Msgs(q) : m \in Msgs(p \o q)
  BY <1>1, <1>4 DEF Msgs
<1>8. QED
  BY <1>5, <1>6, <1>7

\* The messages of a sequence of none, and of one.
LEMMA FewMsgs ==
  /\ Msgs(<<>>) = {}
  /\ \A m : Msgs(<<m>>) = {m}
<1>1. Len(<<>>) = 0 /\ 1..0 = {} /\ 1..1 = {1}
  OBVIOUS
<1>2. \A m : Len(<<m>>) = 1 /\ <<m>>[1] = m
  OBVIOUS
<1>3. QED
  BY <1>1, <1>2, Zenon DEF Msgs

\* A prefix has no other messages.
LEMMA PrefixMsgs ==
  ASSUME NEW S, NEW s \in Seq(S), NEW p \in Prefixes(s)
  PROVE  Msgs(p) \subseteq Msgs(s) /\ Len(p) <= Len(s)
<1>1. PICK n \in 0..Len(s) : p = SubSeq(s, 1, n)
  BY DEF Prefixes
<1>2. Len(s) \in Nat
  BY LenProperties
<1>3. \A i \in 1..n : s[i] \in S
  BY <1>1, <1>2, ElementOfSeq
<1>4. Len(p) = n /\ \A i \in 1..n : p[i] = s[i]
  BY <1>1, <1>2, <1>3, SubSeqProperties
<1>5. QED
  BY <1>2, <1>4 DEF Msgs

\* What post of one message or none, with words, comes to.
LEMMA PostSends ==
  ASSUME WorkerTypeOK, NEW w \in Workers, NEW reliable \in Seq(ReliableMsg), NEW plain \in Seq(UpMsg),
         NEW R \in SUBSET ReliableMsg, R \subseteq Msgs(reliable),
         \A m \in Msgs(reliable) : m \in R \/ m.type \in Words,
         \A m \in Msgs(plain) : m.type \in Words,
         Post(w, reliable, plain)
  PROVE  /\ Sends(w, R)
         /\ \A v \in Workers \ {w} : SameWires(v)
<1>1. reliable \in Seq(UpMsg)
  BY SeqSubset, StatusTyped
<1>2. up[w] \in Seq(UpMsg) /\ queue[w] \in Seq(ReliableMsg)
  BY DEF WorkerTypeOK
<1>3. up[w] \o reliable \in Seq(UpMsg)
  BY <1>1, <1>2, ConcatProperties
<1>4. /\ Msgs(up[w] \o reliable \o plain) = Msgs(up[w]) \cup Msgs(reliable) \cup Msgs(plain)
      /\ Msgs(queue[w] \o reliable) = Msgs(queue[w]) \cup Msgs(reliable)
  <2>1. Msgs(up[w] \o reliable) = Msgs(up[w]) \cup Msgs(reliable)
    BY <1>1, <1>2, ConcatMsgs
  <2>2. Msgs((up[w] \o reliable) \o plain) = Msgs(up[w] \o reliable) \cup Msgs(plain)
    <3> DEFINE first == up[w] \o reliable
    <3>1. first \in Seq(UpMsg)
      BY <1>3
    <3> HIDE DEF first
    <3>2. Msgs(first \o plain) = Msgs(first) \cup Msgs(plain)
      BY <3>1, ConcatMsgs
    <3>3. QED
      BY <3>2 DEF first
  <2>3. Msgs(queue[w] \o reliable) = Msgs(queue[w]) \cup Msgs(reliable)
    BY <1>2, ConcatMsgs
  <2>4. QED
    BY <2>1, <2>2, <2>3
<1>5. CASE CanSend(w)
  <2>1. up'[w] = up[w] \o reliable \o plain /\ queue' = queue /\ \A v \in Workers \ {w} : up'[v] = up[v]
    BY <1>5 DEF Post, WorkerTypeOK
  <2>2. QED
    BY <1>4, <1>5, <2>1 DEF Sends, Gains, SameWires
<1>6. CASE ~CanSend(w)
  <2>1. queue'[w] = queue[w] \o reliable /\ up' = up /\ \A v \in Workers \ {w} : queue'[v] = queue[v]
    BY <1>6 DEF Post, WorkerTypeOK
  <2>2. QED
    BY <1>4, <1>6, <2>1 DEF Sends, Gains, SameWires
<1>7. QED
  BY <1>5, <1>6

\* Reading the next message.
LEMMA ReadHears ==
  ASSUME WorkerTypeOK, NEW w \in Workers, NEW type, Read(w, type)
  PROVE  /\ Heard(w, type) /\ Head(down[w]) = down[w][1] /\ down[w][1] \in DownMsg
         /\ \A v \in Workers \ {w} : down'[v] = down[v]
<1>1. down[w] \in Seq(DownMsg) /\ down[w] # <<>>
  BY DEF Read, WorkerTypeOK
<1>2. Head(down[w]) = down[w][1] /\ Head(down[w]) \in DownMsg
  BY <1>1, HeadTailProperties
<1>3. QED
  BY <1>2 DEF Read, Heard, WorkerTypeOK

\* Registration is confirmed: the queue goes out.
LEMMA OnRegisteredMoves ==
  ASSUME WorkerTypeOK, NEW w \in Workers, OnRegistered(w)
  PROVE  Registers(w) /\ OnlyFor(w)
<1> USE DEF state, client
<1>1. Read(w, "registered") /\ UNCHANGED <<slot, unconf, sock, stopping, faults>>
  BY DEF OnRegistered
<1>2. CASE sock[w] # "open"
  <2>1. UNCHANGED <<reg, queue, up>>
    BY <1>2 DEF OnRegistered
  <2>2. QED
    BY <1>1, <1>2, <2>1, ReadHears DEF Registers, OnlyFor, SameWork, SameWires, SameLink
<1>3. CASE sock[w] = "open"
  <2> DEFINE words == IF unready[w] /\ slot[w] = NoSlot THEN <<Busy>> ELSE <<>>
  <2>1. /\ reg' = [reg EXCEPT ![w] = TRUE] /\ queue' = [queue EXCEPT ![w] = <<>>]
        /\ up' = [up EXCEPT ![w] = up[w] \o queue[w] \o words]
    BY <1>3 DEF OnRegistered
  <2>2. up[w] \in Seq(UpMsg) /\ queue[w] \in Seq(UpMsg) /\ words \in Seq(UpMsg)
    BY SeqSubset, StatusTyped, OneTyped, NoneTyped DEF WorkerTypeOK
  <2>3. \A m \in Msgs(words) : m.type \in Words
    BY FewMsgs DEF Words, Busy
  <2> HIDE DEF words
  <2>4. up[w] \o queue[w] \in Seq(UpMsg)
    BY <2>2, ConcatProperties
  <2>5. Msgs(up[w] \o queue[w]) = Msgs(up[w]) \cup Msgs(queue[w])
    BY <2>2, ConcatMsgs
  <2>6. Msgs((up[w] \o queue[w]) \o words) = Msgs(up[w] \o queue[w]) \cup Msgs(words)
    <3> DEFINE first == up[w] \o queue[w]
    <3>1. first \in Seq(UpMsg)
      BY <2>4
    <3> HIDE DEF first
    <3>2. Msgs(first \o words) = Msgs(first) \cup Msgs(words)
      BY <2>2, <3>1, ConcatMsgs
    <3>3. QED
      BY <3>2 DEF first
  <2>7. Gains(up'[w], up[w], Msgs(queue[w]))
    BY <2>1, <2>3, <2>5, <2>6 DEF Gains, WorkerTypeOK
  <2>8. /\ reg'[w] /\ queue'[w] = <<>>
        /\ \A v \in Workers \ {w} : reg'[v] = reg[v] /\ queue'[v] = queue[v] /\ up'[v] = up[v]
    BY <2>1 DEF WorkerTypeOK
  <2>9. QED
    BY <1>1, <1>3, <2>7, <2>8, ReadHears DEF Registers, OnlyFor, SameWork, SameWires, SameLink
<1>4. QED
  BY <1>2, <1>3

\* A report about an attempt, alone or with a word.
LEMMA ReportSent ==
  ASSUME WorkerTypeOK, NEW w \in Workers, NEW m \in ReliableMsg, NEW words \in Seq(UpMsg),
         \A x \in Msgs(words) : x.type \in Words, Post(w, <<m>>, words)
  PROVE  Sends(w, {m}) /\ \A v \in Workers \ {w} : SameWires(v)
<1>1. <<m>> \in Seq(ReliableMsg) /\ Msgs(<<m>>) = {m} /\ {m} \in SUBSET ReliableMsg
  BY FewMsgs, OneTyped
<1> DEFINE one == <<m>>
<1>2. one \in Seq(ReliableMsg) /\ Msgs(one) = {m} /\ Post(w, one, words)
  BY <1>1
<1> HIDE DEF one
<1>3. QED
  BY <1>1, <1>2, PostSends

\* Only words.
LEMMA WordsSent ==
  ASSUME WorkerTypeOK, NEW w \in Workers, NEW words \in Seq(UpMsg),
         \A x \in Msgs(words) : x.type \in Words, Post(w, <<>>, words)
  PROVE  Sends(w, {}) /\ \A v \in Workers \ {w} : SameWires(v)
<1>1. <<>> \in Seq(ReliableMsg) /\ Msgs(<<>>) = {} /\ {} \in SUBSET ReliableMsg
  BY FewMsgs, NoneTyped
<1> DEFINE nothing == <<>>
<1>2. nothing \in Seq(ReliableMsg) /\ Msgs(nothing) = {} /\ Post(w, nothing, words)
  BY <1>1
<1> HIDE DEF nothing
<1>3. QED
  BY <1>1, <1>2, PostSends

\* The words there are.
LEMMA WordTypes ==
  /\ <<>> \in Seq(UpMsg) /\ \A m \in Msgs(<<>>) : m.type \in Words
  /\ <<Idle>> \in Seq(UpMsg) /\ \A m \in Msgs(<<Idle>>) : m.type \in Words
  /\ <<Busy>> \in Seq(UpMsg) /\ \A m \in Msgs(<<Busy>>) : m.type \in Words
BY StatusTyped, OneTyped, NoneTyped, FewMsgs DEF Idle, Busy, Words

\* An offer that is not ignored is declined or taken.
LEMMA OfferMoves ==
  ASSUME WorkerTypeOK, NEW w \in Workers, NEW t \in Tasks, NEW n \in Attempts,
         Offer(w, [task |-> t, attempt |-> n, stage |-> "none", abort |-> "no"])
  PROVE  /\ \A v \in Workers \ {w} : slot'[v] = slot[v] /\ SameWires(v)
         /\ \/ IsOn(slot[w], t, n) /\ slot'[w] = slot[w] /\ SameWires(w)
            \/ /\ slot[w].task # NoTask \/ stopping[w]
               /\ slot'[w] = slot[w]
               /\ Sends(w, {[type |-> "busydecline", task |-> t, attempt |-> n]})
            \/ /\ slot[w].task = NoTask /\ ~stopping[w]
               /\ slot'[w] = [task |-> t, attempt |-> n, stage |-> "check", abort |-> "no"]
               /\ SameWires(w)
<1> DEFINE s == [task |-> t, attempt |-> n, stage |-> "none", abort |-> "no"]
<1>0. slot[w] = NoSlot <=> slot[w].task = NoTask
  BY WorkerAssumption DEF WorkerTypeOK, Slots, NoSlot
<1>1. CASE slot[w] # NoSlot /\ SameAttempt(slot[w], s)
  BY <1>1 DEF Offer, SameAttempt, IsOn, SameWires
<1>2. CASE ~(slot[w] # NoSlot /\ SameAttempt(slot[w], s)) /\ (slot[w] # NoSlot \/ stopping[w])
  <2> DEFINE m == [type |-> "busydecline", task |-> t, attempt |-> n]
  <2>1. Post(w, <<m>>, <<>>) /\ UNCHANGED slot
    BY <1>2 DEF Offer, DeclineBusy
  <2>2. m \in ReliableMsg
    BY ReportsReliable DEF DeclineBusy
  <2> HIDE DEF m
  <2>3. Sends(w, {m}) /\ \A v \in Workers \ {w} : SameWires(v)
    BY <2>1, <2>2, WordTypes, ReportSent
  <2>4. QED
    BY <1>0, <1>2, <2>1, <2>3 DEF m
<1>3. CASE slot[w] = NoSlot /\ ~stopping[w]
  <2>1. Take(w, s) /\ UNCHANGED <<up, queue>>
    BY <1>3 DEF Offer
  <2>2. slot' = [slot EXCEPT ![w] = [task |-> t, attempt |-> n, stage |-> "check", abort |-> "no"]]
    <3>1. [s EXCEPT !.stage = "check"] = [task |-> t, attempt |-> n, stage |-> "check", abort |-> "no"]
      OBVIOUS
    <3>2. QED
      BY <2>1, <3>1 DEF Take
  <2>3. QED
    BY <1>0, <1>3, <2>1, <2>2 DEF WorkerTypeOK, SameWires
<1>4. QED
  BY <1>1, <1>2, <1>3

\* A message task.assigned is heard and considered by the worker it was sent to.
LEMMA OnAssignedMoves ==
  ASSUME WorkerTypeOK, NEW w \in Workers, OnAssigned(w)
  PROVE  OnlyFor(w) /\ \E t \in Tasks, n \in Attempts : Considers(w, "assigned", t, n)
<1> USE DEF state
<1> DEFINE m == Head(down[w])
<1>1. /\ Heard(w, "assigned") /\ m = down[w][1] /\ m \in DownMsg
      /\ \A v \in Workers \ {w} : down'[v] = down[v]
  BY ReadHears DEF OnAssigned
<1>2. m.task \in Tasks /\ m.attempt \in Attempts
  BY <1>1 DEF Heard, DownMsg, Registered
<1>3. UNCHANGED <<unconf, sock, reg, stopping, faults>>
  BY DEF OnAssigned
<1>4. CASE ~reg[w]
  <2>1. UNCHANGED <<slot, up, queue>>
    BY <1>4 DEF OnAssigned
  <2>2. Considers(w, "assigned", m.task, m.attempt)
    BY <1>1, <1>3, <1>4, <2>1 DEF Considers, IsOn, SameLink, SameWork, SameWires
  <2>3. QED
    BY <1>1, <1>2, <1>3, <2>1, <2>2 DEF OnlyFor, SameLink, SameWork, SameWires
<1>5. CASE reg[w]
  <2>1. Offer(w, [task |-> m.task, attempt |-> m.attempt, stage |-> "none", abort |-> "no"])
    BY <1>5 DEF OnAssigned, Offered
  <2> HIDE DEF m
  <2>2. Considers(w, "assigned", m.task, m.attempt)
    BY <1>1, <1>2, <1>3, <1>5, <2>1, OfferMoves DEF Considers, IsOn, SameLink, SameWork
  <2>3. \A v \in Workers \ {w} : slot'[v] = slot[v] /\ SameWires(v)
    BY <1>2, <2>1, OfferMoves
  <2>4. QED
    BY <1>1, <1>2, <1>3, <2>2, <2>3 DEF OnlyFor, SameLink, SameWork
<1>6. QED
  BY <1>4, <1>5

\* So is task.resumed, but for an outcome of that task the worker still keeps.
LEMMA OnResumedMoves ==
  ASSUME WorkerTypeOK, NEW w \in Workers, OnResumed(w)
  PROVE  OnlyFor(w) /\ \E t \in Tasks, n \in Attempts : Considers(w, "resumed", t, n)
<1> DEFINE m == Head(down[w])
           known == slot[w].task # m.task /\ unconf[w].task = m.task
<1>1. /\ Heard(w, "resumed") /\ m = down[w][1] /\ m \in DownMsg
      /\ \A v \in Workers \ {w} : down'[v] = down[v]
  BY ReadHears DEF OnResumed
<1>2. m.task \in Tasks /\ m.attempt \in Attempts
  BY <1>1 DEF Heard, DownMsg, Registered
<1>3. UNCHANGED <<sock, reg, stopping, faults>>
  BY DEF OnResumed
<1>4. CASE ~reg[w]
  <2>1. UNCHANGED <<slot, unconf, up, queue>>
    BY <1>4 DEF OnResumed
  <2>2. Considers(w, "resumed", m.task, m.attempt)
    BY <1>1, <1>3, <1>4, <2>1 DEF Considers, IsOn, SameLink, SameWork, SameWires
  <2>3. QED
    BY <1>1, <1>2, <1>3, <2>1, <2>2 DEF OnlyFor, SameLink, SameWork, SameWires
<1>5. CASE reg[w] /\ known /\ unconf[w].attempt = m.attempt
  <2>1. unconf[w] \in Outcomes
    BY <1>2, <1>5, WorkerAssumption DEF WorkerTypeOK, NoOutcome
  <2> DEFINE x == Report(unconf[w])
  <2>2. Post(w, <<x>>, <<>>) /\ UNCHANGED <<slot, unconf>>
    BY <1>5 DEF OnResumed
  <2>3. x \in ReliableMsg /\ x = [type |-> unconf[w].kind, task |-> m.task, attempt |-> m.attempt]
    BY <1>5, <2>1, ReportsReliable DEF Report
  <2>4. unconf[w].kind \in {"completed", "failed", "quota"}
    BY <2>1 DEF Outcomes
  <2> HIDE DEF x
  <2>5. Sends(w, {x}) /\ \A v \in Workers \ {w} : SameWires(v)
    BY <2>2, <2>3, WordTypes, ReportSent
  <2> HIDE DEF m
  <2>6. Considers(w, "resumed", m.task, m.attempt)
    BY <1>1, <1>3, <1>5, <2>2, <2>3, <2>4, <2>5 DEF Considers, IsOn, SameLink, SameWork
  <2>7. QED
    BY <1>1, <1>2, <1>3, <2>2, <2>5, <2>6 DEF OnlyFor, SameLink, SameWork
<1>6. CASE reg[w] /\ ~(known /\ unconf[w].attempt = m.attempt)
  <2>1. /\ Offer(w, [task |-> m.task, attempt |-> m.attempt, stage |-> "none", abort |-> "no"])
        /\ unconf' = IF known THEN [unconf EXCEPT ![w] = NoOutcome] ELSE unconf
    BY <1>6 DEF OnResumed, Offered
  <2>2. /\ \A v \in Workers \ {w} : unconf'[v] = unconf[v]
        /\ unconf'[w] = unconf[w] \/ (known /\ unconf'[w] = NoOutcome)
    BY <2>1 DEF WorkerTypeOK
  <2>3. slot[w].task = NoTask => slot[w].task # m.task
    BY <1>2, WorkerAssumption
  <2> HIDE DEF m
  <2>4. Considers(w, "resumed", m.task, m.attempt)
    <3>1. /\ Heard(w, "resumed") /\ IsOn(down[w][1], m.task, m.attempt) /\ SameLink(w)
          /\ unconf'[w] = unconf[w] \/ (/\ unconf[w].task = m.task /\ unconf[w].attempt # m.attempt
                                       /\ slot[w].task # m.task /\ unconf'[w] = NoOutcome)
          /\ slot[w].task = NoTask => ~IsOn(unconf[w], m.task, m.attempt)
      BY <1>1, <1>3, <1>6, <2>2, <2>3 DEF IsOn, SameLink
    <3>2. IsOn(slot[w], m.task, m.attempt) => unconf'[w] = unconf[w]
      BY <2>2 DEF IsOn
    <3> HIDE DEF known
    <3>3. QED
      BY <1>2, <1>6, <2>1, <3>1, <3>2, OfferMoves DEF Considers, SameWork
  <2>5. \A v \in Workers \ {w} : slot'[v] = slot[v] /\ SameWires(v)
    BY <1>2, <2>1, OfferMoves
  <2>6. QED
    BY <1>1, <1>2, <1>3, <2>2, <2>4, <2>5 DEF OnlyFor, SameLink, SameWork
<1>7. QED
  BY <1>4, <1>5, <1>6

\* task.revoked takes a task from the worker it was sent to.
LEMMA OnRevokedMoves ==
  ASSUME WorkerTypeOK, NEW w \in Workers, OnRevoked(w)
  PROVE  OnlyFor(w) /\ \E t \in Tasks : LosesTask(w, t)
<1> USE DEF client
<1> DEFINE m == Head(down[w])
<1>1. /\ Heard(w, "revoked") /\ m = down[w][1] /\ m \in DownMsg
      /\ \A v \in Workers \ {w} : down'[v] = down[v]
  BY ReadHears DEF OnRevoked
<1>2. m.task \in Tasks
  BY <1>1 DEF Heard, DownMsg, Registered
<1>3. UNCHANGED <<queue, up, sock, reg, stopping, faults>>
  BY DEF OnRevoked
<1>4. CASE slot[w].task = m.task
  <2>1. UNCHANGED unconf /\ slot' = [slot EXCEPT ![w].abort = IF @ = "no" THEN "revoked" ELSE @]
    BY <1>4 DEF OnRevoked
  <2>2. /\ slot'[w] = [slot[w] EXCEPT !.abort = IF slot[w].abort = "no" THEN "revoked" ELSE slot[w].abort]
        /\ \A v \in Workers \ {w} : slot'[v] = slot[v]
    BY <2>1 DEF WorkerTypeOK
  <2>3. LosesTask(w, m.task)
    BY <1>1, <1>3, <1>4, <2>1, <2>2 DEF LosesTask, SameLink, SameWires
  <2>4. QED
    BY <1>1, <1>2, <1>3, <2>1, <2>2, <2>3 DEF OnlyFor, SameLink, SameWork, SameWires
<1>5. CASE slot[w].task # m.task
  <2>1. UNCHANGED slot /\ unconf' = [unconf EXCEPT ![w] = IF @.task = m.task THEN NoOutcome ELSE @]
    BY <1>5 DEF OnRevoked, Forget
  <2>2. /\ unconf'[w] = unconf[w] \/ (unconf[w].task = m.task /\ unconf'[w] = NoOutcome)
        /\ \A v \in Workers \ {w} : unconf'[v] = unconf[v]
    BY <2>1 DEF WorkerTypeOK
  <2>3. LosesTask(w, m.task)
    BY <1>1, <1>3, <1>5, <2>1, <2>2 DEF LosesTask, SameLink, SameWires
  <2>4. QED
    BY <1>1, <1>2, <1>3, <2>1, <2>2, <2>3 DEF OnlyFor, SameLink, SameWork, SameWires
<1>6. QED
  BY <1>4, <1>5

\* A slot that is not empty names a task, and one that does not is empty.
LEMMA SlotFacts ==
  ASSUME WorkerTypeOK, NEW w \in Workers
  PROVE  /\ slot[w] = NoSlot <=> slot[w].task = NoTask
         /\ slot[w].stage # "none" => /\ slot[w].task \in Tasks /\ slot[w].attempt \in Attempts
                                      /\ slot[w] \in Slots \ {NoSlot}
BY WorkerAssumption DEF WorkerTypeOK, Slots, NoSlot

\* A check that was aborted drops the task without an outcome.
LEMMA CheckAbortedMoves ==
  ASSUME WorkerTypeOK, NEW w \in Workers, CheckAborted(w)
  PROVE  Drops(w) /\ OnlyFor(w)
<1>1. /\ slot[w].stage = "check" /\ slot[w].abort # "no" /\ slot' = [slot EXCEPT ![w] = NoSlot]
      /\ UNCHANGED <<sock, reg, stopping, faults, down>>
  BY DEF CheckAborted, Release
<1>2. slot'[w] = NoSlot /\ \A v \in Workers \ {w} : slot'[v] = slot[v]
  BY <1>1 DEF WorkerTypeOK
<1>3. slot[w].task # NoTask
  BY <1>1, SlotFacts, WorkerAssumption
<1>4. CASE slot[w].abort = "revoked"
  <2>1. /\ unconf' = [unconf EXCEPT ![w] = IF @.task = slot[w].task THEN NoOutcome ELSE @]
        /\ Post(w, <<>>, <<Idle>>)
    BY <1>4 DEF CheckAborted, Forget
  <2>2. /\ unconf'[w] = unconf[w] \/ (unconf[w].task = slot[w].task /\ unconf'[w] = NoOutcome)
        /\ \A v \in Workers \ {w} : unconf'[v] = unconf[v]
    BY <2>1 DEF WorkerTypeOK
  <2>3. Sends(w, {}) /\ \A v \in Workers \ {w} : SameWires(v)
    BY <2>1, WordTypes, WordsSent
  <2>4. QED
    BY <1>1, <1>2, <1>3, <1>4, <2>2, <2>3 DEF Drops, OnlyFor, SameLink, SameWork
<1>5. CASE slot[w].abort # "revoked"
  <2>1. UNCHANGED <<unconf, up, queue>>
    BY <1>5 DEF CheckAborted
  <2>2. QED
    BY <1>1, <1>2, <1>3, <1>5, <2>1 DEF Drops, OnlyFor, SameLink, SameWork, SameWires, Sends, Gains
<1>6. QED
  BY <1>4, <1>5

\* A report about the attempt in the slot, and the slot is free.
LEMMA DeclineDrops ==
  ASSUME WorkerTypeOK, NEW w \in Workers, slot[w].stage # "none", slot[w].abort = "no",
         Release(w), UNCHANGED <<unconf, sock, reg, stopping, faults, down>>,
         NEW m \in {Decline(slot[w]), DeclineBusy(slot[w])}, NEW words \in {<<>>, <<Idle>>},
         Post(w, <<m>>, words)
  PROVE  Drops(w) /\ OnlyFor(w)
<1>1. m \in ReliableMsg /\ slot[w].task # NoTask
  BY SlotFacts, ReportsReliable, WorkerAssumption
<1>2. \E kind \in {"decline", "busydecline"} : m = [type |-> kind, task |-> slot[w].task, attempt |-> slot[w].attempt]
  BY DEF Decline, DeclineBusy
<1>3. Sends(w, {m}) /\ \A v \in Workers \ {w} : SameWires(v)
  BY <1>1, WordTypes, ReportSent
<1>4. slot'[w] = NoSlot /\ \A v \in Workers \ {w} : slot'[v] = slot[v]
  BY DEF Release, WorkerTypeOK
<1>5. QED
  BY <1>1, <1>2, <1>3, <1>4 DEF Drops, OnlyFor, SameLink, SameWork

\* So do the three ways to decline it.
LEMMA DeclinesMove ==
  ASSUME WorkerTypeOK, NEW w \in Workers, CheckNotReady(w) \/ CheckRefused(w) \/ SettleDeclined(w)
  PROVE  Drops(w) /\ OnlyFor(w)
<1>1. CASE CheckNotReady(w)
  BY <1>1, DeclineDrops DEF CheckNotReady
<1>2. CASE CheckRefused(w)
  BY <1>2, DeclineDrops DEF CheckRefused
<1>3. CASE SettleDeclined(w)
  BY <1>3, DeclineDrops DEF SettleDeclined
<1>4. QED
  BY <1>1, <1>2, <1>3

\* So does a run that was aborted.
LEMMA SettleAbortedMoves ==
  ASSUME WorkerTypeOK, NEW w \in Workers, SettleAborted(w)
  PROVE  Drops(w) /\ OnlyFor(w)
<1>1. /\ slot[w].stage = "run" /\ slot[w].abort # "no" /\ slot' = [slot EXCEPT ![w] = NoSlot]
      /\ UNCHANGED <<unconf, sock, reg, stopping, faults, down>>
  BY DEF SettleAborted, Release
<1>2. slot'[w] = NoSlot /\ \A v \in Workers \ {w} : slot'[v] = slot[v]
  BY <1>1 DEF WorkerTypeOK
<1>3. slot[w].task # NoTask
  BY <1>1, SlotFacts, WorkerAssumption
<1>4. Sends(w, {}) /\ \A v \in Workers \ {w} : SameWires(v)
  <2>1. CASE slot[w].abort = "revoked"
    BY <2>1, WordTypes, WordsSent DEF SettleAborted
  <2>2. CASE slot[w].abort # "revoked"
    BY <2>2 DEF SettleAborted, Sends, Gains, SameWires
  <2>3. QED
    BY <2>1, <2>2
<1>5. QED
  BY <1>1, <1>2, <1>3, <1>4 DEF Drops, OnlyFor, SameLink, SameWork

\* To accept the task begins its run, and nothing of an earlier one is kept.
LEMMA AcceptMoves ==
  ASSUME WorkerTypeOK, NEW w \in Workers, Accept(w)
  PROVE  Begins(w) /\ OnlyFor(w)
<1>1. /\ slot[w].stage = "check" /\ slot[w].abort = "no" /\ slot' = [slot EXCEPT ![w].stage = "run"]
      /\ unconf' = [unconf EXCEPT ![w] = NoOutcome]
      /\ UNCHANGED <<sock, reg, stopping, faults, down>>
      /\ Post(w, <<AcceptMsg(slot[w])>>, <<Busy>>)
  BY DEF Accept
<1>2. /\ slot'[w] = [slot[w] EXCEPT !.stage = "run"] /\ unconf'[w] = NoOutcome
      /\ \A v \in Workers \ {w} : slot'[v] = slot[v] /\ unconf'[v] = unconf[v]
  BY <1>1 DEF WorkerTypeOK
<1> DEFINE one == <<AcceptMsg(slot[w])>>
<1>3. AcceptMsg(slot[w]) \in ReliableMsg
  BY <1>1, SlotFacts, ReportsReliable
<1>4. one \in Seq(ReliableMsg) /\ \A m \in Msgs(one) : m.type \in Words
  BY <1>3, OneTyped, FewMsgs DEF AcceptMsg, Words
<1>5. Post(w, one, <<Busy>>) /\ {} \in SUBSET ReliableMsg
  BY <1>1
<1> HIDE DEF one
<1>6. Sends(w, {}) /\ \A v \in Workers \ {w} : SameWires(v)
  BY <1>4, <1>5, WordTypes, PostSends
<1>7. QED
  BY <1>1, <1>2, <1>6 DEF Begins, OnlyFor, SameLink, SameWork

\* The end of a run leaves its outcome in the file, and reports it.
LEMMA SettleMoves ==
  ASSUME WorkerTypeOK, NEW w \in Workers, NEW kind \in {"completed", "failed", "quota"}, Settle(w, kind)
  PROVE  Ends(w) /\ OnlyFor(w)
<1> DEFINE o == [task |-> slot[w].task, attempt |-> slot[w].attempt, kind |-> kind]
<1>1. /\ slot[w].stage = "run" /\ slot[w].abort \in {"no", "stopping"} /\ slot' = [slot EXCEPT ![w] = NoSlot]
      /\ unconf' = [unconf EXCEPT ![w] = o]
      /\ UNCHANGED <<sock, reg, stopping, faults, down>>
      /\ Post(w, <<Report(o)>>, <<Idle>>)
  BY DEF Settle, Release
<1>2. /\ slot'[w] = NoSlot /\ unconf'[w] = o
      /\ \A v \in Workers \ {w} : slot'[v] = slot[v] /\ unconf'[v] = unconf[v]
  BY <1>1 DEF WorkerTypeOK
<1>3. o \in Outcomes
  BY <1>1, SlotFacts DEF Outcomes
<1>4. Report(o) \in ReliableMsg /\ Report(o) = [type |-> kind, task |-> slot[w].task, attempt |-> slot[w].attempt]
  BY <1>3, ReportsReliable DEF Report
<1>5. Sends(w, {Report(o)}) /\ \A v \in Workers \ {w} : SameWires(v)
  <2> HIDE DEF o
  <2>1. QED
    BY <1>1, <1>4, WordTypes, ReportSent
<1>6. QED
  BY <1>1, <1>2, <1>4, <1>5 DEF Ends, OnlyFor, SameLink, SameWork

\* What befalls the machine changes neither the task nor the connection.
LEMMA WaitsMove ==
  ASSUME WorkerTypeOK, NEW w \in Workers, Recheck(w) \/ Breaks(w) \/ Repaired(w)
  PROVE  Waits(w) /\ OnlyFor(w)
<1> USE DEF state, client, wires
<1>1. CASE Recheck(w)
  <2> DEFINE words == IF slot[w] = NoSlot THEN <<Idle>> ELSE <<>>
  <2>1. Post(w, <<>>, words) /\ UNCHANGED <<slot, unconf, sock, reg, stopping, faults, down>>
    BY <1>1 DEF Recheck
  <2>2. words \in Seq(UpMsg) /\ \A m \in Msgs(words) : m.type \in Words
    BY WordTypes
  <2> HIDE DEF words
  <2>3. Sends(w, {}) /\ \A v \in Workers \ {w} : SameWires(v)
    BY <2>1, <2>2, WordsSent
  <2>4. QED
    BY <2>1, <2>3 DEF Waits, OnlyFor, SameLink, SameWork
<1>2. CASE Breaks(w) \/ Repaired(w)
  <2>1. UNCHANGED <<slot, unconf, queue, sock, reg, stopping, up, down>>
    BY <1>2 DEF Breaks, Repaired
  <2>2. faults' = faults \/ faults' = [faults EXCEPT ![w] = @ + 1]
    BY <1>2 DEF Breaks, Repaired, Fault
  <2>3. faults'[w] \in {faults[w], faults[w] + 1} /\ \A v \in Workers \ {w} : faults'[v] = faults[v]
    BY <2>2 DEF WorkerTypeOK
  <2>4. QED
    BY <2>1, <2>3 DEF Waits, OnlyFor, SameLink, SameWork, SameWires, Sends, Gains
<1>3. QED
  BY <1>1, <1>2

\* A socket that is over takes with it what was still to be read.
LEMMA OnCloseMoves ==
  ASSUME WorkerTypeOK, NEW w \in Workers, OnClose(w)
  PROVE  LosesLink(w) /\ OnlyFor(w)
<1>1. /\ sock[w] = "ending" /\ sock' = [sock EXCEPT ![w] = "none"] /\ reg' = [reg EXCEPT ![w] = FALSE]
      /\ down' = [down EXCEPT ![w] = <<>>] /\ UNCHANGED <<slot, unconf, queue, stopping, up, faults>>
  BY DEF OnClose, state
<1>2. /\ sock'[w] = "none" /\ ~reg'[w] /\ down'[w] = <<>>
      /\ \A v \in Workers \ {w} : sock'[v] = sock[v] /\ reg'[v] = reg[v] /\ down'[v] = down[v]
  BY <1>1 DEF WorkerTypeOK
<1>3. QED
  BY <1>1, <1>2 DEF LosesLink, OnlyFor, SameLink, SameWork, SameWires

\* A new process knows what the file says, and nothing else.
LEMMA StartsMove ==
  ASSUME WorkerTypeOK, NEW w \in Workers, Crash(w) \/ Exit(w), disk[w] = Memory(w)
  PROVE  Starts(w) /\ OnlyFor(w)
<1>1. Restarted(w) /\ slot[w] \in Slots
  BY DEF Crash, Exit, WorkerTypeOK
<1>2. /\ slot'[w] = NoSlot /\ unconf' = unconf /\ queue'[w] = <<>>
      /\ sock'[w] = "none" /\ ~reg'[w] /\ ~stopping'[w] /\ down'[w] = <<>>
      /\ \A v \in Workers \ {w} : /\ slot'[v] = slot[v] /\ queue'[v] = queue[v] /\ sock'[v] = sock[v]
                                  /\ reg'[v] = reg[v] /\ stopping'[v] = stopping[v] /\ down'[v] = down[v]
  BY <1>1 DEF Restarted, Release, Memory, WorkerTypeOK
<1>3. /\ Msgs(up'[w]) \subseteq Msgs(up[w]) /\ Len(up'[w]) <= Len(up[w])
      /\ \A v \in Workers \ {w} : up'[v] = up[v]
      /\ \A v \in Workers \ {w} : faults'[v] = faults[v]
      /\ faults'[w] = faults[w] + 1 \/ (faults'[w] = faults[w] /\ stopping[w])
  <2>1. CASE Exit(w)
    BY <2>1 DEF Exit
  <2>2. CASE Crash(w)
    <3>1. PICK sent \in Prefixes(up[w]) : up' = [up EXCEPT ![w] = sent]
      BY <2>2 DEF Crash
    <3>2. up[w] \in Seq(UpMsg)
      BY DEF WorkerTypeOK
    <3>3. Msgs(sent) \subseteq Msgs(up[w]) /\ Len(sent) <= Len(up[w])
      BY <3>2, PrefixMsgs
    <3>4. up'[w] = sent /\ \A v \in Workers \ {w} : up'[v] = up[v]
      BY <3>1 DEF WorkerTypeOK
    <3>5. faults'[w] = faults[w] + 1 /\ \A v \in Workers \ {w} : faults'[v] = faults[v]
      BY <2>2 DEF Crash, Fault, WorkerTypeOK
    <3>6. QED
      BY <3>3, <3>4, <3>5
  <2>3. QED
    BY <2>1, <2>2
<1>4. QED
  BY <1>2, <1>3 DEF Starts, OnlyFor, SameLink, SameWork, SameWires

\* A stop marks the task that is held, once.
LEMMA StopMoves ==
  ASSUME WorkerTypeOK, NEW w \in Workers, Stop(w)
  PROVE  Stops(w) /\ OnlyFor(w)
<1>1. /\ stopping' = [stopping EXCEPT ![w] = TRUE] /\ faults' = [faults EXCEPT ![w] = @ + 1]
      /\ slot' = [slot EXCEPT ![w].abort = IF slot[w] # NoSlot /\ @ = "no" THEN "stopping" ELSE @]
      /\ UNCHANGED <<unconf, queue, sock, reg, up, down>>
  BY DEF Stop, Fault, state, client, wires
<1>2. /\ slot'[w] = [slot[w] EXCEPT !.abort = IF slot[w] # NoSlot /\ slot[w].abort = "no" THEN "stopping" ELSE slot[w].abort]
      /\ \A v \in Workers \ {w} : slot'[v] = slot[v]
  BY <1>1 DEF WorkerTypeOK
<1>3. /\ stopping'[w] /\ faults'[w] = faults[w] + 1
      /\ \A v \in Workers \ {w} : stopping'[v] = stopping[v] /\ faults'[v] = faults[v]
  BY <1>1 DEF WorkerTypeOK
<1>4. QED
  BY <1>1, <1>2, <1>3 DEF Stops, OnlyFor, SameLink, SameWork, SameWires

\* A cut ends the socket on this side and may lose what was under way.
LEMMA CutMoves ==
  ASSUME WorkerTypeOK, NEW w \in Workers, Cut(w)
  PROVE  CutsLink(w) /\ OnlyFor(w)
<1>1. PICK sent \in Prefixes(up[w]) : up' = [up EXCEPT ![w] = sent]
  BY DEF Cut
<1>2. /\ sock[w] = "open" /\ sock' = [sock EXCEPT ![w] = "ending"] /\ faults' = [faults EXCEPT ![w] = @ + 1]
      /\ UNCHANGED <<slot, unconf, queue, reg, stopping, down>>
  BY DEF Cut, Fault, Ending, state
<1>3. up[w] \in Seq(UpMsg)
  BY DEF WorkerTypeOK
<1>4. Msgs(sent) \subseteq Msgs(up[w]) /\ Len(sent) <= Len(up[w])
  BY <1>3, PrefixMsgs
<1>5. /\ up'[w] = sent /\ sock'[w] = "ending" /\ faults'[w] = faults[w] + 1
      /\ \A v \in Workers \ {w} : up'[v] = up[v] /\ sock'[v] = sock[v] /\ faults'[v] = faults[v]
  BY <1>1, <1>2 DEF WorkerTypeOK
<1>6. QED
  BY <1>2, <1>4, <1>5 DEF CutsLink, OnlyFor, SameLink, SameWork, SameWires

\* An outcome is the end of a run,
LEMMA ProducesMoves ==
  ASSUME WorkerTypeOK, NEW w \in Workers, Produces(w)
  PROVE  Ends(w) /\ OnlyFor(w)
BY SettleMoves DEF Produces

\* and whatever else a worker does comes to one of these.
LEMMA WorkerMoves ==
  ASSUME WorkerTypeOK, NEW w \in Workers, Hears(w) \/ Checked(w) \/ GivesUp(w) \/ Befalls(w),
         disk[w] = Memory(w)
  PROVE  /\ OnlyFor(w)
         /\ \/ Registers(w)
            \/ \E t \in Tasks : LosesTask(w, t)
            \/ \E t \in Tasks, n \in Attempts : Considers(w, "assigned", t, n) \/ Considers(w, "resumed", t, n)
            \/ Drops(w) \/ Begins(w) \/ Waits(w) \/ LosesLink(w) \/ Starts(w) \/ Stops(w) \/ CutsLink(w)
<1>1. CASE Hears(w)
  BY <1>1, OnRegisteredMoves, OnAssignedMoves, OnResumedMoves, OnRevokedMoves DEF Hears
<1>2. CASE Checked(w)
  BY <1>2, CheckAbortedMoves, DeclinesMove, AcceptMoves DEF Checked
<1>3. CASE GivesUp(w)
  BY <1>3, DeclinesMove, SettleAbortedMoves DEF GivesUp
<1>4. CASE Befalls(w)
  BY <1>4, WaitsMove, OnCloseMoves, StartsMove, StopMoves, CutMoves DEF Befalls
<1>5. QED
  BY <1>1, <1>2, <1>3, <1>4

=============================================================================
