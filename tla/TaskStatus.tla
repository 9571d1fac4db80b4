----------------------------- MODULE TaskStatus -----------------------------
(***************************************************************************)
(* The statuses of a conductor task (ACTIVE_STATUSES and LOCKING_STATUSES  *)
(* in rows.ts, TERMINAL_STATUSES in lifecycle.ts).                         *)
(***************************************************************************)

Active   == {"assigned", "accepted", "in_progress"}
Locking  == Active \cup {"review"}
Terminal == {"completed", "cancelled"}
Waiting  == {"blocked", "pending"}

\* "absent": the row has not been inserted yet.
Status   == Locking \cup Terminal \cup Waiting \cup {"absent"}

=============================================================================
