----------------------- MODULE SnapshotStatusMachine -----------------------
(***************************************************************************)
(* What the snapshot store promises its readers (the API's clients, the    *)
(* event stream, the UI): every snapshot id carries one status, and the    *)
(* status moves                                                            *)
(*                                                                         *)
(*    absent -> queued -> running -> completed | failed | cancelled        *)
(*                                                                         *)
(* with `queued' allowed to fail or to be cancelled directly, with a       *)
(* terminal status never replaced by another one, and with a row that may  *)
(* be deleted at any time and never comes back.  The module says nothing   *)
(* about who moves the status; SnapshotLifecycle is shown to implement it. *)
(***************************************************************************)
CONSTANT Snapshots      \* the snapshot ids

VARIABLE status         \* status[s]: the status of s, "absent" or "deleted"

Terminal == {"completed", "failed", "cancelled"}
Live     == {"queued", "running"}
Status   == {"absent", "deleted"} \cup Live \cup Terminal

Init == status = [s \in Snapshots |-> "absent"]

\* A snapshot is created in status `queued'.
Create(s) ==
  /\ status[s] = "absent"
  /\ status' = [status EXCEPT ![s] = "queued"]

\* A workflow run took the snapshot up.
Begin(s) ==
  /\ status[s] = "queued"
  /\ status' = [status EXCEPT ![s] = "running"]

\* The snapshot reaches its final status; only a running one completes.
Settle(s) ==
  /\ status[s] \in Live
  /\ \E t \in Terminal :
       /\ status[s] = "queued" => t # "completed"
       /\ status' = [status EXCEPT ![s] = t]

Delete(s) ==
  /\ status[s] \in Live \cup Terminal
  /\ status' = [status EXCEPT ![s] = "deleted"]

Next == \E s \in Snapshots : Create(s) \/ Begin(s) \/ Settle(s) \/ Delete(s)

Spec == Init /\ [][Next]_status
=============================================================================
