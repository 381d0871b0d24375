---------------------------- MODULE PresetStore ----------------------------
(***************************************************************************)
(* Presets, their snapshots and the objects both refer to: the requests of *)
(* AlgorithmPresetService and SnapshotService around the preset tables and *)
(* the bucket.  A preset has one file input; a snapshot freezes it.  Every *)
(* await between a request's statements is a step boundary.                *)
(*                                                                         *)
(* A new preset may take the file of another one: the composer's Duplicate *)
(* sends the stored inputs of its source.                                  *)
(***************************************************************************)
EXTENDS FiniteSets

CONSTANTS
    Presets,     \* ids of presets
    SnapIds,     \* ids of snapshots
    Files        \* upload keys that storage hands out

\* There are ids and keys to give.
ASSUME StoreAssumption == Presets # {} /\ Files # {}

VARIABLES
    stored,      \* presets with a row
    fileOf,      \* fileOf[p]: the key in the row of p
    snapshot,    \* snapshot[s]: the row of s
    run,         \* run[s]: the Temporal execution of s
    uploads,     \* the upload objects in the bucket
    outputs,     \* snapshots with objects under snapshots/<s>/
    writer,      \* writer[p]: the create or update request of p
    creator,     \* creator[s]: the create request of s
    remover,     \* remover[p]: the delete request of p
    users,       \* users[f]: the presets that ever took f
    excused      \* snapshots a delete could not know of, or failed to stop or to clean

storeVars == <<stored, fileOf, snapshot, run, uploads, outputs, writer, creator, remover, users, excused>>

IdleWriter(f) == [pc |-> "idle", file |-> f]
IdleCreator(p, f) == [pc |-> "idle", preset |-> p, file |-> f]
IdleRemover == [pc |-> "idle", files |-> {}, listed |-> {}]

\* A row is there, and its workflow may be live (ACTIVE_SNAPSHOT_STATUSES).
HasRow(s) == snapshot[s].status \in {"live", "settled"}
SnapshotsOf(p) == {s \in SnapIds : HasRow(s) /\ snapshot[s].preset = p}

StoreInit ==
    LET p == CHOOSE q \in Presets : TRUE
        f == CHOOSE g \in Files : TRUE
    IN  /\ stored = {} /\ uploads = {} /\ outputs = {} /\ excused = {}
        /\ fileOf = [q \in Presets |-> f] /\ users = [g \in Files |-> {}]
        /\ snapshot = [s \in SnapIds |-> [status |-> "none", preset |-> p, file |-> f]]
        /\ run = [s \in SnapIds |-> "none"]
        /\ writer = [q \in Presets |-> IdleWriter(f)]
        /\ creator = [s \in SnapIds |-> IdleCreator(p, f)]
        /\ remover = [q \in Presets |-> IdleRemover]

\* storage.verify of the file input, by the request's validation.
Verified(f) == f \in uploads

\* presignPut and the PUT: every upload has a key of its own.
Upload(f) ==
    /\ users[f] = {} /\ f \notin uploads
    /\ uploads' = uploads \cup {f}
    /\ UNCHANGED <<stored, fileOf, snapshot, run, outputs, writer, creator, remover, users, excused>>

-----------------------------------------------------------------------------
(* AlgorithmPresetService.create and updateById.                           *)

\* The request is validated.  It carries a file just uploaded, the preset's own or, when
\* it creates a duplicate, that of another preset.
WritePreset(p, f) ==
    /\ writer[p].pc = "idle" /\ Verified(f)
    /\ p \in stored \/ \A g \in Files : p \notin users[g]
    /\ users[f] \subseteq {p} \/ (p \notin stored /\ \E q \in stored : fileOf[q] = f)
    /\ writer' = [writer EXCEPT ![p] = [pc |-> IF p \in stored THEN "update" ELSE "create", file |-> f]]
    /\ users' = [users EXCEPT ![f] = @ \cup {p}]
    /\ UNCHANGED <<stored, fileOf, snapshot, run, uploads, outputs, creator, remover, excused>>

\* repository.create; repository.updateById, which returns null when the row is gone.
SavePreset(p) ==
    LET w == writer[p]
        written == w.pc = "create" \/ (w.pc = "update" /\ p \in stored)
    IN  /\ w.pc # "idle"
        /\ stored' = IF w.pc = "create" THEN stored \cup {p} ELSE stored
        /\ fileOf' = IF written THEN [fileOf EXCEPT ![p] = w.file] ELSE fileOf
        /\ writer' = [writer EXCEPT ![p].pc = "idle"]
        /\ UNCHANGED <<snapshot, run, uploads, outputs, creator, remover, users, excused>>

-----------------------------------------------------------------------------
(* SnapshotService.create, and the run it starts.                          *)

CreateSnapshot(s, p) ==
    /\ creator[s].pc = "idle" /\ snapshot[s].status = "none" /\ p \in stored /\ Verified(fileOf[p])
    /\ creator' = [creator EXCEPT ![s] = [pc |-> "insert", preset |-> p, file |-> fileOf[p]]]
    /\ UNCHANGED <<stored, fileOf, snapshot, run, uploads, outputs, writer, remover, users, excused>>

\* Mutant: no foreign key.
PresetRowOkAlways(p) == TRUE

\* snapshots_algorithm_preset_id_fkey, for the row that refers to p.
PresetRowOk(p) == p \in stored

\* The preset's listing has already been read by a delete.
ListedAlready(p) == remover[p].pc \notin {"idle", "found"}

\* The insert freezes the inputs read before.
InsertSnapshot(s) ==
    LET c == creator[s]
        new == [status |-> "live", preset |-> c.preset, file |-> c.file]
    IN  /\ c.pc = "insert"
        /\ IF PresetRowOk(c.preset)
             THEN /\ snapshot' = [snapshot EXCEPT ![s] = new]
                  /\ creator' = [creator EXCEPT ![s].pc = "start"]
                  /\ excused' = IF ListedAlready(c.preset) THEN excused \cup {s} ELSE excused
             ELSE /\ creator' = [creator EXCEPT ![s].pc = "idle"]
                  /\ UNCHANGED <<snapshot, excused>>
        /\ UNCHANGED <<stored, fileOf, run, uploads, outputs, writer, remover, users>>

StartRun(s) ==
    /\ creator[s].pc = "start"
    /\ run' = [run EXCEPT ![s] = "started"]
    /\ creator' = [creator EXCEPT ![s].pc = "idle"]
    /\ excused' = IF ListedAlready(creator[s].preset) THEN excused \cup {s} ELSE excused
    /\ UNCHANGED <<stored, fileOf, snapshot, uploads, outputs, writer, remover, users>>

\* getSnapshot: a run whose row is gone fails.
ReadSnapshot(s) ==
    /\ run[s] = "started"
    /\ run' = [run EXCEPT ![s] = IF HasRow(s) THEN "working" ELSE "closed"]
    /\ UNCHANGED <<stored, fileOf, snapshot, uploads, outputs, writer, creator, remover, users, excused>>

\* The algorithm's activity reads the frozen file and stores the result; an attempt may
\* outlive its run.
StoreOutputs(s) ==
    /\ run[s] \in {"working", "outlived"} /\ s \notin outputs
    /\ outputs' = outputs \cup {s}
    /\ run' = [run EXCEPT ![s] = IF @ = "outlived" THEN "closed" ELSE @]
    /\ excused' = IF run[s] = "outlived" THEN excused \cup {s} ELSE excused
    /\ UNCHANGED <<stored, fileOf, snapshot, uploads, writer, creator, remover, users>>

SettleRun(s) ==
    /\ run[s] = "working"
    /\ run' = [run EXCEPT ![s] = "closed"]
    /\ snapshot' = IF HasRow(s) THEN [snapshot EXCEPT ![s].status = "settled"] ELSE snapshot
    /\ UNCHANGED <<stored, fileOf, uploads, outputs, writer, creator, remover, users, excused>>

-----------------------------------------------------------------------------
(* AlgorithmPresetService.deleteById.                                      *)

Removing(p, from, to) == remover[p].pc = from /\ remover' = [remover EXCEPT ![p] = to]

FindPreset(p) ==
    /\ p \in stored
    /\ Removing(p, "idle", [IdleRemover EXCEPT !.pc = "found", !.files = {fileOf[p]}])
    /\ UNCHANGED <<stored, fileOf, snapshot, run, uploads, outputs, writer, creator, users, excused>>

\* Mutant: only the active rows are listed.
ListSnapshotsActive(p) ==
    LET active == {s \in SnapshotsOf(p) : snapshot[s].status = "live"}
    IN  /\ Removing(p, "found", [pc |-> "listed", listed |-> active,
                                 files |-> remover[p].files \cup {snapshot[s].file : s \in active}])
        /\ UNCHANGED <<stored, fileOf, snapshot, run, uploads, outputs, writer, creator, users, excused>>

\* snapshotRepository.find: the rows, with what they froze.
ListSnapshots(p) ==
    /\ Removing(p, "found", [pc |-> "listed", listed |-> SnapshotsOf(p),
                             files |-> remover[p].files \cup {snapshot[s].file : s \in SnapshotsOf(p)}])
    /\ UNCHANGED <<stored, fileOf, snapshot, run, uploads, outputs, writer, creator, users, excused>>

\* Mutant: a terminated execution is forgotten.
TerminatedAway(ended) == [s \in SnapIds |-> IF s \in ended THEN "" ELSE run[s]]

\* The executions after terminate(): an activity attempt that runs goes on.
Terminated(ended) ==
    [s \in SnapIds |-> IF s \notin ended THEN run[s]
                       ELSE CASE run[s] = "working" -> "outlived"
                              [] run[s] = "started" -> "closed"
                              [] OTHER -> run[s]]

\* terminateSnapshotWorkflows: of the active rows, errors logged.
TerminateRuns(p) ==
    LET active == {s \in remover[p].listed : run[s] \in {"started", "working"}}
    IN  \E ended \in SUBSET active :
          /\ Removing(p, "listed", [remover[p] EXCEPT !.pc = "terminated"])
          /\ run' = Terminated(ended)
          /\ excused' = excused \cup (active \ ended)
          /\ UNCHANGED <<stored, fileOf, snapshot, uploads, outputs, writer, creator, users>>

\* deleteMany runs when the list was not empty, and then for every row of the preset.
DeletedWith(p) == IF remover[p].listed = {} THEN {} ELSE SnapshotsOf(p)

\* The transaction: the preset's delete fails, and with it the request, while a snapshot
\* refers to it (ON DELETE RESTRICT).
DeleteRows(p) ==
    /\ IF SnapshotsOf(p) = DeletedWith(p)
         THEN /\ Removing(p, "terminated", [remover[p] EXCEPT !.pc = "cleaning"])
              /\ snapshot' = [s \in SnapIds |-> IF s \in DeletedWith(p) THEN [snapshot[s] EXCEPT !.status = "deleted"] ELSE snapshot[s]]
              /\ stored' = stored \ {p}
         ELSE Removing(p, "terminated", IdleRemover) /\ UNCHANGED <<snapshot, stored>>
    /\ UNCHANGED <<fileOf, run, uploads, outputs, writer, creator, users, excused>>

\* deleteS3Objects: what it cannot list or delete stays, and is logged.
CleanObjects(p) ==
    LET r == remover[p]
    IN  \E files \in SUBSET r.files, cleaned \in SUBSET r.listed :
          /\ Removing(p, "cleaning", IdleRemover)
          /\ uploads' = uploads \ files
          /\ outputs' = outputs \ cleaned
          /\ excused' = excused \cup (r.listed \ cleaned)
          /\ UNCHANGED <<stored, fileOf, snapshot, run, writer, creator, users>>

\* SnapshotService.deleteById: the workflow, the row, the objects under its prefix.
DeleteSnapshot(s) ==
    /\ HasRow(s)
    /\ snapshot' = [snapshot EXCEPT ![s].status = "deleted"]
    /\ run' = Terminated({s})
    /\ outputs' = outputs \ {s}
    /\ UNCHANGED <<stored, fileOf, uploads, writer, creator, remover, users, excused>>

StoreNext ==
    \/ \E f \in Files : Upload(f)
    \/ \E p \in Presets :
         \/ \E f \in Files : WritePreset(p, f)
         \/ SavePreset(p)
         \/ FindPreset(p) \/ ListSnapshots(p) \/ TerminateRuns(p) \/ DeleteRows(p) \/ CleanObjects(p)
    \/ \E s \in SnapIds :
         \/ \E p \in Presets : CreateSnapshot(s, p)
         \/ InsertSnapshot(s) \/ StartRun(s) \/ ReadSnapshot(s) \/ StoreOutputs(s) \/ SettleRun(s) \/ DeleteSnapshot(s)

StoreSpec == StoreInit /\ [][StoreNext]_storeVars

-----------------------------------------------------------------------------
StoreTypeOK ==
    /\ stored \subseteq Presets /\ fileOf \in [Presets -> Files]
    /\ snapshot \in [SnapIds -> [status : {"none", "live", "settled", "deleted"}, preset : Presets, file : Files]]
    /\ run \in [SnapIds -> {"none", "started", "working", "outlived", "closed"}]
    /\ uploads \subseteq Files /\ outputs \subseteq SnapIds /\ excused \subseteq SnapIds
    /\ users \in [Files -> SUBSET Presets]
    /\ \A p \in Presets : remover[p].files \subseteq Files /\ remover[p].listed \subseteq SnapIds

\* The uploads that rows refer to.
Referenced == {fileOf[p] : p \in stored} \cup {snapshot[s].file : s \in {r \in SnapIds : HasRow(r)}}

\* No delete takes an upload away from a preset, or from a snapshot that froze it,
\* however creates, updates and deletes of the preset overlap, as long as no other preset
\* has taken the same file.  The deletes read the rows, remove them in a transaction that
\* the foreign key can refuse, and only then touch the bucket.
OwnUploadsStay == \A f \in Referenced : Cardinality(users[f]) = 1 => f \in uploads

\* "Frozen `uploads/` inputs stay: the live preset and sibling snapshots still reference
\* them, so only preset deletion may remove upload objects" (snapshot.service.ts): an
\* upload that a stored preset or snapshot refers to is in the bucket.
LiveUploadsStay == Referenced \subseteq uploads

\* The objects of a snapshot go with its row, unless the delete could not know of it (it
\* was inserted or started after the list was read), a run or an attempt outlived the
\* termination, or the bucket refused.
LeftoversExplained ==
    \A s \in outputs : HasRow(s) \/ s \in excused \/ \E p \in Presets : remover[p].pc = "cleaning" /\ s \in remover[p].listed

\* What the store keeps while requests overlap: rows keep their uploads, and an object that
\* outlives its row has a reason to.
StoreInv == StoreTypeOK /\ OwnUploadsStay /\ LeftoversExplained
=============================================================================
