------------------------------ MODULE WebPages ------------------------------
(***************************************************************************)
(* Open pages of the web application whose answers come late, as three     *)
(* state machines that share nothing: files uploaded while the preset      *)
(* composer is edited, the cached queries after the user's own changes,    *)
(* and the dialogs that confirm and connect.                               *)
(***************************************************************************)
EXTENDS Integers, Sequences, FiniteSets, SequencesExt

-----------------------------------------------------------------------------
(***************************************************************************)
(* The preset composer while files are uploaded: rows of a composition     *)
(* (core/fields/sub-algorithm-composer-field.tsx), each with a file input  *)
(* (csv-field.tsx, json-field.tsx), and the register of busy fields that   *)
(* disables the submit button (core/form-context.tsx).                     *)
(*                                                                         *)
(* A field's name is its row's position, and its React key is its name: a  *)
(* field whose row moves, or is collapsed, is unmounted, while its upload  *)
(* goes on.                                                                *)
(***************************************************************************)
CONSTANTS
    MaxRows,      \* bound: rows at a time (maxItems of the input)
    MaxAdded,     \* bound: rows ever added
    MaxDrops      \* bound: files dropped

ASSUME FormAssumption == MaxRows \in Nat /\ MaxAdded \in Nat /\ MaxDrops \in Nat

VARIABLES
    formRows,     \* the rows: their id and the value of their file input
    fieldOf,      \* the mounted field of each row: its instance, or Unmounted
    calls,        \* the calls of handleFileChange that have not returned
    uploading,    \* uploadingFields of the form's upload context
    added, drops, mounts,
    submitted     \* what was last submitted

formVars == <<formRows, fieldOf, calls, uploading, added, drops, mounts, submitted>>

Unmounted == [inst |-> 0, validating |-> FALSE, busy |-> FALSE]
Mounted(n) == [Unmounted EXCEPT !.inst = n]
Nothing == [is |-> "empty"]
FileOf(row, file) == [is |-> "file", row |-> row, file |-> file]
KeyOf(row, file) == [is |-> "key", row |-> row, file |-> file]

FormInit ==
    /\ formRows = <<>> /\ fieldOf = <<>> /\ calls = {} /\ uploading = {}
    /\ added = 0 /\ drops = 0 /\ mounts = 0 /\ submitted = <<>>

\* handleAdd: the new row is expanded.
AddRow ==
    /\ Len(formRows) < MaxRows /\ added < MaxAdded
    /\ added' = added + 1 /\ mounts' = mounts + 1
    /\ formRows' = Append(formRows, [id |-> added', value |-> Nothing])
    /\ fieldOf' = Append(fieldOf, Mounted(mounts'))
    /\ UNCHANGED <<calls, uploading, drops, submitted>>

\* Mutant: an unmounted field stays registered.
CleanupNone(names, gone) == names

\* The cleanup of the field's effect.
Cleanup(names, gone) == names \ gone

\* remove(index): the rows after it take new names.
RemoveRow(i) ==
    LET later == i + 1 .. Len(fieldOf)
    IN  /\ i \in DOMAIN formRows
        /\ formRows' = RemoveAt(formRows, i)
        /\ fieldOf' = RemoveAt([j \in DOMAIN fieldOf |->
               IF j \in later /\ fieldOf[j].inst # 0 THEN Mounted(mounts + j - i) ELSE fieldOf[j]], i)
        /\ mounts' = mounts + Cardinality(later)
        /\ uploading' = Cleanup(uploading, i..Len(fieldOf))
        /\ UNCHANGED <<calls, added, drops, submitted>>

\* toggleCollapsed: the content of a collapsed card is unmounted.
ToggleCollapsed(i) ==
    /\ i \in DOMAIN formRows /\ mounts < MaxAdded + MaxDrops
    /\ mounts' = mounts + 1
    /\ fieldOf' = [fieldOf EXCEPT ![i] = IF @.inst = 0 THEN Mounted(mounts') ELSE Unmounted]
    /\ uploading' = Cleanup(uploading, {i})
    /\ UNCHANGED <<formRows, calls, added, drops, submitted>>

\* setFieldUploading, by the field's effect.
Registered(names, i, field) == IF field.validating \/ field.busy THEN names \cup {i} ELSE names \ {i}

\* handleFileChange up to its first await.  The field stays open to drops while it is
\* busy.
DropFile(i) ==
    LET field == [fieldOf[i] EXCEPT !.busy = FALSE, !.validating = TRUE]
    IN  /\ i \in DOMAIN formRows /\ drops < MaxDrops /\ fieldOf[i].inst # 0
        /\ drops' = drops + 1
        /\ formRows' = [formRows EXCEPT ![i].value = FileOf(formRows[i].id, drops')]
        /\ fieldOf' = [fieldOf EXCEPT ![i] = field]
        /\ calls' = calls \cup {[inst |-> field.inst, name |-> i, value |-> formRows'[i].value, at |-> "validating"]}
        /\ uploading' = Registered(uploading, i, field)
        /\ UNCHANGED <<added, mounts, submitted>>

\* A drop without an acceptable file.
DropRefused(i) ==
    LET field == [fieldOf[i] EXCEPT !.busy = FALSE]
    IN  /\ i \in DOMAIN formRows /\ drops < MaxDrops /\ fieldOf[i].inst # 0
        /\ drops' = drops + 1
        /\ formRows' = [formRows EXCEPT ![i].value = Nothing]
        /\ fieldOf' = [fieldOf EXCEPT ![i] = field]
        /\ uploading' = Registered(uploading, i, field)
        /\ UNCHANGED <<calls, added, mounts, submitted>>

\* Mutant: a call does not ask whether its field is still there.
IsMountedAlways(c) == c.name \in DOMAIN formRows

\* isMountedRef.current.
IsMounted(c) == \E i \in DOMAIN fieldOf : fieldOf[i].inst = c.inst

\* onChange writes under the name the field had when the file was dropped.
WriteValue(c, value) == formRows' = [formRows EXCEPT ![c.name].value = value]

\* setIsValidating and setIsUploading of the field's own instance.
SetFlags(c, validating, busy) ==
    LET own == {i \in DOMAIN fieldOf : fieldOf[i].inst = c.inst}
        field == [inst |-> c.inst, validating |-> validating, busy |-> busy]
    IN  /\ fieldOf' = [i \in DOMAIN fieldOf |-> IF i \in own THEN field ELSE fieldOf[i]]
        /\ uploading' = IF own = {} THEN uploading ELSE Registered(uploading, c.name, field)

\* The call returns: both flags of the field are cleared.
CallReturns(c) == calls' = calls \ {c} /\ SetFlags(c, FALSE, FALSE)

\* validateCSVContent answers.
FileValidated(c) ==
    /\ c.at = "validating" /\ IsMounted(c)
    /\ \/ /\ calls' = (calls \ {c}) \cup {[c EXCEPT !.at = "uploading"]}
          /\ SetFlags(c, TRUE, TRUE)
          /\ UNCHANGED formRows
       \/ WriteValue(c, Nothing) /\ CallReturns(c)
    /\ UNCHANGED <<added, drops, mounts, submitted>>

\* createUpload and the PUT to the signed URL answer.
FileUploaded(c) ==
    /\ c.at = "uploading" /\ IsMounted(c)
    /\ \/ WriteValue(c, KeyOf(c.value.row, c.value.file))
       \/ WriteValue(c, Nothing)
    /\ CallReturns(c)
    /\ UNCHANGED <<added, drops, mounts, submitted>>

\* The answer finds its field gone.
FieldGone(c) ==
    /\ ~IsMounted(c)
    /\ calls' = calls \ {c}
    /\ UNCHANGED <<formRows, fieldOf, uploading, added, drops, mounts, submitted>>

\* Mutant: a chosen file counts.
RowReadyByFile(row) == row.value.is # "empty"

\* isSubAlgorithmEntryReady, of the row's file input.
RowReady(row) == row.value.is = "key"

\* The submit button is enabled and pressed.
SubmitForm ==
    /\ uploading = {} /\ formRows # <<>> /\ \A i \in DOMAIN formRows : RowReady(formRows[i])
    /\ submitted' = formRows
    /\ UNCHANGED <<formRows, fieldOf, calls, uploading, added, drops, mounts>>

FormNext ==
    \/ AddRow \/ SubmitForm
    \/ \E i \in 1..MaxRows : RemoveRow(i) \/ ToggleCollapsed(i) \/ DropFile(i) \/ DropRefused(i)
    \/ \E c \in calls : FileValidated(c) \/ FileUploaded(c) \/ FieldGone(c)

FormSpec == FormInit /\ [][FormNext]_formVars

-----------------------------------------------------------------------------
FormTypeOK ==
    /\ Len(fieldOf) = Len(formRows) /\ uploading \subseteq 1..MaxRows
    /\ \A i \in DOMAIN formRows : formRows[i].value.is \in {"empty", "file", "key"}
    /\ \A c \in calls : c.at \in {"validating", "uploading"}

\* A row never gets the key of a file that was dropped on another row, however rows are
\* removed, moved and collapsed while uploads run (the isMountedRef checks; "a late
\* write from an unmounted field would land on whichever row took its place").
KeyOfOwnFile == \A i \in DOMAIN formRows : formRows[i].value.is = "key" => formRows[i].value.row = formRows[i].id

\* The submit button is not disabled for ever by an upload: a registered name is that of
\* a mounted field one of whose calls will still return ("a field left registered as
\* uploading would disable submit forever").
SubmitNotBlocked ==
    \A i \in uploading : i \in DOMAIN fieldOf /\ \E c \in calls : c.inst = fieldOf[i].inst

\* What is submitted holds, for every row, the key of a file of that row that was
\* uploaded, and no file that the payload would turn into an empty string.
SubmittedIsUploaded ==
    \A i \in DOMAIN submitted : submitted[i].value.is = "key" /\ submitted[i].value.row = submitted[i].id

-----------------------------------------------------------------------------
(***************************************************************************)
(* What an open page shows after the user's own changes: the queries and   *)
(* mutations of apps/ui/src/lib/api/hooks.ts over the cache that           *)
(* components/providers.tsx configures.  Queries do not touch each other,  *)
(* so each behaviour follows one of them, `watched`.                       *)
(*                                                                         *)
(* A copy is "old" when it lacks a change this tab has made, else "fresh". *)
(* The cache is TanStack Query's; its rules are external: an invalidation  *)
(* marks an entry, and restarts the fetch of one that is on screen unless  *)
(* that fetch is its first; any answer unmarks it.                         *)
(***************************************************************************)
CONSTANTS MaxMutations   \* bound on the changes one tab makes

ASSUME MutationsAssumption == MaxMutations \in Nat \ {0}

VARIABLES
    watched,    \* the query followed
    copy,       \* its cached data: "none", "old" or "fresh"
    invalid,    \* isInvalidated
    onScreen,   \* a component uses the query
    fetching,   \* "idle", "asked", or the answer on its way: "old" or "fresh"
    change,     \* the mutation that is out, "none" if there is none
    stage,      \* how far it is: "none", "sent" or "applied"
    ownChanges, \* mutations so far
    excused     \* the cache could not know that its copy is old

cacheVars == <<watched, copy, invalid, onScreen, fetching, change, stage, ownChanges, excused>>

\* queryKeys.
QueryKey == [presets     |-> <<"algorithmPresets", "list", "params">>,
             preset      |-> <<"algorithmPresets", "detail", "id">>,
             snapshots   |-> <<"snapshots", "list", "params">>,
             admins      |-> <<"admins", "list", "params">>,
             connections |-> <<"communityConnections", "list">>,
             resources   |-> <<"communityConnections", "resources", "id">>]

Lists(scope) == <<scope, "list">>

\* Mutant: only the lists are refreshed after an update.
PresetInvalidationsLists(m) == {Lists("algorithmPresets")}

\* The keys each mutation invalidates, by the hook.
PresetInvalidations(m) ==
    {Lists("algorithmPresets")}
      \cup (IF m = "updatePreset" THEN {QueryKey.preset} ELSE {})
      \cup (IF m = "deletePreset" THEN {Lists("snapshots")} ELSE {})
SnapshotInvalidations == {Lists("snapshots")}
InvalidateAdminLists == {Lists("admins")}
InvalidateCommunityConnections == {<<"communityConnections">>}

PresetMutations == {"createPreset", "updatePreset", "deletePreset"}
SnapshotMutations == {"createSnapshot", "deleteSnapshot"}
AdminMutations == {"addAdmin", "updateAdminRole", "restoreAdmin", "removeAdmin"}
CommunityMutations == {"recheck", "connectMattermost", "disconnect"}
Mutations == PresetMutations \cup SnapshotMutations \cup AdminMutations \cup CommunityMutations

Invalidations(m) ==
    CASE m \in PresetMutations   -> PresetInvalidations(m)
      [] m \in SnapshotMutations -> SnapshotInvalidations
      [] m \in AdminMutations    -> InvalidateAdminLists
      [] OTHER                   -> InvalidateCommunityConnections

\* Only a connect refreshes when it fails: the API saves a broken connection.
RefreshesOnFailure(m) == m = "connectMattermost"

\* What the API's handlers change.  A deleted row's own page is not followed: it has none.
Affects(m) ==
    CASE m = "createPreset"        -> {"presets"}
      [] m = "updatePreset"        -> {"presets", "preset"}
      [] m = "deletePreset"        -> {"presets", "snapshots"}
      [] m \in SnapshotMutations   -> {"snapshots"}
      [] m \in AdminMutations      -> {"admins"}
      [] OTHER                     -> {"connections", "resources"}

-----------------------------------------------------------------------------

CacheInit ==
    /\ watched \in DOMAIN QueryKey
    /\ copy = "none" /\ invalid = FALSE /\ onScreen = FALSE /\ fetching = "idle"
    /\ change = "none" /\ stage = "none" /\ ownChanges = 0 /\ excused = FALSE

StartFetch == fetching' = IF fetching = "idle" THEN "asked" ELSE fetching

\* A page that uses the query opens.  A copy younger than staleTime is shown as it is.
UseQuery ==
    /\ ~onScreen /\ onScreen' = TRUE
    /\ \/ StartFetch
       \/ copy # "none" /\ ~invalid /\ UNCHANGED fetching
    /\ UNCHANGED <<watched, copy, invalid, change, stage, ownChanges, excused>>

LeavePage ==
    /\ onScreen /\ onScreen' = FALSE
    /\ UNCHANGED <<watched, copy, invalid, fetching, change, stage, ownChanges, excused>>

\* The user returns to the tab: the community queries are always fetched again, the others
\* once they are older than staleTime.
FocusWindow ==
    /\ onScreen /\ StartFetch
    /\ UNCHANGED <<watched, copy, invalid, onScreen, change, stage, ownChanges, excused>>

\* The cache drops an entry nobody has used for a while.
Collect ==
    /\ ~onScreen /\ fetching = "idle" /\ copy # "none"
    /\ copy' = "none" /\ invalid' = FALSE /\ excused' = FALSE
    /\ UNCHANGED <<watched, onScreen, fetching, change, stage, ownChanges>>

\* The API reads the row or the list.
QueryRead ==
    /\ fetching = "asked" /\ fetching' = "fresh"
    /\ UNCHANGED <<watched, copy, invalid, onScreen, change, stage, ownChanges, excused>>

QueryAnswered ==
    /\ fetching \in {"old", "fresh"}
    /\ copy' = fetching /\ invalid' = FALSE /\ fetching' = "idle"
    /\ excused' = (excused /\ fetching = "old")
    /\ UNCHANGED <<watched, onScreen, change, stage, ownChanges>>

\* The request fails, and so does its retry.
QueryFails ==
    /\ fetching # "idle" /\ fetching' = "idle"
    /\ UNCHANGED <<watched, copy, invalid, onScreen, change, stage, ownChanges, excused>>

-----------------------------------------------------------------------------

Mutate(m) ==
    /\ change = "none" /\ ownChanges < MaxMutations
    /\ change' = m /\ stage' = "sent" /\ ownChanges' = ownChanges + 1
    /\ UNCHANGED <<watched, copy, invalid, onScreen, fetching, excused>>

Aged(data) == IF data = "fresh" THEN "old" ELSE data

\* The API applies the change.
MutationApplied ==
    /\ stage = "sent" /\ stage' = "applied"
    /\ IF watched \in Affects(change)
       THEN copy' = Aged(copy) /\ fetching' = Aged(fetching)
       ELSE UNCHANGED <<copy, fetching>>
    /\ UNCHANGED <<watched, invalid, onScreen, change, ownChanges, excused>>

\* invalidateQueries with each key.  What the cache keeps from being corrected here: a fetch
\* it does not restart, whose answer was read before the change.
InvalidateQueries ==
    LET hit == \E key \in Invalidations(change) : IsPrefix(key, QueryKey[watched])
        known == copy # "none" \/ fetching # "idle" \/ onScreen
        restarts == onScreen /\ (copy # "none" \/ fetching = "idle")
    IN  IF hit /\ known
        THEN /\ invalid' = TRUE
             /\ fetching' = IF restarts THEN "asked" ELSE fetching
             /\ excused' = (excused \/ (~restarts /\ fetching = "old"))
        ELSE UNCHANGED <<invalid, fetching, excused>>

\* onSuccess (onSettled) of the hook.
MutationSucceeds ==
    /\ stage = "applied" /\ change' = "none" /\ stage' = "none"
    /\ InvalidateQueries
    /\ UNCHANGED <<watched, copy, onScreen, ownChanges>>

\* The API refuses, or its answer to what it did is an error or is lost.
MutationFails ==
    /\ stage \in {"sent", "applied"} /\ change' = "none" /\ stage' = "none"
    /\ IF RefreshesOnFailure(change) THEN InvalidateQueries
       ELSE excused' = (excused \/ stage = "applied") /\ UNCHANGED <<invalid, fetching>>
    /\ UNCHANGED <<watched, copy, onScreen, ownChanges>>

CacheNext ==
    \/ UseQuery \/ LeavePage \/ FocusWindow \/ Collect \/ QueryRead \/ QueryAnswered \/ QueryFails
    \/ MutationApplied \/ MutationSucceeds \/ MutationFails
    \/ \E m \in Mutations : Mutate(m)

CacheSpec == CacheInit /\ [][CacheNext]_cacheVars

-----------------------------------------------------------------------------

\* The types of the cache's variables.
CacheTypeOK ==
    /\ watched \in DOMAIN QueryKey /\ copy \in {"none", "old", "fresh"} /\ fetching \in {"idle", "asked", "old", "fresh"}
    /\ change \in Mutations \cup {"none"} /\ stage \in {"none", "sent", "applied"}
    /\ (change = "none") = (stage = "none")

\* Once a change has settled, no page presents a copy that lacks it as current: such a copy
\* is marked, so that the next page that needs it fetches it, and while it is on screen its
\* fetch is out, has failed, or cannot be blamed on the hooks: an answer was lost, or
\* overtaken by the change (the invalidations of hooks.ts, by prefix of queryKeys).
OwnChangesShow == (change = "none" /\ copy = "old" /\ ~excused) => invalid

-----------------------------------------------------------------------------
(***************************************************************************)
(* The confirmations of the web application's lists: deleting and running  *)
(* a preset (components/app/presets/algorithm-presets.tsx), deleting a     *)
(* snapshot (components/app/snapshots/algorithm-snapshots.tsx), an admin's *)
(* row (components/admins/admin-row-actions.tsx) and a connection's        *)
(* (components/community/connection-row.tsx).                              *)
(*                                                                         *)
(* A dialog is modal: while it is open no row can be reached.  A request   *)
(* may be answered at any time, and after its dialog was dismissed.        *)
(***************************************************************************)
CONSTANTS ListRows,       \* the rows of the list
          NoRow,          \* null
          MaxOpenings     \* bound on the dialogs opened

ASSUME OpeningsAssumption == MaxOpenings \in Nat \ {0}

VARIABLES
    confirmKind,   \* which of the confirmations
    target,        \* the row the open dialog is about: presetToDelete, presetToRun, confirm
    busy,          \* the row shown as busy: deletingPresetId, runningPresetId, isPending of a row's hook
    out,           \* requests out, by row
    openings,      \* dialogs opened so far
    answered       \* what the open dialog asks has been done since it was opened

dialogVars == <<confirmKind, target, busy, out, openings, answered>>

Out == {row \in ListRows : out[row] > 0}

Confirmations == {"deletePreset", "runPreset", "deleteSnapshot", "admin", "disconnect"}

\* One component holds the dialog of all rows, with one mutation; the others are per row.
OneForAllRows == confirmKind \in {"deletePreset", "runPreset", "deleteSnapshot"}
\* isPending, as the open dialog's buttons see it.
Pending(row) == IF OneForAllRows THEN Out # {} ELSE row \in Out

DialogInit ==
    /\ confirmKind \in Confirmations
    /\ target = NoRow /\ busy = {} /\ out = [row \in ListRows |-> 0] /\ openings = 0 /\ answered = FALSE

\* The menu of a row, or its Run button, unless the row is busy.
OpenDialog(row) ==
    /\ target = NoRow /\ row \notin busy /\ openings < MaxOpenings
    /\ target' = row /\ openings' = openings + 1 /\ answered' = FALSE
    /\ UNCHANGED <<confirmKind, busy, out>>

\* Cancel is disabled while a request is out; Escape, the overlay and the corner button are
\* not, except that the run dialog's onClose looks at runningPresetId.
Dismiss ==
    /\ target # NoRow
    /\ confirmKind = "runPreset" => busy = {}
    /\ target' = NoRow
    /\ UNCHANGED <<confirmKind, busy, out, openings, answered>>

\* Mutant: a request for another row does not disable the button of the dialog.
ConfirmPerRow ==
    /\ target # NoRow /\ target \notin Out
    /\ out' = [out EXCEPT ![target] = @ + 1]
    /\ busy' = IF OneForAllRows THEN {target} ELSE busy \cup {target}
    /\ target' = IF confirmKind = "disconnect" THEN NoRow ELSE target
    /\ UNCHANGED <<confirmKind, openings, answered>>

\* confirmDeletePreset, confirmRunPreset, confirmDeleteSnapshot, handleConfirm and
\* handleDisconnect, up to the request.  The action of an AlertDialog closes it, unless its
\* click is prevented, as that of an admin's row is.
Confirm ==
    /\ target # NoRow /\ ~Pending(target)
    /\ out' = [out EXCEPT ![target] = @ + 1]
    /\ busy' = IF OneForAllRows THEN {target} ELSE busy \cup {target}
    /\ target' = IF confirmKind = "disconnect" THEN NoRow ELSE target
    /\ UNCHANGED <<confirmKind, openings, answered>>

\* Mutant: a dialog of a list stays open after its question was answered.
RequestSettlesOpen(row, ok) ==
    /\ row \in Out /\ out' = [out EXCEPT ![row] = @ - 1]
    /\ busy' = IF OneForAllRows THEN {} ELSE busy \ {row}
    /\ target' = IF ~OneForAllRows /\ target = row THEN NoRow ELSE target
    /\ answered' = (answered \/ (ok /\ target = row))
    /\ UNCHANGED <<confirmKind, openings>>

\* The rest of them.  The dialog of a list is closed whatever it is about by now; the row's
\* own is closed by its own request only, and whether or not that succeeded.
RequestSettles(row, ok) ==
    /\ row \in Out /\ out' = [out EXCEPT ![row] = @ - 1]
    /\ busy' = IF OneForAllRows THEN {} ELSE busy \ {row}
    /\ target' = IF OneForAllRows THEN (IF ok THEN NoRow ELSE target)
                 ELSE (IF target = row THEN NoRow ELSE target)
    /\ answered' = (answered \/ (ok /\ target = row))
    /\ UNCHANGED <<confirmKind, openings>>

\* runMutation("restore"): a removed admin is restored from the menu, without a dialog.
RestoreAtOnce(row) ==
    /\ confirmKind = "admin" /\ target = NoRow /\ row \notin busy /\ openings < MaxOpenings
    /\ out' = [out EXCEPT ![row] = @ + 1] /\ busy' = busy \cup {row} /\ openings' = openings + 1
    /\ UNCHANGED <<confirmKind, target, answered>>

DialogNext ==
    \/ Dismiss \/ Confirm
    \/ \E row \in ListRows : OpenDialog(row) \/ RestoreAtOnce(row) \/ RequestSettles(row, TRUE) \/ RequestSettles(row, FALSE)

DialogSpec == DialogInit /\ [][DialogNext]_dialogVars

-----------------------------------------------------------------------------

\* The types of the dialogs' variables.
DialogTypeOK ==
    /\ confirmKind \in Confirmations /\ target \in ListRows \cup {NoRow}
    /\ busy \subseteq ListRows /\ out \in [ListRows -> Nat] /\ openings \in 0..MaxOpenings /\ answered \in BOOLEAN

\* A row is shown as busy exactly while its own request is out, though dialogs are dismissed,
\* opened for other rows, and closed by the answers to earlier ones (deletingPresetId and
\* runningPresetId are single fields that any answer clears).
BusyRowsAreOut == busy = Out

\* A dialog asks once: no second request for a row while the first is out, and no dialog that
\* still offers what it has already done, which would start a second snapshot (the disabled
\* buttons, the closing on success).
AskedOnce == (\A row \in ListRows : out[row] <= 1) /\ (target # NoRow => ~answered)

-----------------------------------------------------------------------------
(* Connecting a Mattermost team (components/community/                     *)
(* connect-mattermost-dialog.tsx): the server and the bot token are        *)
(* checked, the teams of that bot are offered and one of them is           *)
(* connected.  The component stays mounted, so that the answer to a check  *)
(* or a connect may meet a dialog closed and opened again for another      *)
(* server.                                                                 *)

CONSTANTS Servers, Tokens,
          Blank,            \* an empty field
          TeamsOf,          \* the teams of each server and token, [Servers \X Tokens -> SUBSET ids]
          MaxDialogSteps    \* bound on the edits and openings

ASSUME StepsAssumption == MaxDialogSteps \in Nat \ {0}
ASSUME TeamsOfAssumption == DOMAIN TeamsOf = Servers \X Tokens

VARIABLES
    shownDialog,  \* the dialog is open
    fields,       \* the form: serverUrl, token, teamId
    teams,        \* the teams offered, {} before a check (null)
    asking,         \* the request that is out: "none", "validate" or "connect"
    askedFor,      \* the values it carries
    connected,    \* what has been sent to be connected: serverUrl, token, teamId
    dialogSteps

mattermostVars == <<shownDialog, fields, teams, asking, askedFor, connected, dialogSteps>>

EmptyForm(url) == [serverUrl |-> url, token |-> Blank, teamId |-> Blank]

MattermostInit ==
    /\ shownDialog = FALSE /\ fields = EmptyForm(Blank) /\ teams = {}
    /\ asking = "none" /\ askedFor = EmptyForm(Blank) /\ connected = {} /\ dialogSteps = 0

Step == dialogSteps < MaxDialogSteps /\ dialogSteps' = dialogSteps + 1

\* The effect on open: clean, but for the prefill of a reconnect.
OpenConnect(prefill) ==
    /\ ~shownDialog /\ Step /\ shownDialog' = TRUE
    /\ fields' = EmptyForm(prefill) /\ teams' = {}
    /\ UNCHANGED <<asking, askedFor, connected>>

\* Escape and the overlay close it at any time; only Cancel waits for the request.
CloseConnect ==
    /\ shownDialog /\ shownDialog' = FALSE
    /\ UNCHANGED <<fields, teams, asking, askedFor, connected, dialogSteps>>

\* Mutant: the teams stay on offer when the token is changed.
EditFieldKeep(field, value) ==
    /\ shownDialog /\ asking = "none" /\ Step /\ fields[field] # value
    /\ fields' = [fields EXCEPT ![field] = value]
    /\ UNCHANGED <<shownDialog, teams, asking, askedFor, connected>>

\* The inputs, disabled while a request is out; the watch drops what the old values produced.
EditField(field, value) ==
    /\ shownDialog /\ asking = "none" /\ Step /\ fields[field] # value
    /\ fields' = [[fields EXCEPT ![field] = value] EXCEPT !.teamId = Blank]
    /\ teams' = {}
    /\ UNCHANGED <<shownDialog, asking, askedFor, connected>>

PickTeam(team) ==
    /\ shownDialog /\ asking = "none" /\ Step /\ team \in teams /\ fields.teamId # team
    /\ fields' = [fields EXCEPT !.teamId = team]
    /\ UNCHANGED <<shownDialog, teams, asking, askedFor, connected>>

\* formSchema.
SchemaAccepts == fields.serverUrl # Blank /\ fields.token # Blank

\* onSubmit: a check as long as no teams are offered, else a connect.
SubmitConnect ==
    /\ shownDialog /\ asking = "none" /\ SchemaAccepts
    /\ teams = {} \/ fields.teamId # Blank
    /\ asking' = IF teams = {} THEN "validate" ELSE "connect"
    /\ askedFor' = fields
    /\ connected' = IF teams = {} THEN connected ELSE connected \cup {fields}
    /\ UNCHANGED <<shownDialog, fields, teams, dialogSteps>>

\* The check is answered: into whatever form the component shows by now.
Validated ==
    LET found == TeamsOf[<<askedFor.serverUrl, askedFor.token>>] IN
    /\ asking = "validate" /\ asking' = "none"
    /\ IF found = {} THEN UNCHANGED <<teams, fields>>
       ELSE /\ teams' = found
            /\ fields' = [fields EXCEPT !.teamId = IF Cardinality(found) = 1 THEN CHOOSE t \in found : TRUE ELSE Blank]
    /\ UNCHANGED <<shownDialog, askedFor, connected, dialogSteps>>

\* The connect is answered, and closes whatever dialog is open.
ConnectDone ==
    /\ asking = "connect" /\ asking' = "none" /\ shownDialog' = FALSE
    /\ UNCHANGED <<fields, teams, askedFor, connected, dialogSteps>>

\* serverError: the values stay for another try.
CallFails ==
    /\ asking # "none" /\ asking' = "none"
    /\ UNCHANGED <<shownDialog, fields, teams, askedFor, connected, dialogSteps>>

MattermostNext ==
    \/ \E prefill \in Servers \cup {Blank} : OpenConnect(prefill)
    \/ CloseConnect \/ SubmitConnect \/ Validated \/ ConnectDone \/ CallFails
    \/ \E url \in Servers : EditField("serverUrl", url)
    \/ \E token \in Tokens : EditField("token", token)
    \/ \E team \in teams : PickTeam(team)

MattermostSpec == MattermostInit /\ [][MattermostNext]_mattermostVars

-----------------------------------------------------------------------------

TeamIds == UNION {TeamsOf[c] : c \in DOMAIN TeamsOf}

\* The types of the dialog's variables.
MattermostTypeOK ==
    /\ fields \in [serverUrl : Servers \cup {Blank}, token : Tokens \cup {Blank}, teamId : TeamIds \cup {Blank}]
    /\ asking \in {"none", "validate", "connect"}
    /\ \A sent \in connected : sent.teamId # Blank

\* A team is connected with the server and the token that listed it, although the answer to a
\* check may arrive in a form that was reset for another server (onSubmit, the watch that
\* drops the teams, the schema that wants a token typed after every reset).
TeamOfItsToken == \A sent \in connected : sent.teamId \in TeamsOf[<<sent.serverUrl, sent.token>>]
=============================================================================
