-------------------------- MODULE AdminAllowlist ---------------------------
(***************************************************************************)
(* The access allowlist: who may sign in and as what, and the handlers of  *)
(* AdminService that change it.  Every handler reads the table, decides,   *)
(* and writes with a conditional UPDATE; other requests, and the owner     *)
(* seeder of a booting replica, run between those awaits.                  *)
(*                                                                         *)
(* One OAuth provider.  A row is what access_allowlist holds for an email: *)
(* absent, active or revoked, with a role.                                 *)
(***************************************************************************)
EXTENDS Integers, FiniteSets

CONSTANTS
  Emails,       \* normalized addresses
  OwnerEmail,   \* auth.ownerEmail, the address the seeder looks after
  Requests      \* HTTP requests that may be in flight at the same time

ASSUME OwnerAssumption == OwnerEmail \in Emails

VARIABLES
  row,       \* row[e]: the allowlist row of e
  signedIn,  \* emails with a live session
  overtaken, \* emails whose login outlived their removal
  req,       \* req[r]: the handler running in request r
  boot       \* the seeder of a replica that is starting

sessionVars == <<signedIn, overtaken>>

vars == <<row, sessionVars, req, boot>>

Roles == {"admin", "owner"}

Row == [status : {"absent", "active", "revoked"}, role : Roles]

NoRow == [status |-> "absent", role |-> "admin"]

Active(role) == [status |-> "active", role |-> role]

IsOwner(e) == row[e] = Active("owner")

CountActiveOwners == Cardinality({e \in Emails : IsOwner(e)})

\* op is the handler, pc its next await, found the row it read.
Req == [op : {"none", "add", "restore", "role", "remove", "login"},
        pc : {"idle", "find", "count", "write", "sessions"},
        actor : Emails, target : Emails, role : Roles, found : Row]

Idle == [op |-> "none", pc |-> "idle", actor |-> OwnerEmail,
         target |-> OwnerEmail, role |-> "admin", found |-> NoRow]

Boot == [pc : {"down", "find", "write", "up"}, found : Row]

Goto(r, l) == req' = [req EXCEPT ![r].pc = l]

\* As Reply, with the handler's parameters left behind.
ReplyKeepsOp(r) == Goto(r, "idle")

Reply(r) == req' = [req EXCEPT ![r] = Idle]

-----------------------------------------------------------------------------
(* Requests.                                                               *)

\* The session guard and RolesGuard admit an owner to the four mutations.
\* restore is one conditional UPDATE, the others start with a read.
BeginMutation(r) ==
  /\ req[r].op = "none"
  /\ \E actor, target \in Emails, role \in Roles,
        op \in {"add", "restore", "role", "remove"} :
       /\ IsOwner(actor)
       /\ op = "remove" => actor # target
       /\ req' = [req EXCEPT ![r] =
            [op |-> op, pc |-> IF op = "restore" THEN "write" ELSE "find",
             actor |-> actor, target |-> target, role |-> role,
             found |-> NoRow]]
  /\ UNCHANGED <<row, sessionVars, boot>>

\* The OAuth callback of e.
BeginLogin(r) ==
  /\ req[r].op = "none"
  /\ \E e \in Emails :
       req' = [req EXCEPT ![r] =
         [op |-> "login", pc |-> "find", actor |-> e, target |-> e,
          role |-> "admin", found |-> NoRow]]
  /\ UNCHANGED <<row, sessionVars, boot>>

\* An owner is about to stop being one.
NeedsOwnerCount(r, found) ==
  /\ found.role = "owner"
  /\ \/ req[r].op = "remove"
     \/ req[r].op = "role" /\ req[r].role = "admin"

\* The read at the top of the handler, and the refusals that follow from it.
Find(r) ==
  /\ req[r].pc = "find"
  /\ LET found == row[req[r].target] IN
       IF \/ req[r].op = "add" /\ found.status # "absent"
          \/ req[r].op # "add" /\ found.status # "active"
          \/ req[r].op = "role" /\ found.role = req[r].role
          \/ /\ req[r].op = "role" /\ NeedsOwnerCount(r, found)
             /\ req[r].actor = req[r].target
       THEN Reply(r)
       ELSE req' = [req EXCEPT ![r].found = found,
              ![r].pc = CASE NeedsOwnerCount(r, found) -> "count"
                          [] req[r].op = "login" -> "sessions"
                          [] OTHER -> "write"]
  /\ UNCHANGED <<row, sessionVars, boot>>

\* countActiveOwners: the last owner is protected.
Count(r) ==
  /\ req[r].pc = "count"
  /\ IF CountActiveOwners <= 1 THEN Reply(r) ELSE Goto(r, "write")
  /\ UNCHANGED <<row, sessionVars, boot>>

\* createAdmin; the unique index refuses a row that has appeared since.
WriteAdd(r) ==
  /\ req[r].pc = "write" /\ req[r].op = "add"
  /\ row' = IF row[req[r].target].status = "absent"
              THEN [row EXCEPT ![req[r].target] = Active(req[r].role)]
              ELSE row
  /\ Reply(r)
  /\ UNCHANGED <<sessionVars, boot>>

\* repository.restore: WHERE revoked_at IS NOT NULL.
WriteRestore(r) ==
  /\ req[r].pc = "write" /\ req[r].op = "restore"
  /\ row' = IF row[req[r].target].status = "revoked"
              THEN [row EXCEPT ![req[r].target] = Active("admin")]
              ELSE row
  /\ Reply(r)
  /\ UNCHANGED <<sessionVars, boot>>

\* As WriteRole, saving the entity that was read instead of a conditional
\* UPDATE.
WriteRoleSaved(r) ==
  /\ req[r].pc = "write" /\ req[r].op = "role"
  /\ row' = [row EXCEPT ![req[r].target] = Active(req[r].role)]
  /\ Reply(r)
  /\ UNCHANGED <<sessionVars, boot>>

\* repository.updateRole: WHERE revoked_at IS NULL.
WriteRole(r) ==
  /\ req[r].pc = "write" /\ req[r].op = "role"
  /\ row' = IF row[req[r].target].status = "active"
              THEN [row EXCEPT ![req[r].target] = Active(req[r].role)]
              ELSE row
  /\ Reply(r)
  /\ UNCHANGED <<sessionVars, boot>>

\* repository.softRevoke: WHERE revoked_at IS NULL; no row, no sessions.
WriteRemove(r) ==
  /\ req[r].pc = "write" /\ req[r].op = "remove"
  /\ IF row[req[r].target].status = "active"
       THEN /\ row' = [row EXCEPT ![req[r].target].status = "revoked"]
            /\ Goto(r, "sessions")
       ELSE UNCHANGED row /\ Reply(r)
  /\ UNCHANGED <<sessionVars, boot>>

\* As Sessions, with a removal that leaves the sessions to expire.
SessionsLeft(r) ==
  /\ req[r].pc = "sessions"
  /\ signedIn' = IF req[r].op = "login"
                   THEN signedIn \cup {req[r].target} ELSE signedIn
  /\ Reply(r)
  /\ UNCHANGED <<overtaken, row, boot>>

\* A removal ends with revokeAllByUserId, a login with a new session: the
\* allowlist is not read again, so the login may be overtaken by a removal.
Sessions(r) ==
  /\ req[r].pc = "sessions"
  /\ signedIn' = IF req[r].op = "login"
                   THEN signedIn \cup {req[r].target}
                   ELSE signedIn \ {req[r].target}
  /\ overtaken' = IF req[r].op = "login" /\ row[req[r].target].status # "active"
                    THEN overtaken \cup {req[r].target}
                    ELSE overtaken \ {req[r].target}
  /\ Reply(r)
  /\ UNCHANGED <<row, boot>>

-----------------------------------------------------------------------------
(* seedOwner, in a replica that boots.                                     *)

\* A replica starts, or one that was up restarts.
StartReplica ==
  /\ boot.pc \in {"down", "up"}
  /\ boot' = [boot EXCEPT !.pc = "find"]
  /\ UNCHANGED <<row, sessionVars, req>>

\* An active owner needs nothing; an active admin under the owner's address
\* is OwnerEmailConflictError and the boot fails.
SeedFind ==
  /\ boot.pc = "find"
  /\ LET found == row[OwnerEmail] IN
       boot' = IF found.status # "active"
                 THEN [pc |-> "write", found |-> found]
                 ELSE [pc |-> IF found.role = "owner" THEN "up" ELSE "down",
                       found |-> NoRow]
  /\ UNCHANGED <<row, sessionVars, req>>

\* Restore (conditional, its result ignored) or create (a duplicate key fails
\* the boot).
SeedWrite ==
  /\ boot.pc = "write"
  /\ LET wanted == boot.found.status IN
       /\ row' = IF row[OwnerEmail].status = wanted
                   THEN [row EXCEPT ![OwnerEmail] = Active("owner")] ELSE row
       /\ boot' = [found |-> NoRow,
                   pc |-> IF wanted = "absent"
                               /\ row[OwnerEmail].status # "absent"
                            THEN "down" ELSE "up"]
  /\ UNCHANGED <<sessionVars, req>>

-----------------------------------------------------------------------------

Init ==
  /\ row = [e \in Emails |-> NoRow] /\ signedIn = {} /\ overtaken = {}
  /\ req = [r \in Requests |-> Idle]
  /\ boot = [pc |-> "down", found |-> NoRow]

Next ==
  \/ \E r \in Requests :
       \/ BeginMutation(r) \/ BeginLogin(r) \/ Find(r) \/ Count(r)
       \/ WriteAdd(r) \/ WriteRestore(r) \/ WriteRole(r) \/ WriteRemove(r)
       \/ Sessions(r)
  \/ StartReplica \/ SeedFind \/ SeedWrite

Spec == Init /\ [][Next]_vars

-----------------------------------------------------------------------------
(* Properties.                                                             *)

\* Every variable has its type, and a request is idle exactly when it runs no
\* handler.
TypeOK ==
  /\ row \in [Emails -> Row] /\ signedIn \subseteq Emails
  /\ overtaken \subseteq Emails
  /\ req \in [Requests -> Req] /\ boot \in Boot
  /\ \A r \in Requests : req[r].pc = "idle" <=> req[r].op = "none"

\* A removed admin comes back through restore, as an admin, or through the
\* seeder; no write that was decided before the removal brings the row back.
NeverRegranted ==
  [][\A e \in Emails :
       row[e].status = "revoked" /\ row'[e].status = "active"
         => \/ row'[e].role = "admin"
            \/ e = OwnerEmail /\ boot.pc = "write"]_vars

\* Once a removal is over its target has no live session left, whatever other
\* mutations, logins and boots ran beside it, except the session of a login
\* that had passed the allowlist before the removal and created it after.
RemovedIsSignedOut ==
  \A e \in signedIn :
    \/ row[e].status = "active" \/ e \in overtaken
    \/ \E r \in Requests : /\ req[r].op = "remove" /\ req[r].pc = "sessions"
                           /\ req[r].target = e

\* What the allowlist keeps at every moment.
AllowlistInv == TypeOK /\ RemovedIsSignedOut

\* admin.service.ts: "The last owner cannot be removed" and "must remain an
\* owner".  No step takes the last owner away.
OwnerRemains ==
  [][(\E e \in Emails : IsOwner(e)) => \E e \in Emails : IsOwner(e)']_vars
============================================================================
