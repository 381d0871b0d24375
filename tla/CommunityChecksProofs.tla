----------------------- MODULE CommunityChecksProofs -----------------------
(***************************************************************************)
(* Proofs about the machines of requests that overlap.  CommunityChecks:   *)
(* its types for any number of communities and requests, and that the      *)
(* refresh queue, when it is the only writer, never loses a change.        *)
(* AuthSessions: every refresh in flight has a leader, and with one API    *)
(* process a session survives the refreshes its requests share.            *)
(***************************************************************************)
EXTENDS CommunityChecks, AuthSessions, TLAPS

Queued(c) == \E i \in DOMAIN queue : queue[i] = c

LEMMA DrainChecks == "drain" \in Checkers
BY DEF Checkers

LEMMA RequestsCheck == Requests \subseteq Checkers
BY DEF Checkers

LEMMA IdleType == \A c \in Conns : Idle(c) \in Check
BY ChangesAssumption DEF Idle, Check, Row, NoRow, Versions

LEMMA FinishType ==
  ASSUME TypeOK, NEW k \in Checkers, Finish(k)
  PROVE  check' \in [Checkers -> Check]
<1>1. check[k].conn \in Conns
  BY DEF TypeOK, Check
<1> QED
  BY <1>1, IdleType DEF TypeOK, Finish

LEMMA QueueType ==
  ASSUME TypeOK, NEW c \in Conns, Enqueue(c)
  PROVE  /\ queue' \in Seq(Conns)
         /\ \A i, j \in DOMAIN queue' : queue'[i] = queue'[j] => i = j
BY DEF TypeOK, Enqueue

LEMMA DrainType ==
  ASSUME TypeOK, Drain
  PROVE  TypeOK'
<1>1. Head(queue) \in Conns /\ queue' \in Seq(Conns)
  BY DEF TypeOK, Drain
<1>2. [Idle(Head(queue)) EXCEPT !.op = "check", !.pc = "load"] \in Check
  BY <1>1, IdleType DEF Check, Idle
<1>3. \A i, j \in DOMAIN queue' : queue'[i] = queue'[j] => i = j
  BY DEF TypeOK, Drain
<1> QED
  BY <1>1, <1>2, <1>3 DEF TypeOK, Drain

LEMMA StepType ==
  ASSUME TypeOK, NEW k \in Checkers,
         Load(k) \/ Probe(k) \/ RecordFind(k) \/ RecordSave(k)
           \/ StatementFails(k)
  PROVE  TypeOK'
<1>1. check[k] \in Check /\ check[k].conn \in Conns
  BY DEF TypeOK, Check
<1>2. row[check[k].conn] \in Row /\ world[check[k].conn] \in Versions
  BY <1>1 DEF TypeOK
<1>3. CASE Load(k)
  <2>1. check' \in [Checkers -> Check]
    BY <1>1, <1>3, FinishType DEF Load, Goto, TypeOK, Check
  <2> QED
    BY <1>3, <2>1 DEF Load, TypeOK
<1>4. CASE Probe(k)
  <2>1. check' \in [Checkers -> Check]
    BY <1>1, <1>2, <1>4, FinishType DEF Probe, RecordFailure, TypeOK, Check
  <2> QED
    BY <1>4, <2>1 DEF Probe, TypeOK
<1>5. CASE RecordFind(k)
  <2>1. check' \in [Checkers -> Check]
    BY <1>1, <1>2, <1>5, FinishType DEF RecordFind, TypeOK, Check
  <2> QED
    BY <1>5, <2>1 DEF RecordFind, TypeOK
<1>6. CASE RecordSave(k)
  <2>1. Recorded(k) \in Row
    BY <1>1 DEF Recorded, Row, Check
  <2>2. check' \in [Checkers -> Check]
    BY <1>1, <1>6, FinishType DEF RecordSave, RecordFailure, TypeOK, Check
  <2> QED
    BY <1>1, <1>6, <2>1, <2>2 DEF RecordSave, TypeOK
<1>7. CASE StatementFails(k)
  <2>1. check' \in [Checkers -> Check]
    BY <1>1, <1>7, FinishType DEF StatementFails, RecordFailure, TypeOK, Check
  <2>2. missed' \subseteq Conns
    BY <1>1, <1>7 DEF StatementFails, TypeOK
  <2> QED
    BY <1>7, <2>1, <2>2 DEF StatementFails, TypeOK
<1> QED
  BY <1>3, <1>4, <1>5, <1>6, <1>7

LEMMA RequestType ==
  ASSUME TypeOK, NEW k \in Requests,
         Request(k) \/ Adopt(k) \/ Install(k) \/ Revoke(k) \/ Delete(k)
  PROVE  TypeOK'
<1>1. check[k] \in Check /\ check[k].conn \in Conns /\ k \in Checkers
  BY RequestsCheck DEF TypeOK, Check
<1>2. CASE Request(k)
  <2>1. PICK c \in Conns :
          \/ \E op \in {"check", "list", "disconnect"} :
               check' = [check EXCEPT ![k] =
                           [Idle(c) EXCEPT !.op = op, !.pc = "load"]]
          \/ check' = [check EXCEPT ![k] =
                         [Idle(c) EXCEPT !.op = "connect", !.pc = "install",
                                         !.base = row[c]]]
    BY <1>2 DEF Request
  <2>2. Idle(c) \in Check /\ row[c] \in Row
    BY IdleType DEF TypeOK
  <2>3. ASSUME NEW op \in {"check", "list", "disconnect"}
        PROVE  [Idle(c) EXCEPT !.op = op, !.pc = "load"] \in Check
    BY <2>2 DEF Check, Idle
  <2>4. [Idle(c) EXCEPT !.op = "connect", !.pc = "install", !.base = row[c]]
          \in Check
    BY <2>2 DEF Check, Idle
  <2>5. check' \in [Checkers -> Check]
    BY <1>1, <2>1, <2>3, <2>4 DEF TypeOK
  <2> QED
    BY <1>2, <2>5 DEF Request, TypeOK
<1>3. CASE Adopt(k)
  <2>1. row[check[k].conn] \in Row
    BY <1>1 DEF TypeOK
  <2>2. check' \in [Checkers -> Check]
    BY <1>1, <1>3, <2>1 DEF Adopt, TypeOK, Check
  <2> QED
    BY <1>3, <2>2 DEF Adopt, TypeOK
<1>4. CASE Install(k)
  <2>1. [status |-> "pending", seen |-> check[k].base.seen] \in Row
    BY <1>1 DEF Row, Check
  <2>2. check' \in [Checkers -> Check]
    BY <1>1, <1>4 DEF Install, Goto, TypeOK, Check
  <2> QED
    BY <1>1, <1>4, <2>1, <2>2 DEF Install, TypeOK
<1>5. CASE Revoke(k)
  <2>1. \/ check' = [check EXCEPT ![k].pc = "delete"]
        \/ check' = [check EXCEPT ![k].pc = "find"]
    BY <1>5 DEF Revoke, Goto
  <2>2. check' \in [Checkers -> Check]
    BY <1>1, <2>1 DEF TypeOK, Check
  <2> QED
    BY <1>5, <2>2 DEF Revoke, TypeOK
<1>6. CASE Delete(k)
  <2>1. NoRow \in Row
    BY DEF NoRow, Row
  <2> QED
    BY <1>1, <1>6, <2>1, FinishType DEF Delete, TypeOK
<1> QED
  BY <1>2, <1>3, <1>4, <1>5, <1>6

LEMMA InitType == Init => TypeOK
<1> SUFFICES ASSUME Init PROVE TypeOK
  OBVIOUS
<1>1. row \in [Conns -> Row]
  BY ChangesAssumption DEF Init, Row, NoRow, Versions
<1>2. check \in [Checkers -> Check]
  BY IdleType DEF Init
<1>3. world \in [Conns -> Versions]
  BY ChangesAssumption DEF Init, Versions
<1>4. queue \in Seq(Conns) /\ DOMAIN queue = {}
  BY DEF Init
<1> QED
  BY <1>1, <1>2, <1>3, <1>4 DEF Init, TypeOK

LEMMA NextType == TypeOK /\ [Next]_vars => TypeOK'
<1> SUFFICES ASSUME TypeOK, [Next]_vars PROVE TypeOK'
  OBVIOUS
<1>1. ASSUME NEW c \in Conns, PlatformChanges(c) PROVE TypeOK'
  BY <1>1, ChangesAssumption DEF PlatformChanges, TypeOK, Versions
<1>2. ASSUME NEW c \in Conns, HandleSignal(c) PROVE TypeOK'
  BY <1>2 DEF HandleSignal, TypeOK
<1>3. ASSUME NEW c \in Conns, Enqueue(c) PROVE TypeOK'
  BY <1>3, QueueType DEF Enqueue, TypeOK
<1>4. CASE Shutdown
  BY <1>4 DEF Shutdown, TypeOK
<1>5. CASE UNCHANGED vars
  BY <1>5 DEF vars, TypeOK
<1> QED
  BY <1>1, <1>2, <1>3, <1>4, <1>5, DrainType, StepType, RequestType
  DEF Next

\* Every variable keeps its type and the queue its one entry per community,
\* with any number of communities, requests and changes.
THEOREM TypeCorrect == Spec => []TypeOK
BY InitType, NextType, PTL DEF Spec

-----------------------------------------------------------------------------
(* Concurrent checks.                                                      *)

\* Whatever a check is about to record as a success is a version it saw.
SuccessSaw ==
  \A k \in Checkers : check[k].ok => check[k].saw >= 0

MInv == TypeOK /\ SuccessSaw /\ ActiveHasMetadata

LEMMA FailureSaw ==
  ASSUME TypeOK, SuccessSaw, NEW k \in Checkers, RecordFailure(k)
  PROVE  SuccessSaw'
<1>1. ~check'[k].ok /\ \A l \in Checkers : l # k => check'[l] = check[l]
  BY DEF RecordFailure, TypeOK, Check
<1> QED
  BY <1>1 DEF SuccessSaw

LEMMA IdleSaw ==
  ASSUME TypeOK, SuccessSaw, NEW k \in Checkers, Finish(k)
  PROVE  SuccessSaw'
BY DEF TypeOK, SuccessSaw, Finish, Idle

\* A row that calls itself connected carries the facts of a successful probe,
\* for any number of communities and of checks, connects and disconnects that
\* overlap: recordCheck writes status and metadata in one save.
THEOREM ConnectedHasMetadata == Spec => []ActiveHasMetadata
<1>1. Init => MInv
  <2> SUFFICES ASSUME Init PROVE MInv
    OBVIOUS
  <2>1. SuccessSaw
    BY DEF Init, SuccessSaw, Idle
  <2>2. ActiveHasMetadata
    BY DEF Init, ActiveHasMetadata, NoRow
  <2> QED
    BY <2>1, <2>2, InitType DEF MInv
<1>2. MInv /\ [Next]_vars => MInv'
  <2> SUFFICES ASSUME MInv, [Next]_vars PROVE SuccessSaw' /\ ActiveHasMetadata'
    BY NextType DEF MInv
  <2>0. TypeOK /\ SuccessSaw /\ ActiveHasMetadata
    BY DEF MInv
  <2>1. ASSUME NEW c \in Conns,
               PlatformChanges(c) \/ HandleSignal(c) \/ Enqueue(c)
        PROVE  SuccessSaw' /\ ActiveHasMetadata'
    BY <2>0, <2>1 DEF PlatformChanges, HandleSignal, Enqueue, SuccessSaw,
                      ActiveHasMetadata
  <2>2. ASSUME Drain PROVE SuccessSaw' /\ ActiveHasMetadata'
    <3>1. \A k \in Checkers : ~check'[k].ok \/ check'[k] = check[k]
      BY <2>0, <2>2, DrainChecks DEF Drain, TypeOK, Idle
    <3> QED
      BY <2>0, <2>2, <3>1 DEF Drain, SuccessSaw, ActiveHasMetadata
  <2>3. ASSUME Shutdown PROVE SuccessSaw' /\ ActiveHasMetadata'
    BY <2>0, <2>3 DEF Shutdown, SuccessSaw, ActiveHasMetadata
  <2>4. ASSUME NEW k \in Checkers, Load(k) \/ RecordFind(k)
        PROVE  SuccessSaw' /\ ActiveHasMetadata'
    <3>1. row' = row
      BY <2>4 DEF Load, RecordFind
    <3>2. SuccessSaw'
      BY <2>0, <2>4, IdleSaw
      DEF Load, RecordFind, Goto, SuccessSaw, TypeOK, Check
    <3> QED
      BY <2>0, <3>1, <3>2 DEF ActiveHasMetadata
  <2>5. ASSUME NEW k \in Checkers, Probe(k)
        PROVE  SuccessSaw' /\ ActiveHasMetadata'
    <3>1. row' = row
      BY <2>5 DEF Probe
    <3>2. world[check[k].conn] >= 0
      BY <2>0, ChangesAssumption DEF TypeOK, Check, Versions
    <3>3. CASE Finish(k)
      BY <2>0, <3>1, <3>3, IdleSaw DEF ActiveHasMetadata
    <3>4. CASE RecordFailure(k)
      BY <2>0, <3>1, <3>4, FailureSaw DEF ActiveHasMetadata
    <3>5. CASE check' = [check EXCEPT ![k].pc = "find", ![k].ok = TRUE,
                                      ![k].saw = world[check[k].conn]]
      <4>1. check'[k].saw >= 0
        BY <2>0, <3>2, <3>5 DEF TypeOK, Check
      <4>2. \A l \in Checkers : l # k => check'[l] = check[l]
        BY <2>0, <3>5 DEF TypeOK
      <4> QED
        BY <2>0, <3>1, <4>1, <4>2 DEF SuccessSaw, ActiveHasMetadata
    <3> QED
      BY <2>5, <3>3, <3>4, <3>5 DEF Probe
  <2>6. ASSUME NEW k \in Checkers, RecordSave(k)
        PROVE  SuccessSaw' /\ ActiveHasMetadata'
    <3>1. Recorded(k).status = "active" => Recorded(k).seen >= 0
      BY <2>0, <2>6 DEF Recorded, RecordSave, SuccessSaw
    <3>2. \A c \in Conns : row'[c] = Recorded(k) \/ row'[c] = row[c]
      BY <2>0, <2>6 DEF RecordSave, TypeOK
    <3> QED
      BY <2>0, <2>6, <3>1, <3>2, IdleSaw, FailureSaw
      DEF RecordSave, ActiveHasMetadata
  <2>7. ASSUME NEW k \in Checkers, StatementFails(k)
        PROVE  SuccessSaw' /\ ActiveHasMetadata'
    <3>1. row' = row
      BY <2>7 DEF StatementFails
    <3>2. CASE Finish(k)
      BY <2>0, <3>1, <3>2, IdleSaw DEF ActiveHasMetadata
    <3>3. CASE RecordFailure(k)
      BY <2>0, <3>1, <3>3, FailureSaw DEF ActiveHasMetadata
    <3> QED
      BY <2>7, <3>2, <3>3 DEF StatementFails
  <2>8. ASSUME NEW k \in Requests, Request(k) \/ Adopt(k) \/ Revoke(k)
        PROVE  SuccessSaw' /\ ActiveHasMetadata'
    <3>1. row' = row /\ k \in Checkers
      BY <2>8, RequestsCheck DEF Request, Adopt, Revoke
    <3>2. CASE Request(k)
      <4>1. /\ ~check'[k].ok
            /\ \A l \in Checkers : l # k => check'[l] = check[l]
        BY <2>0, <3>1, <3>2 DEF Request, TypeOK, Idle
      <4> QED
        BY <2>0, <3>1, <4>1 DEF SuccessSaw, ActiveHasMetadata
    <3>3. CASE Adopt(k)
      <4>1. /\ check'[k].ok = check[k].ok /\ check'[k].saw = check[k].saw
            /\ \A l \in Checkers : l # k => check'[l] = check[l]
        BY <2>0, <3>1, <3>3 DEF Adopt, TypeOK, Check
      <4> QED
        BY <2>0, <3>1, <4>1 DEF SuccessSaw, ActiveHasMetadata
    <3>4. CASE Revoke(k)
      <4>1. /\ check'[k].ok = check[k].ok /\ check'[k].saw = check[k].saw
            /\ \A l \in Checkers : l # k => check'[l] = check[l]
        BY <2>0, <3>1, <3>4 DEF Revoke, Goto, TypeOK, Check
      <4> QED
        BY <2>0, <3>1, <4>1 DEF SuccessSaw, ActiveHasMetadata
    <3> QED
      BY <2>8, <3>2, <3>3, <3>4
  <2>9. ASSUME NEW k \in Requests, Install(k) \/ Delete(k)
        PROVE  SuccessSaw' /\ ActiveHasMetadata'
    <3>1. k \in Checkers
      BY <2>9, RequestsCheck
    <3>2. \A c \in Conns : row'[c].status # "active" \/ row'[c] = row[c]
      BY <2>0, <2>9 DEF Install, Delete, NoRow, TypeOK
    <3>3. SuccessSaw'
      BY <2>0, <2>9, <3>1, IdleSaw
      DEF Install, Delete, Goto, SuccessSaw, TypeOK, Check
    <3> QED
      BY <2>0, <3>2, <3>3 DEF ActiveHasMetadata
  <2>10. CASE UNCHANGED vars
    BY <2>0, <2>10 DEF vars, SuccessSaw, ActiveHasMetadata
  <2> QED
    BY <2>1, <2>2, <2>3, <2>4, <2>5, <2>6, <2>7, <2>8, <2>9, <2>10 DEF Next
<1>3. MInv => ActiveHasMetadata
  BY DEF MInv
<1> QED
  BY <1>1, <1>2, <1>3, PTL DEF Spec

-----------------------------------------------------------------------------
(* The refresh queue alone.                                                *)

\* A probe that has an answer older than the platform is followed by another
\* signal, and the community it works on is still connected.
ProbeCovered ==
  check["drain"].pc # "idle" =>
    LET c == check["drain"].conn IN
      /\ check["drain"].op = "check"
      /\ check["drain"].pc \in {"load", "call", "find", "save"}
      /\ check["drain"].pc = "load" => ~check["drain"].ok
      /\ check["drain"].pc # "load" => Exists(c)
      /\ check["drain"].pc \in {"find", "save"} /\ check["drain"].ok
           /\ check["drain"].saw # world[c] /\ ~stopped
           => c \in wire \cup pending \cup missed \/ Queued(c)

QInv == TypeOK /\ ProbeCovered /\ NeverStale

\* Enqueue keeps what was queued and adds its own community.
LEMMA EnqueueKeeps ==
  ASSUME TypeOK, NEW c \in Conns, Enqueue(c)
  PROVE  Queued(c)' /\ \A d : Queued(d) => Queued(d)'
<1>1. CASE \E i \in DOMAIN queue : queue[i] = c
  BY <1>1 DEF Enqueue, Queued
<1>2. CASE ~ \E i \in DOMAIN queue : queue[i] = c
  <2>1. queue' = Append(queue, c) /\ queue \in Seq(Conns)
    BY <1>2 DEF Enqueue, TypeOK
  <2>2. /\ Len(queue') = Len(queue) + 1
        /\ DOMAIN queue' = 1 .. Len(queue) + 1
        /\ queue'[Len(queue) + 1] = c
        /\ \A i \in 1 .. Len(queue) : queue'[i] = queue[i]
        /\ Len(queue) \in Nat /\ DOMAIN queue = 1 .. Len(queue)
    BY <2>1
  <2> QED
    BY <2>2 DEF Queued
<1> QED
  BY <1>1, <1>2

\* The drain loop takes the head and keeps the rest.
LEMMA DrainKeeps ==
  ASSUME TypeOK, Drain
  PROVE  \A d : Queued(d) => Queued(d)' \/ d = Head(queue)
<1>1. /\ queue \in Seq(Conns) /\ queue # <<>> /\ queue' = Tail(queue)
  BY DEF TypeOK, Drain
<1>2. /\ Len(queue) \in Nat /\ DOMAIN queue = 1 .. Len(queue)
      /\ DOMAIN queue' = 1 .. Len(queue) - 1
      /\ \A i \in 1 .. Len(queue) - 1 : queue'[i] = queue[i + 1]
      /\ Head(queue) = queue[1]
  BY <1>1
<1>3. ASSUME NEW d, NEW i \in DOMAIN queue, queue[i] = d, i # 1
      PROVE  Queued(d)'
  <2>1. i - 1 \in DOMAIN queue' /\ queue'[i - 1] = d
    BY <1>2, <1>3
  <2> QED
    BY <2>1 DEF Queued
<1> QED
  BY <1>2, <1>3 DEF Queued

\* With the refresh queue as the only writer, a connected row that is behind
\* its platform always has a signal, a timer, a queue entry or a probe to
\* come, for any number of communities and changes.
THEOREM QueueNeverStale ==
  ASSUME Requests = {}
  PROVE  Spec => []NeverStale
<1> DEFINE D == check["drain"]
<1>1. Init => QInv
  <2> SUFFICES ASSUME Init PROVE QInv
    OBVIOUS
  <2>1. TypeOK
    BY InitType
  <2>2. D.pc = "idle"
    BY DrainChecks DEF Init, Idle
  <2>3. NeverStale
    BY DEF Init, NeverStale, NoRow
  <2> QED
    BY <2>1, <2>2, <2>3 DEF QInv, ProbeCovered
<1>2. QInv /\ [Next]_vars => QInv'
  <2> SUFFICES ASSUME QInv, [Next]_vars, TypeOK' PROVE QInv'
    BY NextType DEF QInv
  <2>0. /\ TypeOK /\ ProbeCovered /\ NeverStale
        /\ D \in Check /\ D.conn \in Conns
    BY DrainChecks DEF QInv, TypeOK, Check
  <2> USE DrainChecks
  <2>1. ASSUME NEW c \in Conns, PlatformChanges(c)
        PROVE  ProbeCovered' /\ NeverStale'
    <3>1. /\ check' = check /\ row' = row /\ queue' = queue
          /\ wire' = wire \cup {c} /\ pending' = pending
          /\ stopped' = stopped /\ missed' = missed
          /\ \A d \in Conns : d # c => world'[d] = world[d]
      BY <2>0, <2>1 DEF PlatformChanges, TypeOK
    <3>2. ProbeCovered'
      BY <2>0, <3>1 DEF ProbeCovered, Exists, Queued
    <3>3. ASSUME NEW d \in Conns PROVE Outstanding(d) => Outstanding(d)'
      BY <3>1, <2>0 DEF Outstanding
    <3>4. Outstanding(c)'
      BY <3>1 DEF Outstanding
    <3> QED
      BY <2>0, <3>1, <3>2, <3>3, <3>4 DEF NeverStale
  <2>2. ASSUME NEW c \in Conns, HandleSignal(c)
        PROVE  ProbeCovered' /\ NeverStale'
    <3>1. /\ check' = check /\ row' = row /\ queue' = queue
          /\ world' = world /\ stopped' = stopped /\ missed \subseteq missed'
          /\ wire' = wire \ {c} /\ pending \subseteq pending'
          /\ Exists(c) /\ ~stopped => c \in pending' \cup missed'
      BY <2>2 DEF HandleSignal
    <3>2. ProbeCovered'
      BY <2>0, <3>1 DEF ProbeCovered, Exists, Queued
    <3>3. \A d \in Conns :
            Outstanding(d) /\ Exists(d) /\ ~stopped
              => Outstanding(d)' \/ d \in missed'
      BY <3>1 DEF Outstanding
    <3> QED
      BY <2>0, <3>1, <3>2, <3>3 DEF NeverStale, Exists
  <2>3. ASSUME NEW c \in Conns, Enqueue(c)
        PROVE  ProbeCovered' /\ NeverStale'
    <3>1. /\ check' = check /\ row' = row /\ world' = world
          /\ wire' = wire /\ stopped' = stopped /\ missed' = missed
          /\ pending' = pending \ {c}
      BY <2>3 DEF Enqueue
    <3>2. Queued(c)' /\ \A d : Queued(d) => Queued(d)'
      BY <2>0, <2>3, EnqueueKeeps
    <3>3. ProbeCovered'
      BY <2>0, <3>1, <3>2 DEF ProbeCovered, Exists
    <3>4. \A d \in Conns : Outstanding(d) => Outstanding(d)'
      BY <3>1, <3>2 DEF Outstanding, Queued
    <3> QED
      BY <2>0, <3>1, <3>3, <3>4 DEF NeverStale
  <2>4. ASSUME Drain PROVE ProbeCovered' /\ NeverStale'
    <3>1. /\ row' = row /\ world' = world /\ wire' = wire
          /\ pending' = pending /\ stopped' = stopped /\ missed' = missed
          /\ D'.conn = Head(queue) /\ D'.pc = "load" /\ D'.op = "check"
          /\ ~D'.ok
      BY <2>0, <2>4 DEF Drain, TypeOK, Idle, Check
    <3>2. D.pc = "idle"
      BY <2>0, <2>4 DEF ProbeCovered, Drain
    <3>3. \A d \in Conns : Outstanding(d) => Outstanding(d)'
      BY <2>0, <2>4, <3>1, <3>2, DrainKeeps DEF Outstanding, Queued
    <3>4. ProbeCovered'
      BY <3>1 DEF ProbeCovered
    <3> QED
      BY <2>0, <3>1, <3>3, <3>4 DEF NeverStale
  <2>5. ASSUME Shutdown PROVE ProbeCovered' /\ NeverStale'
    BY <2>0, <2>5 DEF Shutdown, ProbeCovered, NeverStale, Exists
  <2>6. ASSUME Load("drain") PROVE ProbeCovered' /\ NeverStale'
    <3>1. /\ row' = row /\ world' = world /\ wire' = wire /\ queue' = queue
          /\ pending' = pending /\ stopped' = stopped /\ missed' = missed
          /\ D.pc = "load" /\ D'.conn = D.conn
          /\ \/ ~Exists(D.conn) /\ D'.pc = "idle"
             \/ Exists(D.conn) /\ D'.pc = "call" /\ D'.op = D.op
      BY <2>0, <2>6 DEF Load, Finish, Goto, Idle, TypeOK, ProbeCovered, Check
    <3>2. \A d \in Conns : Outstanding(d) /\ Exists(d) => Outstanding(d)'
      BY <3>1 DEF Outstanding
    <3>3. ProbeCovered'
      BY <2>0, <3>1 DEF ProbeCovered, Exists
    <3> QED
      BY <2>0, <3>1, <3>2, <3>3 DEF NeverStale, Exists
  <2>7. ASSUME Probe("drain") PROVE ProbeCovered' /\ NeverStale'
    <3>1. /\ row' = row /\ world' = world /\ wire' = wire /\ queue' = queue
          /\ pending' = pending /\ stopped' = stopped /\ missed' = missed
          /\ D.pc = "call" /\ D'.conn = D.conn /\ D'.op = D.op
          /\ D'.pc = "find" /\ D'.ok \in BOOLEAN
          /\ D'.ok => D'.saw = world[D.conn]
      BY <2>0, <2>7 DEF Probe, RecordFailure, Finish, Idle, TypeOK, ProbeCovered, Check
    <3>2. \A d \in Conns : Outstanding(d) => Outstanding(d)'
      BY <3>1 DEF Outstanding
    <3>3. ProbeCovered'
      BY <2>0, <3>1 DEF ProbeCovered, Exists
    <3> QED
      BY <2>0, <3>1, <3>2, <3>3 DEF NeverStale
  <2>8. ASSUME RecordFind("drain") PROVE ProbeCovered' /\ NeverStale'
    <3>1. /\ row' = row /\ world' = world /\ wire' = wire /\ queue' = queue
          /\ pending' = pending /\ stopped' = stopped /\ missed' = missed
          /\ D.pc = "find" /\ Exists(D.conn)
          /\ D'.conn = D.conn /\ D'.op = D.op /\ D'.pc = "save"
          /\ D'.ok = D.ok /\ D'.saw = D.saw
      BY <2>0, <2>8 DEF RecordFind, TypeOK, ProbeCovered, Check
    <3>2. \A d \in Conns : Outstanding(d) => Outstanding(d)'
      BY <3>1 DEF Outstanding
    <3>3. ProbeCovered'
      BY <2>0, <3>1 DEF ProbeCovered, Exists, Queued
    <3> QED
      BY <2>0, <3>1, <3>2, <3>3 DEF NeverStale
  <2>9. ASSUME RecordSave("drain") PROVE ProbeCovered' /\ NeverStale'
    <3>1. /\ world' = world /\ wire' = wire /\ queue' = queue
          /\ pending' = pending /\ stopped' = stopped
          /\ \A d : d \in missed /\ d \notin missed'
                 => d = D.conn /\ D.saw = world[d]
          /\ D.pc = "save" /\ D'.conn = D.conn
          /\ \/ D'.pc = "idle"
             \/ D'.pc = "find" /\ ~D'.ok /\ D'.op = D.op
          /\ row'[D.conn] = Recorded("drain")
          /\ \A d \in Conns : d # D.conn => row'[d] = row[d]
      BY <2>0, <2>9
      DEF RecordSave, RecordFailure, Finish, Idle, TypeOK, Check
    <3>2. \A d \in Conns : d # D.conn /\ Outstanding(d) => Outstanding(d)'
      BY <3>1 DEF Outstanding
    <3>3. D.ok /\ D.saw # world[D.conn] /\ ~stopped
            => Outstanding(D.conn)' \/ D.conn \in missed'
      BY <2>0, <3>1 DEF ProbeCovered, Outstanding, Queued
    <3>4. row'[D.conn].status = "active" /\ row'[D.conn].seen # world[D.conn]
            => D.ok /\ D.saw # world[D.conn]
      BY <3>1 DEF Recorded
    <3>5. row'[D.conn].status # "absent"
      BY <3>1 DEF Recorded
    <3>6. ProbeCovered'
      BY <2>0, <3>1, <3>5 DEF ProbeCovered, Exists
    <3> QED
      BY <2>0, <3>1, <3>2, <3>3, <3>4, <3>6 DEF NeverStale
  <2>10. ASSUME StatementFails("drain") PROVE ProbeCovered' /\ NeverStale'
    <3>1. /\ row' = row /\ world' = world /\ wire' = wire /\ queue' = queue
          /\ pending' = pending /\ stopped' = stopped
          /\ D'.conn = D.conn
          /\ \/ /\ D'.pc = "find" /\ ~D'.ok /\ missed' = missed
                /\ D'.op = D.op /\ D.pc \in {"find", "save"}
             \/ D'.pc = "idle" /\ missed' = missed \cup {D.conn}
      BY <2>0, <2>10
      DEF StatementFails, RecordFailure, Finish, Idle, TypeOK, Check,
          ProbeCovered
    <3>2. \A d \in Conns :
            Outstanding(d) => Outstanding(d)' \/ d \in missed'
      BY <3>1 DEF Outstanding
    <3>3. ProbeCovered'
      BY <2>0, <3>1 DEF ProbeCovered, Exists
    <3> QED
      BY <2>0, <3>1, <3>2, <3>3 DEF NeverStale
  <2>11. CASE UNCHANGED vars
    BY <2>0, <2>11
    DEF vars, QInv, ProbeCovered, NeverStale, Outstanding, Exists, Queued
  <2> QED
    BY <2>1, <2>2, <2>3, <2>4, <2>5, <2>6, <2>7, <2>8, <2>9, <2>10, <2>11
    DEF Next, QInv, Checkers
<1>3. QInv => NeverStale
  BY DEF QInv
<1> QED
  BY <1>1, <1>2, <1>3, PTL DEF Spec

-----------------------------------------------------------------------------
(* The requests of one session.  A refresh in flight is led by the request  *)
(* that refreshInFlight holds; with one API process there is at most one,   *)
(* so a token the row does not have is either on its way there or lost.     *)

RefreshPlaces == {"exchange", "find", "save", "recheck"}

\* Who refreshes is the leader of its replica.
LeadersRefresh == \A q \in AuthRequests : req[q].pc \in RefreshPlaces => leader[req[q].on] = q

\* The session may have ended for one of these reasons.
Excused == expired \/ asked \/ lost

TokensAgree ==
    /\ allowed \/ asked
    /\ removing => asked
    /\ session.tok <= issued /\ \A q \in AuthRequests : req[q].tok <= session.tok
    /\ \A q \in AuthRequests : req[q].pc \in {"find", "save"} => req[q].new = issued
    /\ Excused \/ (session.here /\ ~session.revoked)
    /\ Excused \/ session.tok = issued \/ \E q \in AuthRequests : req[q].pc \in {"find", "save"}
    /\ \A q \in AuthRequests : req[q].pc = "recheck" => Excused \/ session.tok > req[q].tok
    /\ \A q \in AuthRequests : req[q].pc = "revoke" => Excused

\* One API process.
OneReplica == \A p, r \in Replicas : p = r

RequestPlaces == {"idle", "load", "decide", "wait", "exchange", "find", "save", "recheck", "revoke", "role", "logout"}

WorldTypes ==
    /\ session \in SessionRow /\ issued \in Tokens
    /\ expired \in BOOLEAN /\ allowed \in BOOLEAN /\ removing \in BOOLEAN /\ asked \in BOOLEAN /\ lost \in BOOLEAN

RequestTypes ==
    /\ leader \in [Replicas -> AuthRequests \cup {None}]
    /\ req \in [AuthRequests -> AuthRequest]
    /\ \A p \in Replicas : leader[p] # None =>
         req[leader[p]].on = p /\ req[leader[p]].pc \in RefreshPlaces \cup {"revoke"}

LeaderIInv == WorldTypes /\ RequestTypes /\ LeadersRefresh

SessionIInv == LeaderIInv /\ TokensAgree

LEMMA AuthTypesSplit == AuthTypeOK <=> WorldTypes /\ RequestTypes
BY DEF AuthTypeOK, WorldTypes, RequestTypes, RefreshPlaces

LEMMA AtType ==
  ASSUME NEW r \in AuthRequest, NEW l \in RequestPlaces
  PROVE  /\ At(r, l) \in AuthRequest /\ At(r, l).pc = l /\ At(r, l).on = r.on /\ At(r, l).tok <= r.tok
         /\ l # "idle" => At(r, l).tok = r.tok /\ At(r, l).new = r.new
<1>1. r.on \in Replicas /\ r.tok \in Tokens /\ r.new \in Tokens /\ r.tok \in Nat
  BY TokensAssumption DEF AuthRequest, Tokens
<1>2. CASE l = "idle"
  BY <1>1, <1>2, TokensAssumption DEF At, IdleRequest, AuthRequest, Tokens
<1>3. CASE l # "idle"
  BY <1>1, <1>3 DEF At, AuthRequest, RequestPlaces
<1> QED
  BY <1>2, <1>3

\* One request goes on, and the refreshes in flight keep their leaders.
LEMMA MovedRequest ==
  ASSUME RequestTypes, LeadersRefresh, NEW q \in AuthRequests, NEW e \in AuthRequest,
         req' = [req EXCEPT ![q] = e], UNCHANGED leader,
         \/ leader[req[q].on] # q /\ e.pc \notin RefreshPlaces
         \/ leader[req[q].on] = q /\ e.on = req[q].on /\ e.pc \in RefreshPlaces \cup {"revoke"}
  PROVE  RequestTypes' /\ LeadersRefresh'
<1>1. req' \in [AuthRequests -> AuthRequest] /\ req'[q] = e /\ \A r \in AuthRequests \ {q} : req'[r] = req[r]
  BY DEF RequestTypes
<1>2. \A p \in Replicas : leader[p] = q => req[q].on = p
  BY NoneAssumption DEF RequestTypes
<1>3. RequestTypes'
  BY <1>1, <1>2 DEF RequestTypes
<1>4. LeadersRefresh'
  BY <1>1 DEF LeadersRefresh
<1> QED
  BY <1>3, <1>4

\* A refresh is over: its leader and those who waited go on.
LEMMA SettledRefresh ==
  ASSUME RequestTypes, LeadersRefresh, NEW q \in AuthRequests, NEW l \in {"role", "idle"}, SettleAt(q, l),
         leader[req[q].on] = q
  PROVE  /\ RequestTypes' /\ LeadersRefresh'
         /\ \A r \in AuthRequests :
              \/ r # q /\ req'[r] = req[r]
              \/ (r = q \/ req[r].pc = "wait") /\ req'[r].pc = l /\ req'[r].tok <= req[r].tok
<1> DEFINE moved(r) == r = q \/ (req[r].pc = "wait" /\ req[r].on = req[q].on)
<1>1. l \in RequestPlaces /\ req \in [AuthRequests -> AuthRequest] /\ req[q].on \in Replicas
  BY DEF RequestPlaces, RequestTypes, AuthRequest
<1>2. \A r \in AuthRequests : /\ moved(r) => req'[r] = At(req[r], l)
                              /\ ~moved(r) => req'[r] = req[r]
  BY DEF SettleAt
<1>3. \A r \in AuthRequests : /\ At(req[r], l) \in AuthRequest /\ At(req[r], l).pc = l
                              /\ At(req[r], l).on = req[r].on /\ At(req[r], l).tok <= req[r].tok
  BY <1>1, AtType
<1>4. leader' = [leader EXCEPT ![req[q].on] = None]
  BY DEF SettleAt
<1> HIDE DEF moved
<1>5. req' \in [AuthRequests -> AuthRequest]
  <2>1. req' = [r \in AuthRequests |-> req'[r]]
    BY DEF SettleAt
  <2> QED
    BY <1>1, <1>2, <1>3, <2>1
<1>6. \A p \in Replicas : leader'[p] # None => leader[p] = leader'[p] /\ p # req[q].on
  BY <1>1, <1>4 DEF RequestTypes
<1>7. \A p \in Replicas : leader[p] \in AuthRequests /\ p # req[q].on => ~moved(leader[p])
  BY NoneAssumption DEF RequestTypes, RefreshPlaces, moved
<1>8. RequestTypes'
  <2>1. leader' \in [Replicas -> AuthRequests \cup {None}]
    BY <1>4 DEF RequestTypes
  <2>2. \A p \in Replicas : leader'[p] # None => req'[leader'[p]].on = p /\ req'[leader'[p]].pc \in RefreshPlaces \cup {"revoke"}
    BY <1>2, <1>6, <1>7 DEF RequestTypes
  <2> QED
    BY <1>5, <2>1, <2>2 DEF RequestTypes
<1>9. LeadersRefresh'
  <2> SUFFICES ASSUME NEW r \in AuthRequests, req'[r].pc \in RefreshPlaces PROVE leader'[req'[r].on] = r
    BY DEF LeadersRefresh
  <2>1. ~moved(r) /\ req'[r] = req[r] /\ r # q
    BY <1>2, <1>3 DEF RefreshPlaces, moved
  <2>2. leader[req[r].on] = r
    BY <2>1 DEF LeadersRefresh
  <2>3. req[r].on # req[q].on /\ req[r].on \in Replicas
    BY <1>1, <2>1, <2>2 DEF AuthRequest
  <2> QED
    BY <1>4, <2>1, <2>2, <2>3 DEF RequestTypes
<1> QED
  BY <1>2, <1>3, <1>8, <1>9 DEF moved

LEMMA MoveToForm ==
  ASSUME RequestTypes, NEW q \in AuthRequests, NEW l \in RequestPlaces, MoveTo(q, l)
  PROVE  /\ req' = [req EXCEPT ![q] = At(req[q], l)] /\ At(req[q], l) \in AuthRequest
         /\ At(req[q], l).pc = l /\ At(req[q], l).on = req[q].on /\ At(req[q], l).tok <= req[q].tok
         /\ l # "idle" => At(req[q], l).tok = req[q].tok /\ At(req[q], l).new = req[q].new
<1>1. req[q] \in AuthRequest
  BY DEF RequestTypes
<1> QED
  BY <1>1, AtType DEF MoveTo

\* A request that leads nothing, wherever it is.
LEMMA LeadsNothing ==
  ASSUME RequestTypes, NEW q \in AuthRequests, req[q].pc \notin RefreshPlaces \cup {"revoke"}
  PROVE  leader[req[q].on] # q
<1>1. req[q].on \in Replicas
  BY DEF RequestTypes, AuthRequest
<1> QED
  BY <1>1, NoneAssumption DEF RequestTypes

LEMMA BeginLeader ==
  ASSUME WorldTypes, RequestTypes, LeadersRefresh, NEW q \in AuthRequests, BeginRequest(q) \/ LoadSession(q)
  PROVE  RequestTypes' /\ LeadersRefresh'
<1>1. req \in [AuthRequests -> AuthRequest] /\ req[q] \in AuthRequest
  BY DEF RequestTypes
<1>2. req[q].pc \in {"idle", "load"} /\ leader' = leader /\ leader[req[q].on] # q
  BY LeadsNothing DEF BeginRequest, LoadSession, RefreshPlaces
<1>3. \E e \in AuthRequest : req' = [req EXCEPT ![q] = e] /\ e.pc \notin RefreshPlaces
  <2>1. CASE BeginRequest(q)
    <3>1. PICK p \in Replicas, op \in {"use", "logout"} :
             req' = [req EXCEPT ![q].pc = "load", ![q].on = p, ![q].op = op]
      BY <2>1 DEF BeginRequest
    <3> DEFINE e == [req[q] EXCEPT !.pc = "load", !.on = p, !.op = op]
    <3>2. e \in AuthRequest /\ e.pc \notin RefreshPlaces
      BY <1>1 DEF AuthRequest, RefreshPlaces
    <3>3. req' = [req EXCEPT ![q] = e]
      BY <1>1, <3>1
    <3> HIDE DEF e
    <3> QED
      BY <3>2, <3>3
  <2>2. CASE LoadSession(q) /\ SessionActive
    <3> DEFINE e == [req[q] EXCEPT !.pc = "decide", !.tok = session.tok, !.fresh = session.fresh]
    <3>1. e \in AuthRequest /\ e.pc \notin RefreshPlaces
      BY <1>1 DEF AuthRequest, RefreshPlaces, WorldTypes, SessionRow
    <3>2. req' = [req EXCEPT ![q] = e]
      BY <1>1, <2>2 DEF LoadSession
    <3> HIDE DEF e
    <3> QED
      BY <3>1, <3>2
  <2>3. CASE LoadSession(q) /\ ~SessionActive
    <3>1. MoveTo(q, "idle") /\ "idle" \in RequestPlaces /\ "idle" \notin RefreshPlaces
      BY <2>3 DEF LoadSession, RequestPlaces, RefreshPlaces
    <3> QED
      BY <3>1, MoveToForm
  <2> QED
    BY <2>1, <2>2, <2>3
<1> QED
  BY <1>2, <1>3, MovedRequest

LEMMA DecideLeader ==
  ASSUME RequestTypes, LeadersRefresh, NEW q \in AuthRequests, Decide(q)
  PROVE  RequestTypes' /\ LeadersRefresh'
<1>1. leader[req[q].on] # q /\ req[q].on \in Replicas
  BY LeadsNothing DEF Decide, RefreshPlaces, RequestTypes, AuthRequest
<1>2. ASSUME NEW l \in {"role", "revoke", "wait"}, MoveTo(q, l), UNCHANGED leader
      PROVE  RequestTypes' /\ LeadersRefresh'
  <2>1. l \in RequestPlaces /\ l \notin RefreshPlaces
    BY DEF RequestPlaces, RefreshPlaces
  <2> QED
    BY <1>1, <1>2, <2>1, MoveToForm, MovedRequest
<1>3. ASSUME leader[req[q].on] = None, MoveTo(q, "exchange"), leader' = [leader EXCEPT ![req[q].on] = q]
      PROVE  RequestTypes' /\ LeadersRefresh'
  <2> DEFINE e == At(req[q], "exchange")
  <2>1. "exchange" \in RequestPlaces /\ "exchange" \in RefreshPlaces
    BY DEF RequestPlaces, RefreshPlaces
  <2>2. req' = [req EXCEPT ![q] = e] /\ e \in AuthRequest /\ e.pc = "exchange" /\ e.on = req[q].on
    BY <1>3, <2>1, MoveToForm
  <2> HIDE DEF e
  <2>3. req' \in [AuthRequests -> AuthRequest] /\ req'[q] = e /\ \A r \in AuthRequests \ {q} : req'[r] = req[r]
    BY <2>2 DEF RequestTypes
  <2>4. \A p \in Replicas : leader'[p] = IF p = req[q].on THEN q ELSE leader[p]
    BY <1>1, <1>3 DEF RequestTypes
  <2>5. \A p \in Replicas : leader[p] = q => p = req[q].on
    BY NoneAssumption DEF RequestTypes
  <2>6. leader' \in [Replicas -> AuthRequests \cup {None}]
    BY <1>3 DEF RequestTypes
  <2>7. RequestTypes'
    BY <1>1, <1>3, <2>1, <2>2, <2>3, <2>4, <2>5, <2>6 DEF RequestTypes
  <2>8. LeadersRefresh'
    <3> SUFFICES ASSUME NEW r \in AuthRequests, req'[r].pc \in RefreshPlaces PROVE leader'[req'[r].on] = r
      BY DEF LeadersRefresh
    <3>1. CASE r = q
      BY <1>1, <2>2, <2>3, <2>4, <3>1
    <3>2. CASE r # q
      <4>1. leader[req[r].on] = r /\ req[r].on \in Replicas /\ req'[r] = req[r]
        BY <2>3, <3>2 DEF LeadersRefresh, RequestTypes, AuthRequest
      <4>2. req[r].on # req[q].on
        BY <1>3, <4>1, NoneAssumption
      <4> QED
        BY <2>4, <4>1, <4>2
    <3> QED
      BY <3>1, <3>2
  <2> QED
    BY <2>7, <2>8
<1> QED
  BY <1>2, <1>3 DEF Decide

LEMMA EndLeader ==
  ASSUME RequestTypes, LeadersRefresh, NEW q \in AuthRequests, EndRequest(q)
  PROVE  /\ RequestTypes' /\ LeadersRefresh'
         /\ \A r \in AuthRequests :
              \/ r # q /\ req'[r] = req[r]
              \/ (r = q \/ req[r].pc = "wait") /\ req'[r].pc = "idle" /\ req'[r].tok <= req[r].tok
<1>1. CASE leader[req[q].on] = q
  BY <1>1, SettledRefresh DEF EndRequest
<1>2. CASE leader[req[q].on] # q
  <2>1. MoveTo(q, "idle") /\ UNCHANGED leader /\ "idle" \in RequestPlaces /\ "idle" \notin RefreshPlaces
    BY <1>2 DEF EndRequest, RequestPlaces, RefreshPlaces
  <2>2. RequestTypes' /\ LeadersRefresh'
    BY <1>2, <2>1, MoveToForm, MovedRequest
  <2>3. \A r \in AuthRequests : IF r = q THEN req'[r] = At(req[q], "idle") ELSE req'[r] = req[r]
    BY <2>1, MoveToForm DEF RequestTypes
  <2> QED
    BY <2>1, <2>2, <2>3, MoveToForm
<1> QED
  BY <1>1, <1>2

LEMMA ExchangeLeader ==
  ASSUME WorldTypes, RequestTypes, LeadersRefresh, NEW q \in AuthRequests, Exchange(q)
  PROVE  /\ RequestTypes' /\ LeadersRefresh'
         /\ req' \in [AuthRequests -> AuthRequest] /\ \A r \in AuthRequests \ {q} : req'[r] = req[r]
         /\ req'[q].tok = req[q].tok
         /\ \/ req[q].tok = issued /\ issued' = issued + 1 /\ req'[q].pc = "find" /\ req'[q].new = issued'
            \/ req[q].tok # issued /\ issued' = issued /\ req'[q].pc = "recheck"
<1>1. req \in [AuthRequests -> AuthRequest] /\ req[q] \in AuthRequest /\ leader[req[q].on] = q /\ UNCHANGED leader
  BY DEF RequestTypes, LeadersRefresh, RefreshPlaces, Exchange
<1>2. CASE req[q].tok = issued
  <2> DEFINE e == [req[q] EXCEPT !.pc = "find", !.new = issued + 1]
  <2>0. issued + 1 \in Tokens
    BY <1>2, TokensAssumption DEF Exchange, WorldTypes, Tokens
  <2>1. /\ e \in AuthRequest /\ e.pc = "find" /\ e.pc \in RefreshPlaces /\ e.on = req[q].on
        /\ e.tok = req[q].tok /\ e.new = issued + 1
    BY <1>1, <2>0 DEF AuthRequest, RefreshPlaces
  <2>2. req' = [req EXCEPT ![q] = e] /\ issued' = issued + 1
    BY <1>1, <1>2 DEF Exchange
  <2> HIDE DEF e
  <2> QED
    BY <1>1, <1>2, <2>1, <2>2, MovedRequest
<1>3. CASE req[q].tok # issued
  <2>1. MoveTo(q, "recheck") /\ issued' = issued /\ "recheck" \in RequestPlaces /\ "recheck" \in RefreshPlaces
    BY <1>3 DEF Exchange, RequestPlaces, RefreshPlaces
  <2> QED
    BY <1>1, <1>3, <2>1, MoveToForm, MovedRequest
<1> QED
  BY <1>2, <1>3

\* The rest of a request's places.
LEMMA RestLeader ==
  ASSUME RequestTypes, LeadersRefresh, NEW q \in AuthRequests,
         \/ TransientFailure(q) \/ UpdateFind(q) \/ UpdateSave(q) \/ Recheck(q)
         \/ RevokeSession(q) \/ ResolveRole(q) \/ Logout(q) \/ AuthStatementFails(q)
  PROVE  RequestTypes' /\ LeadersRefresh'
<1>1. ASSUME req[q].pc \in RefreshPlaces, NEW l \in {"role", "idle"}, SettleAt(q, l)
      PROVE  RequestTypes' /\ LeadersRefresh'
  BY <1>1, SettledRefresh DEF LeadersRefresh
<1>2. ASSUME req[q].pc \in RefreshPlaces, NEW l \in {"save", "revoke"}, MoveTo(q, l), UNCHANGED leader
      PROVE  RequestTypes' /\ LeadersRefresh'
  <2>1. l \in RequestPlaces /\ l \in RefreshPlaces \cup {"revoke"} /\ leader[req[q].on] = q
    BY <1>2 DEF RequestPlaces, RefreshPlaces, LeadersRefresh
  <2> QED
    BY <1>2, <2>1, MoveToForm, MovedRequest
<1>3. ASSUME req[q].pc \in {"role", "logout"}, NEW l \in {"revoke", "logout", "idle"}, MoveTo(q, l), UNCHANGED leader
      PROVE  RequestTypes' /\ LeadersRefresh'
  <2>1. l \in RequestPlaces /\ l \notin RefreshPlaces /\ leader[req[q].on] # q
    BY <1>3, LeadsNothing DEF RequestPlaces, RefreshPlaces
  <2> QED
    BY <1>3, <2>1, MoveToForm, MovedRequest
<1>4. CASE TransientFailure(q) \/ UpdateFind(q) \/ UpdateSave(q) \/ Recheck(q)
  BY <1>1, <1>2, <1>4 DEF TransientFailure, UpdateFind, UpdateSave, Recheck, RefreshPlaces
<1>5. CASE ResolveRole(q) \/ Logout(q)
  BY <1>3, <1>5 DEF ResolveRole, Logout
<1>6. CASE RevokeSession(q) \/ AuthStatementFails(q)
  BY <1>6, EndLeader DEF RevokeSession, AuthStatementFails
<1> QED
  BY <1>4, <1>5, <1>6

worldVars == <<session, issued, expired, allowed, removing, asked, lost>>

LEMMA QuietStep ==
  ASSUME NEW q \in AuthRequests,
         \/ BeginRequest(q) \/ LoadSession(q) \/ Decide(q) \/ UpdateFind(q) \/ Recheck(q)
         \/ ResolveRole(q) \/ AuthStatementFails(q)
  PROVE  UNCHANGED worldVars
<1>1. CASE BeginRequest(q)
  BY <1>1, Zenon DEF BeginRequest, worldVars
<1>2. CASE LoadSession(q) \/ Decide(q) \/ UpdateFind(q) \/ Recheck(q) \/ ResolveRole(q) \/ AuthStatementFails(q)
  BY <1>2 DEF LoadSession, Decide, UpdateFind, Recheck, ResolveRole, AuthStatementFails, worldVars
<1> QED
  BY <1>1, <1>2

LEMMA WorldStep ==
  ASSUME WorldTypes, RequestTypes, [AuthNext]_authVars
  PROVE  WorldTypes'
<1>1. ASSUME NEW q \in AuthRequests, BeginRequest(q) \/ AuthStep(q)
      PROVE  WorldTypes'
  <2>1. req[q].new \in Tokens
    BY DEF RequestTypes, AuthRequest
  <2>2. CASE \/ BeginRequest(q) \/ LoadSession(q) \/ Decide(q) \/ UpdateFind(q) \/ Recheck(q)
             \/ ResolveRole(q) \/ AuthStatementFails(q)
    BY <2>2, QuietStep DEF WorldTypes, worldVars
  <2>3. CASE Exchange(q) \/ TransientFailure(q)
    <3>1. UNCHANGED <<session, expired, allowed, removing, asked>>
      BY <2>3 DEF Exchange, TransientFailure
    <3>2. issued' = issued \/ (issued < MaxTokens /\ issued' = issued + 1)
      BY <2>3 DEF Exchange, TransientFailure
    <3>3. issued' \in Tokens
      BY <3>2, TokensAssumption DEF WorldTypes, Tokens
    <3>4. lost' \in BOOLEAN
      BY <2>3 DEF Exchange, TransientFailure, WorldTypes
    <3> QED
      BY <3>1, <3>3, <3>4 DEF WorldTypes
  <2>4. CASE UpdateSave(q) \/ RevokeSession(q) \/ Logout(q)
    <3>1. UNCHANGED <<issued, expired, allowed, removing, lost>>
      BY <2>4 DEF UpdateSave, RevokeSession, Logout
    <3>2. asked' \in BOOLEAN
      BY <2>4 DEF UpdateSave, RevokeSession, Logout, WorldTypes
    <3>3. session' \in SessionRow
      <4>1. CASE UpdateSave(q)
        BY <2>1, <4>1 DEF UpdateSave, SessionRow
      <4>2. CASE RevokeSession(q) \/ Logout(q)
        <5>1. session' = [session EXCEPT !.revoked = TRUE]
          BY <4>2 DEF RevokeSession, Logout
        <5> QED
          BY <5>1 DEF WorldTypes, SessionRow
      <4> QED
        BY <2>4, <4>1, <4>2
    <3> QED
      BY <3>1, <3>2, <3>3 DEF WorldTypes
  <2> QED
    BY <1>1, <2>2, <2>3, <2>4 DEF AuthStep
<1>2. CASE RemoveAdmin \/ RevokeAllByUserId \/ RestoreAdmin \/ TokenAges \/ SessionExpires \/ DeleteExpired
  BY <1>2 DEF WorldTypes, SessionRow, RemoveAdmin, RevokeAllByUserId, RestoreAdmin, TokenAges, SessionExpires, DeleteExpired
<1>3. CASE UNCHANGED authVars
  BY <1>3 DEF WorldTypes, authVars
<1> QED
  BY <1>1, <1>2, <1>3 DEF AuthNext

LEMMA LeaderNext == LeaderIInv /\ [AuthNext]_authVars => LeaderIInv'
<1> SUFFICES ASSUME WorldTypes, RequestTypes, LeadersRefresh, [AuthNext]_authVars
             PROVE  RequestTypes' /\ LeadersRefresh'
  BY WorldStep DEF LeaderIInv
<1>1. ASSUME NEW q \in AuthRequests, BeginRequest(q) \/ AuthStep(q)
      PROVE  RequestTypes' /\ LeadersRefresh'
  BY <1>1, BeginLeader, DecideLeader, ExchangeLeader, RestLeader DEF AuthStep
<1>2. CASE RemoveAdmin \/ RevokeAllByUserId \/ RestoreAdmin \/ TokenAges \/ SessionExpires \/ DeleteExpired
  BY <1>2 DEF RequestTypes, LeadersRefresh, RemoveAdmin, RevokeAllByUserId, RestoreAdmin, TokenAges, SessionExpires, DeleteExpired
<1>3. CASE UNCHANGED authVars
  BY <1>3 DEF RequestTypes, LeadersRefresh, authVars
<1> QED
  BY <1>1, <1>2, <1>3 DEF AuthNext

LEMMA AuthInitTypes == AuthInit => LeaderIInv
<1> SUFFICES ASSUME AuthInit PROVE LeaderIInv
  OBVIOUS
<1>1. \A p \in Replicas : IdleRequest(p) \in AuthRequest /\ IdleRequest(p).pc = "idle"
  BY TokensAssumption DEF IdleRequest, AuthRequest, Tokens
<1>2. WorldTypes
  <2>1. 0 \in Tokens
    BY TokensAssumption DEF Tokens
  <2>2. session \in SessionRow /\ issued \in Tokens
    BY <2>1 DEF AuthInit, SessionRow
  <2>3. expired \in BOOLEAN /\ allowed \in BOOLEAN /\ removing \in BOOLEAN /\ asked \in BOOLEAN /\ lost \in BOOLEAN
    BY Zenon DEF AuthInit
  <2> QED
    BY <2>2, <2>3 DEF WorldTypes
<1>3. RequestTypes
  BY <1>1 DEF AuthInit, RequestTypes
<1>4. LeadersRefresh
  BY <1>1 DEF AuthInit, LeadersRefresh, RefreshPlaces
<1> QED
  BY <1>2, <1>3, <1>4 DEF LeaderIInv

LEMMA LeaderIInvHolds == AuthSpec => []LeaderIInv
BY AuthInitTypes, LeaderNext, PTL DEF AuthSpec

\* For any number of API processes and requests: the types, and a refresh in flight is led
\* by a request of its process that is working on it (refreshInFlight,
\* auth.service.ts).
THEOREM RefreshesAreLed == AuthSpec => []AuthTypeOK
<1>1. LeaderIInv => AuthTypeOK
  BY AuthTypesSplit DEF LeaderIInv
<1> QED
  BY <1>1, LeaderIInvHolds, PTL

\* With one process, only one request refreshes at a time.
LEMMA OneRefresh ==
  ASSUME OneReplica, LeaderIInv, NEW q \in AuthRequests, NEW r \in AuthRequests,
         req[q].pc \in RefreshPlaces, req[r].pc \in RefreshPlaces
  PROVE  q = r
BY DEF OneReplica, LeaderIInv, LeadersRefresh, RequestTypes, AuthRequest

\* A request goes on, in a step that moves no token: it stays at its refresh, or leaves it
\* when the session may end, or asks to revoke when it may.
GoesOn(r) ==
    \/ req'[r] = req[r]
    \/ /\ req[r].pc \in {"find", "save"} /\ req'[r].pc \in {"find", "save"}
       /\ req'[r].tok = req[r].tok /\ req'[r].new = req[r].new
    \/ /\ req'[r].tok <= session.tok /\ req'[r].pc \notin {"find", "save", "recheck"}
       /\ req'[r].pc = "revoke" => Excused'
       /\ req[r].pc \in {"find", "save"} => Excused'

LEMMA TokensKept ==
  ASSUME TokensAgree, UNCHANGED issued, session'.tok = session.tok, Excused => Excused',
         allowed' \/ asked', removing' => asked', Excused' \/ (session'.here /\ ~session'.revoked),
         \A r \in AuthRequests : GoesOn(r)
  PROVE  TokensAgree'
<1>1. session'.tok <= issued' /\ \A r \in AuthRequests : req'[r].tok <= session'.tok
  BY DEF TokensAgree, GoesOn
<1>2. \A r \in AuthRequests : req'[r].pc \in {"find", "save"} => req'[r].new = issued'
  BY DEF TokensAgree, GoesOn
<1>3. Excused' \/ session'.tok = issued' \/ \E r \in AuthRequests : req'[r].pc \in {"find", "save"}
  BY DEF TokensAgree, GoesOn
<1>4. \A r \in AuthRequests : req'[r].pc = "recheck" => Excused' \/ session'.tok > req'[r].tok
  BY DEF TokensAgree, GoesOn
<1>5. \A r \in AuthRequests : req'[r].pc = "revoke" => Excused'
  BY DEF TokensAgree, GoesOn
<1> QED
  BY <1>1, <1>2, <1>3, <1>4, <1>5 DEF TokensAgree

\* The same for a step that touches neither the session nor the world around it.
LEMMA QuietTokens ==
  ASSUME TokensAgree, UNCHANGED <<session, issued, expired, allowed, removing, asked, lost>>,
         \A r \in AuthRequests : GoesOn(r)
  PROVE  TokensAgree'
BY TokensKept DEF TokensAgree, Excused

\* One request moves, and does not refresh.
LEMMA MovedTokens ==
  ASSUME LeaderIInv, NEW q \in AuthRequests, NEW l \in RequestPlaces, MoveTo(q, l),
         TokensAgree, l \notin {"find", "save", "recheck"}, l = "revoke" => Excused',
         req[q].pc \notin {"find", "save"}
  PROVE  \A r \in AuthRequests : GoesOn(r)
<1>1. \A r \in AuthRequests : IF r = q THEN req'[r] = At(req[q], l) ELSE req'[r] = req[r]
  BY MoveToForm DEF LeaderIInv, RequestTypes
<1>2. At(req[q], l).pc = l /\ At(req[q], l).tok <= req[q].tok /\ At(req[q], l) \in AuthRequest
  BY MoveToForm DEF LeaderIInv
<1>3. At(req[q], l).tok <= session.tok
  <2>1. /\ At(req[q], l).tok \in Int /\ req[q].tok \in Int /\ session.tok \in Int
        /\ req[q].tok <= session.tok
    BY <1>2, TokensAssumption DEF LeaderIInv, RequestTypes, WorldTypes, AuthRequest, SessionRow, Tokens, TokensAgree
  <2> QED
    BY <1>2, <2>1
<1> QED
  BY <1>1, <1>2, <1>3 DEF GoesOn

\* A refresh settles, without its token when the session may end.
LEMMA SettledTokens ==
  ASSUME LeaderIInv, LeaderIInv', TokensAgree, NEW q \in AuthRequests, NEW l \in {"role", "idle"},
         \A r \in AuthRequests :
           \/ r # q /\ req'[r] = req[r]
           \/ (r = q \/ req[r].pc = "wait") /\ req'[r].pc = l /\ req'[r].tok <= req[r].tok,
         req[q].pc \in {"find", "save"} => Excused'
  PROVE  \A r \in AuthRequests : GoesOn(r)
<1>1. \A r \in AuthRequests : /\ req[r].tok \in Int /\ req'[r].tok \in Int /\ req[r].tok <= session.tok
                              /\ session.tok \in Int
  BY TokensAssumption DEF LeaderIInv, RequestTypes, WorldTypes, AuthRequest, SessionRow, Tokens, TokensAgree
<1> QED
  BY <1>1 DEF GoesOn

LEMMA BeginTokens ==
  ASSUME LeaderIInv, TokensAgree, NEW q \in AuthRequests, BeginRequest(q)
  PROVE  TokensAgree'
<1>1. req \in [AuthRequests -> AuthRequest] /\ req[q].pc = "idle"
  BY DEF LeaderIInv, RequestTypes, BeginRequest
<1>2. PICK p \in Replicas, op \in {"use", "logout"} : req' = [req EXCEPT ![q].pc = "load", ![q].on = p, ![q].op = op]
  BY Zenon DEF BeginRequest
<1> DEFINE e == [req[q] EXCEPT !.pc = "load", !.on = p, !.op = op]
<1>3. e.pc = "load" /\ e.tok = req[q].tok
  BY <1>1 DEF AuthRequest
<1>4. req' = [req EXCEPT ![q] = e]
  BY <1>1, <1>2
<1> HIDE DEF e
<1>5. \A r \in AuthRequests : GoesOn(r)
  BY <1>1, <1>3, <1>4 DEF GoesOn, TokensAgree
<1>6. UNCHANGED worldVars
  BY QuietStep
<1> QED
  BY <1>5, <1>6, QuietTokens DEF worldVars

LEMMA LoadTokens ==
  ASSUME LeaderIInv, TokensAgree, NEW q \in AuthRequests, LoadSession(q) \/ Decide(q) \/ ResolveRole(q)
  PROVE  TokensAgree'
<1>1. req \in [AuthRequests -> AuthRequest] /\ session \in SessionRow /\ session.tok <= session.tok
  BY TokensAssumption DEF LeaderIInv, RequestTypes, WorldTypes, SessionRow, Tokens
<1>2. UNCHANGED worldVars /\ Excused' = Excused
  BY QuietStep DEF worldVars, Excused
<1>3. CASE LoadSession(q) /\ SessionActive
  <2> DEFINE e == [req[q] EXCEPT !.pc = "decide", !.tok = session.tok, !.fresh = session.fresh]
  <2>1. e.pc = "decide" /\ e.tok = session.tok
    BY <1>1 DEF AuthRequest
  <2>2. req' = [req EXCEPT ![q] = e] /\ req[q].pc = "load"
    BY <1>1, <1>3 DEF LoadSession
  <2> HIDE DEF e
  <2>3. \A r \in AuthRequests : GoesOn(r)
    BY <1>1, <2>1, <2>2 DEF GoesOn
  <2> QED
    BY <1>2, <2>3, QuietTokens DEF worldVars
<1>4. CASE \E l \in {"idle", "role", "wait", "exchange", "logout", "revoke"} :
             MoveTo(q, l) /\ req[q].pc \in {"load", "decide", "role"} /\ (l = "revoke" => Excused)
  <2>1. PICK l \in {"idle", "role", "wait", "exchange", "logout", "revoke"} :
             MoveTo(q, l) /\ req[q].pc \in {"load", "decide", "role"} /\ (l = "revoke" => Excused)
    BY <1>4
  <2>2. l \in RequestPlaces /\ l \notin {"find", "save", "recheck"} /\ req[q].pc \notin {"find", "save"}
    BY <2>1 DEF RequestPlaces
  <2>3. \A r \in AuthRequests : GoesOn(r)
    BY <1>2, <2>1, <2>2, MovedTokens
  <2> QED
    BY <1>2, <2>3, QuietTokens DEF worldVars
<1>5. expired => Excused
  BY DEF Excused
<1>6. ~allowed => Excused
  BY DEF Excused, TokensAgree
<1>7. CASE LoadSession(q) /\ ~SessionActive
  BY <1>4, <1>7 DEF LoadSession
<1>8. CASE Decide(q)
  BY <1>4, <1>5, <1>8 DEF Decide
<1>9. CASE ResolveRole(q)
  BY <1>4, <1>6, <1>9 DEF ResolveRole
<1> QED
  BY <1>3, <1>7, <1>8, <1>9

LEMMA ExchangeTokens ==
  ASSUME OneReplica, LeaderIInv, TokensAgree, NEW q \in AuthRequests, Exchange(q)
  PROVE  TokensAgree'
<1>1. /\ \A r \in AuthRequests \ {q} : req'[r] = req[r]
      /\ req'[q].tok = req[q].tok
      /\ \/ req[q].tok = issued /\ issued' = issued + 1 /\ req'[q].pc = "find" /\ req'[q].new = issued'
         \/ req[q].tok # issued /\ issued' = issued /\ req'[q].pc = "recheck"
  BY ExchangeLeader DEF LeaderIInv
<1>2. req[q].pc = "exchange" /\ UNCHANGED <<session, expired, allowed, removing, asked, lost>> /\ Excused' = Excused
  BY DEF Exchange, Excused
<1>3. \A r \in AuthRequests : r # q => req[r].pc \notin RefreshPlaces
  BY <1>2, OneRefresh DEF RefreshPlaces
<1>4. issued \in Int /\ session.tok \in Int /\ \A r \in AuthRequests : req[r].tok \in Int
  BY TokensAssumption DEF LeaderIInv, RequestTypes, WorldTypes, AuthRequest, SessionRow, Tokens
<1>5. ~Excused => session.tok = issued
  BY <1>2, <1>3 DEF TokensAgree, RefreshPlaces
<1>6. session'.tok <= issued' /\ \A r \in AuthRequests : req'[r].tok <= session'.tok
  BY <1>1, <1>2, <1>4 DEF TokensAgree
<1>7. \A r \in AuthRequests : req'[r].pc \in {"find", "save"} => req'[r].new = issued'
  BY <1>1, <1>3 DEF RefreshPlaces
<1>8. Excused' \/ session'.tok = issued' \/ \E r \in AuthRequests : req'[r].pc \in {"find", "save"}
  BY <1>1, <1>2, <1>5
<1>9. \A r \in AuthRequests : req'[r].pc = "recheck" => Excused' \/ session'.tok > req'[r].tok
  BY <1>1, <1>2, <1>3, <1>4, <1>5, <1>6 DEF RefreshPlaces
<1>10. \A r \in AuthRequests : req'[r].pc = "revoke" => Excused'
  BY <1>1, <1>2 DEF TokensAgree
<1> QED
  BY <1>2, <1>6, <1>7, <1>8, <1>9, <1>10 DEF TokensAgree

LEMMA FailureTokens ==
  ASSUME OneReplica, LeaderIInv, LeaderIInv', TokensAgree, NEW q \in AuthRequests, TransientFailure(q)
  PROVE  TokensAgree'
<1>1. /\ req[q].pc \in RefreshPlaces /\ req[q].pc # "recheck" /\ SettleAt(q, "role")
      /\ UNCHANGED <<session, expired, allowed, removing, asked>> /\ (lost => lost')
  BY DEF TransientFailure, RefreshPlaces
<1>2. \A r \in AuthRequests :
         \/ r # q /\ req'[r] = req[r]
         \/ (r = q \/ req[r].pc = "wait") /\ req'[r].pc = "role" /\ req'[r].tok <= req[r].tok
  BY <1>1, SettledRefresh DEF LeaderIInv, LeadersRefresh
<1>3. Excused => Excused'
  BY <1>1 DEF Excused
<1>4. CASE UNCHANGED issued /\ lost' = (lost \/ req[q].pc # "exchange")
  <2>1. req[q].pc \in {"find", "save"} => Excused'
    BY <1>4 DEF Excused
  <2>2. \A r \in AuthRequests : GoesOn(r)
    BY <1>2, <2>1, SettledTokens
  <2> QED
    BY <1>1, <1>3, <1>4, <2>2, TokensKept DEF TokensAgree
<1>5. CASE issued' = issued + 1 /\ lost'
  <2>1. Excused'
    BY <1>5 DEF Excused
  <2>2. /\ issued \in Int /\ session.tok \in Int
        /\ \A r \in AuthRequests : req[r].tok \in Int /\ req'[r].tok \in Int
    BY TokensAssumption DEF LeaderIInv, RequestTypes, WorldTypes, AuthRequest, SessionRow, Tokens
  <2>3. session'.tok <= issued' /\ \A r \in AuthRequests : req'[r].tok <= session'.tok
    BY <1>1, <1>2, <1>5, <2>2 DEF TokensAgree
  <2>4. \A r \in AuthRequests : req'[r].pc \notin {"find", "save"}
    BY <1>1, <1>2, OneRefresh DEF RefreshPlaces
  <2> QED
    BY <1>1, <2>1, <2>3, <2>4 DEF TokensAgree
<1> QED
  BY <1>4, <1>5 DEF TransientFailure

LEMMA FindTokens ==
  ASSUME LeaderIInv, LeaderIInv', TokensAgree, NEW q \in AuthRequests, UpdateFind(q) \/ Recheck(q)
  PROVE  TokensAgree'
<1>1. UNCHANGED worldVars /\ Excused' = Excused
  BY QuietStep DEF worldVars, Excused
<1>2. ~SessionActive => Excused
  BY DEF SessionActive, Excused, TokensAgree
<1>3. req[q].pc \in RefreshPlaces /\ leader[req[q].on] = q
  BY DEF UpdateFind, Recheck, RefreshPlaces, LeaderIInv, LeadersRefresh
<1>4. ASSUME NEW l \in {"role", "idle"}, SettleAt(q, l), req[q].pc \in {"find", "save"} => Excused
      PROVE  \A r \in AuthRequests : GoesOn(r)
  <2>1. \A r \in AuthRequests :
           \/ r # q /\ req'[r] = req[r]
           \/ (r = q \/ req[r].pc = "wait") /\ req'[r].pc = l /\ req'[r].tok <= req[r].tok
    BY <1>3, <1>4, SettledRefresh DEF LeaderIInv
  <2> QED
    BY <1>1, <1>4, <2>1, SettledTokens
<1>5. CASE UpdateFind(q) /\ SessionActive
  <2>1. MoveTo(q, "save") /\ req[q].pc = "find" /\ "save" \in RequestPlaces
    BY <1>5 DEF UpdateFind, RequestPlaces
  <2>2. \A r \in AuthRequests : IF r = q THEN req'[r] = At(req[q], "save") ELSE req'[r] = req[r]
    BY <2>1, MoveToForm DEF LeaderIInv, RequestTypes
  <2>3. At(req[q], "save").pc = "save" /\ At(req[q], "save").tok = req[q].tok /\ At(req[q], "save").new = req[q].new
    BY <2>1, MoveToForm DEF LeaderIInv
  <2> QED
    BY <1>1, <2>1, <2>2, <2>3, QuietTokens DEF GoesOn, worldVars
<1>6. CASE UpdateFind(q) /\ ~SessionActive
  <2>1. SettleAt(q, "idle")
    BY <1>6 DEF UpdateFind
  <2> QED
    BY <1>1, <1>2, <1>4, <1>6, <2>1, QuietTokens DEF worldVars
<1>7. CASE Recheck(q) /\ SettleAt(q, "role")
  <2>1. req[q].pc = "recheck"
    BY <1>7 DEF Recheck
  <2> QED
    BY <1>1, <1>4, <1>7, <2>1, QuietTokens DEF worldVars
<1>8. CASE Recheck(q) /\ ~(SessionActive /\ session.tok > req[q].tok)
  <2>1. MoveTo(q, "revoke") /\ req[q].pc = "recheck" /\ "revoke" \in RequestPlaces
    BY <1>8 DEF Recheck, RequestPlaces
  <2>2. Excused
    BY <1>2, <1>8, <2>1 DEF TokensAgree
  <2>3. \A r \in AuthRequests : GoesOn(r)
    BY <1>1, <2>1, <2>2, MovedTokens
  <2> QED
    BY <1>1, <2>3, QuietTokens DEF worldVars
<1> QED
  BY <1>5, <1>6, <1>7, <1>8 DEF Recheck

LEMMA SaveTokens ==
  ASSUME OneReplica, LeaderIInv, LeaderIInv', TokensAgree, NEW q \in AuthRequests, UpdateSave(q)
  PROVE  TokensAgree'
<1>1. /\ req[q].pc = "save" /\ req[q].pc \in RefreshPlaces /\ SettleAt(q, "role")
      /\ session' = [here |-> TRUE, revoked |-> FALSE, tok |-> req[q].new, fresh |-> TRUE]
      /\ UNCHANGED <<issued, expired, allowed, removing, asked, lost>>
  BY DEF UpdateSave, RefreshPlaces
<1>2. \A r \in AuthRequests :
         \/ r # q /\ req'[r] = req[r]
         \/ (r = q \/ req[r].pc = "wait") /\ req'[r].pc = "role" /\ req'[r].tok <= req[r].tok
  BY <1>1, SettledRefresh DEF LeaderIInv, LeadersRefresh
<1>3. session'.tok = issued /\ session'.here /\ ~session'.revoked
  BY <1>1 DEF TokensAgree
<1>4. /\ issued \in Int /\ session.tok \in Int /\ session.tok <= issued
      /\ \A r \in AuthRequests : req[r].tok \in Int /\ req'[r].tok \in Int /\ req[r].tok <= session.tok
  BY TokensAssumption DEF LeaderIInv, RequestTypes, WorldTypes, AuthRequest, SessionRow, Tokens, TokensAgree
<1>5. session'.tok <= issued' /\ \A r \in AuthRequests : req'[r].tok <= session'.tok
  BY <1>1, <1>2, <1>3, <1>4
<1>6. \A r \in AuthRequests : req'[r].pc \notin {"find", "save", "recheck"}
  BY <1>1, <1>2, OneRefresh DEF RefreshPlaces
<1>7. \A r \in AuthRequests : req'[r].pc = "revoke" => Excused'
  BY <1>1, <1>2 DEF TokensAgree, Excused
<1> QED
  BY <1>1, <1>3, <1>5, <1>6, <1>7 DEF TokensAgree

LEMMA EndTokens ==
  ASSUME LeaderIInv, LeaderIInv', TokensAgree, NEW q \in AuthRequests,
         RevokeSession(q) \/ Logout(q) \/ AuthStatementFails(q)
  PROVE  TokensAgree'
<1>1. /\ UNCHANGED <<issued, expired, allowed, removing, lost>> /\ (asked => asked')
      /\ req[q].pc \notin {"find", "save"}
      /\ session' = session \/ session' = [session EXCEPT !.revoked = TRUE]
  BY DEF RevokeSession, Logout, AuthStatementFails
<1>2. Excused => Excused'
  BY <1>1 DEF Excused
<1>3. session'.tok = session.tok
  BY <1>1 DEF LeaderIInv, WorldTypes, SessionRow
<1>4. Excused' \/ (session'.here /\ ~session'.revoked)
  <2>1. CASE RevokeSession(q)
    BY <1>2, <2>1 DEF RevokeSession, TokensAgree
  <2>2. CASE Logout(q)
    BY <2>2 DEF Logout, Excused
  <2>3. CASE AuthStatementFails(q)
    BY <1>2, <2>3 DEF AuthStatementFails, TokensAgree
  <2> QED
    BY <2>1, <2>2, <2>3
<1>5. \A r \in AuthRequests : GoesOn(r)
  <2>1. CASE Logout(q)
    <3>1. MoveTo(q, "idle") /\ "idle" \in RequestPlaces
      BY <2>1 DEF Logout, RequestPlaces
    <3> QED
      BY <1>1, <3>1, MovedTokens
  <2>2. CASE EndRequest(q)
    BY <1>1, <2>2, EndLeader, SettledTokens DEF LeaderIInv
  <2> QED
    BY <2>1, <2>2 DEF RevokeSession, AuthStatementFails
<1>6. allowed' \/ asked'
  BY <1>1 DEF TokensAgree
<1>7. removing' => asked'
  BY <1>1 DEF TokensAgree
<1> QED
  BY <1>1, <1>2, <1>3, <1>4, <1>5, <1>6, <1>7, TokensKept

LEMMA AroundTokens ==
  ASSUME LeaderIInv, TokensAgree,
         RemoveAdmin \/ RevokeAllByUserId \/ RestoreAdmin \/ TokenAges \/ SessionExpires \/ DeleteExpired
  PROVE  TokensAgree'
<1>1. UNCHANGED <<issued, req>> /\ (Excused => Excused')
  BY DEF RemoveAdmin, RevokeAllByUserId, RestoreAdmin, TokenAges, SessionExpires, DeleteExpired, Excused
<1>2. session'.tok = session.tok
  BY DEF RemoveAdmin, RevokeAllByUserId, RestoreAdmin, TokenAges, SessionExpires, DeleteExpired,
         LeaderIInv, WorldTypes, SessionRow
<1>3. Excused' \/ (session'.here /\ ~session'.revoked)
  BY DEF RemoveAdmin, RevokeAllByUserId, RestoreAdmin, TokenAges, SessionExpires, DeleteExpired,
         LeaderIInv, WorldTypes, SessionRow, TokensAgree, Excused
<1>4. allowed' \/ asked'
  BY DEF RemoveAdmin, RevokeAllByUserId, RestoreAdmin, TokenAges, SessionExpires, DeleteExpired, TokensAgree
<1>5. removing' => asked'
  BY DEF RemoveAdmin, RevokeAllByUserId, RestoreAdmin, TokenAges, SessionExpires, DeleteExpired, TokensAgree
<1> QED
  BY <1>1, <1>2, <1>3, <1>4, <1>5, TokensKept DEF GoesOn

LEMMA TokensNext == OneReplica /\ SessionIInv /\ [AuthNext]_authVars => TokensAgree'
<1> SUFFICES ASSUME OneReplica, LeaderIInv, TokensAgree, [AuthNext]_authVars, LeaderIInv' PROVE TokensAgree'
  BY LeaderNext DEF SessionIInv
<1>1. ASSUME NEW q \in AuthRequests, BeginRequest(q) \/ AuthStep(q) PROVE TokensAgree'
  BY <1>1, BeginTokens, LoadTokens, ExchangeTokens, FailureTokens, FindTokens, SaveTokens, EndTokens DEF AuthStep
<1>2. CASE UNCHANGED authVars
  BY <1>2, QuietTokens DEF authVars, GoesOn
<1> QED
  BY <1>1, <1>2, AroundTokens DEF AuthNext

LEMMA TokensInit == AuthInit => TokensAgree
<1> SUFFICES ASSUME AuthInit PROVE TokensAgree
  OBVIOUS
<1>1. \A q \in AuthRequests : req[q].tok = 0 /\ req[q].pc = "idle"
  BY DEF AuthInit, IdleRequest
<1> QED
  BY <1>1 DEF AuthInit, TokensAgree, Excused

\* One API process and any number of requests: besides, no refresh signs its user out
\* (performRefresh, handleRefreshFailure and updateAfterRefresh).  With two processes the
\* second may find the token rotated and the row not yet written, and revoke.
THEOREM SessionIsSafe == OneReplica /\ AuthSpec => []SessionInv
<1> SUFFICES ASSUME OneReplica PROVE AuthSpec => []SessionInv
  OBVIOUS
<1>1. SessionIInv /\ [AuthNext]_authVars => SessionIInv'
  BY TokensNext, LeaderNext DEF SessionIInv
<1>2. AuthInit => SessionIInv
  BY AuthInitTypes, TokensInit DEF SessionIInv
<1>3. SessionIInv => SessionInv
  <2> SUFFICES ASSUME SessionIInv PROVE SessionInv
    OBVIOUS
  <2>1. AuthTypeOK
    BY AuthTypesSplit DEF SessionIInv, LeaderIInv
  <2>2. SessionSurvives
    BY DEF SessionIInv, TokensAgree, SessionSurvives, SessionActive, Excused
  <2> QED
    BY <2>1, <2>2 DEF SessionInv
<1> QED
  BY <1>1, <1>2, <1>3, PTL DEF AuthSpec

=============================================================================
