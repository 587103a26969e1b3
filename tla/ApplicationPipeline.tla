------------------------ MODULE ApplicationPipeline ------------------------
(***************************************************************************)
(* One student application and the requests that move it through the       *)
(* pipeline (backend/app/routers/applications.py), each run by a thread of *)
(* the server's pool over a database transaction of its own, with the      *)
(* notifications and e-mails sent on the way                               *)
(* (backend/app/services/notifications.py).                                *)
(*                                                                         *)
(* The four endpoints (advance, mark-enrolled, mark-rejected,              *)
(* mark-withdrawn) are one handler that differs in the target stage.  It   *)
(* reads the application, checks the move against what it read, flushes    *)
(* the new stage, the history row and the student's notification, mails    *)
(* the student, flushes the counselor's notification, mails the counselor, *)
(* commits, and reads its rows back for the answer.  Nothing locks the     *)
(* application between the read and the first flush; from that flush on    *)
(* the database's row lock keeps other writers out until the transaction   *)
(* ends.  Other transactions see only what is committed.                   *)
(***************************************************************************)
EXTENDS Integers, PipelineStages

CONSTANTS
  Threads,        \* threads of the server's pool
  Staff,          \* the tenant's staff accounts
  Student,        \* the student who owns the application
  NoUser,         \* no counselor assigned
  NoThread,       \* the application's row is not locked
  Role,           \* [Staff -> role]
  BranchOf,       \* [Staff -> branch]
  AppBranch,      \* the application's branch
  StartStages,    \* stages the application may be in at the start
  TargetStages,   \* stages clients ask for
  Faults,         \* kinds of fault that may strike, a subset of FaultKinds
  MaxFaults,      \* bound: how many of them do
  MaxRequests     \* bound: stage requests in a behavior

FaultKinds ==
  {"read", "flush", "reload", "mail", "commit", "refresh", "crash"}

AdvanceRoles == {"consultancy_owner", "branch_manager", "counselor"}

ReassignRoles == {"consultancy_owner", "branch_manager", "receptionist"}

BranchScopedRoles == {"counselor", "branch_manager", "receptionist"}

Counselors == {u \in Staff : Role[u] = "counselor"}

ASSUME PipelineAssumption ==
  /\ NoThread \notin Threads
  /\ NoUser \notin Staff /\ Student \notin Staff /\ Student # NoUser
  /\ StartStages \subseteq Stages
  /\ TargetStages \subseteq Stages
  /\ Faults \subseteq FaultKinds
  /\ MaxFaults \in Nat
  /\ MaxRequests \in Nat

VARIABLES
  stage,       \* committed Application.stage
  counselor,   \* committed Application.assigned_counselor_id
  history,     \* committed StageHistory rows
  inbox,       \* committed notifications, as <<request, recipient>>
  mailed,      \* e-mails handed to the transport, as <<request, recipient>>
  nextRowId,   \* the history table's id sequence; no rollback rewinds it
  lock,        \* thread whose transaction holds the application's row lock
  at,          \* the step of its request each thread is at
  job,         \* the request each thread runs, and what it read for it
  txn,         \* what each thread's transaction has flushed
  requests,    \* stage requests received so far; numbers them
  answers,     \* answers given, as <<request, code>>
  faults       \* faults so far

db == <<stage, counselor, history, inbox>>

vars == <<stage, counselor, history, inbox, mailed, nextRowId, lock, at, job,
          txn, requests, answers, faults>>

Users == Staff \cup {Student}

Codes == {200, 403, 422, 500, 503, 0}   \* 0: the process died, no answer

Steps == {"idle", "student_row", "student_mail", "counselor_row",
          "counselor_mail", "commit", "refresh"}

HistoryRow == [id : Nat \ {0}, request : Nat, from : Stages, to : Stages,
               by : Staff]

Job == [request : Nat, actor : Staff \cup {NoUser},
        from : Stages \cup {"none"}, to : Stages \cup {"none"},
        counselor : Counselors \cup {NoUser}]

(* rowId is the id of the flushed history row, 0 if the transaction holds  *)
(* neither the row nor the new stage; notes are the recipients of its      *)
(* notifications.                                                          *)
Txn == [rowId : Nat, notes : SUBSET Users]

NoJob == [request |-> 0, actor |-> NoUser, from |-> "none", to |-> "none",
          counselor |-> NoUser]

NoWrites == [rowId |-> 0, notes |-> {}]

TypeOK ==
  /\ stage \in Stages
  /\ counselor \in Counselors \cup {NoUser}
  /\ history \subseteq HistoryRow
  /\ inbox \subseteq (Nat \X Users)
  /\ mailed \subseteq (Nat \X Users)
  /\ nextRowId \in Nat \ {0}
  /\ lock \in Threads \cup {NoThread}
  /\ at \in [Threads -> Steps]
  /\ job \in [Threads -> Job]
  /\ txn \in [Threads -> Txn]
  /\ requests \in Nat
  /\ answers \subseteq (Nat \X Codes)
  /\ faults \in Nat

Init ==
  /\ stage \in StartStages
  /\ counselor \in {c \in Counselors : BranchOf[c] = AppBranch} \cup {NoUser}
  /\ history = {} /\ inbox = {} /\ mailed = {} /\ answers = {}
  /\ nextRowId = 1
  /\ lock = NoThread
  /\ at = [t \in Threads |-> "idle"]
  /\ job = [t \in Threads |-> NoJob]
  /\ txn = [t \in Threads |-> NoWrites]
  /\ requests = 0
  /\ faults = 0

-----------------------------------------------------------------------------
Strike(kind) ==
  /\ kind \in Faults
  /\ faults < MaxFaults
  /\ faults' = faults + 1

NoFault == UNCHANGED faults

Running(t) == at[t] # "idle"

(* A thread whose request ends: the session is closed, which rolls back    *)
(* what is uncommitted and frees the row lock.                             *)
Unlocked(t) == IF lock = t THEN NoThread ELSE lock

Answer(t, code) ==
  /\ answers' = answers \cup {<<job[t].request, code>>}
  /\ at' = [at EXCEPT ![t] = "idle"]
  /\ job' = [job EXCEPT ![t] = NoJob]
  /\ txn' = [txn EXCEPT ![t] = NoWrites]
  /\ lock' = Unlocked(t)

Goto(t, from, to) == at[t] = from /\ at' = [at EXCEPT ![t] = to]

-----------------------------------------------------------------------------
(* The checks of the handler, in their order: permission, branch, rule.    *)
InBranchScope(u) ==
  Role[u] \in BranchScopedRoles => BranchOf[u] = AppBranch

(* Mutant: the handler forgets validate_transition.                        *)
RefusalCodeWithoutRules(u, to) ==
  IF Role[u] \in AdvanceRoles /\ InBranchScope(u) THEN 200 ELSE 403

RefusalCode(u, to) ==
  CASE Role[u] \notin AdvanceRoles           -> 403
    [] ~InBranchScope(u)                     -> 403
    [] ~IsValidTransition(stage, to)         -> 422
    [] OTHER                                 -> 200

Receive(t) ==
  /\ at[t] = "idle"
  /\ requests < MaxRequests
  /\ requests' = requests + 1

Refuse(t) ==
  /\ Receive(t)
  /\ \E u \in Staff, to \in TargetStages :
       /\ RefusalCode(u, to) # 200
       /\ answers' = answers \cup {<<requests', RefusalCode(u, to)>>}
  /\ NoFault
  /\ UNCHANGED <<db, mailed, nextRowId, lock, at, job, txn>>

ReadFails(t) ==
  /\ Receive(t)
  /\ Strike("read")
  /\ answers' = answers \cup {<<requests', 503>>}
  /\ UNCHANGED <<db, mailed, nextRowId, lock, at, job, txn>>

(* Mutant: from_stage is taken after the stage has been assigned.          *)
LoadReadsFromTooLate(t) ==
  /\ Receive(t)
  /\ \E u \in Staff, to \in TargetStages :
       /\ RefusalCode(u, to) = 200
       /\ job' = [job EXCEPT ![t] =
            [request |-> requests', actor |-> u, from |-> to, to |-> to,
             counselor |-> counselor]]
  /\ Goto(t, "idle", "student_row")
  /\ NoFault
  /\ UNCHANGED <<db, mailed, nextRowId, lock, txn, answers>>

Load(t) ==
  /\ Receive(t)
  /\ \E u \in Staff, to \in TargetStages :
       /\ RefusalCode(u, to) = 200
       /\ job' = [job EXCEPT ![t] =
            [request |-> requests', actor |-> u, from |-> stage, to |-> to,
             counselor |-> counselor]]
  /\ Goto(t, "idle", "student_row")
  /\ NoFault
  /\ UNCHANGED <<db, mailed, nextRowId, lock, txn, answers>>

(* Mutant: the UPDATE does not wait for the row lock.                      *)
FlushStudentUnlocked(t) ==
  /\ Goto(t, "student_row", "student_mail")
  /\ lock' = t
  /\ nextRowId' = nextRowId + 1
  /\ txn' = [txn EXCEPT ![t] = [rowId |-> nextRowId, notes |-> {Student}]]
  /\ NoFault
  /\ UNCHANGED <<db, mailed, job, requests, answers>>

(* The first flush writes the stage, the history row and the student's     *)
(* notification together; the UPDATE waits for the application's row lock  *)
(* and only then does the INSERT draw the row's id.                        *)
FlushStudent(t) ==
  /\ Goto(t, "student_row", "student_mail")
  /\ lock = NoThread
  /\ lock' = t
  /\ nextRowId' = nextRowId + 1
  /\ txn' = [txn EXCEPT ![t] = [rowId |-> nextRowId, notes |-> {Student}]]
  /\ NoFault
  /\ UNCHANGED <<db, mailed, job, requests, answers>>

(* create_notification rolls back the whole session, so the stage and the  *)
(* history row go too.  The handler carries on: it reads the application   *)
(* again, because the rollback expired it.                                 *)
FlushStudentFails(t) ==
  /\ Goto(t, "student_row", "student_mail")
  /\ Strike("flush")
  /\ job' = [job EXCEPT ![t].counselor = counselor]
  /\ UNCHANGED <<db, mailed, nextRowId, lock, txn, requests, answers>>

FlushStudentAndReloadFail(t) ==
  /\ at[t] = "student_row"
  /\ Strike("reload")
  /\ Answer(t, 500)
  /\ UNCHANGED <<db, mailed, nextRowId, requests>>

NotifiesCounselor(t) == job[t].counselor \notin {NoUser, job[t].actor}

MailStudent(t) ==
  /\ Goto(t, "student_mail",
          IF NotifiesCounselor(t) THEN "counselor_row" ELSE "commit")
  /\ \/ NoFault /\ mailed' = mailed \cup {<<job[t].request, Student>>}
     \/ Strike("mail") /\ UNCHANGED mailed
  /\ UNCHANGED <<db, nextRowId, lock, job, txn, requests, answers>>

FlushCounselor(t) ==
  /\ Goto(t, "counselor_row", "counselor_mail")
  /\ txn' = [txn EXCEPT ![t].notes = @ \cup {job[t].counselor}]
  /\ NoFault
  /\ UNCHANGED <<db, mailed, nextRowId, lock, job, requests, answers>>

(* Mutant: the failed flush drops the notifications and keeps the move.    *)
FlushCounselorFailsKeepingMove(t) ==
  /\ Goto(t, "counselor_row", "counselor_mail")
  /\ Strike("flush")
  /\ txn' = [txn EXCEPT ![t].notes = {}]
  /\ UNCHANGED <<db, mailed, nextRowId, lock, job, requests, answers>>

(* Mutant: the rollback forgets the move but leaves the row locked.        *)
FlushCounselorFailsKeepingLock(t) ==
  /\ Goto(t, "counselor_row", "counselor_mail")
  /\ Strike("flush")
  /\ txn' = [txn EXCEPT ![t] = NoWrites]
  /\ UNCHANGED <<db, mailed, nextRowId, lock, job, requests, answers>>

FlushCounselorFails(t) ==
  /\ Goto(t, "counselor_row", "counselor_mail")
  /\ Strike("flush")
  /\ txn' = [txn EXCEPT ![t] = NoWrites]
  /\ lock' = Unlocked(t)
  /\ UNCHANGED <<db, mailed, nextRowId, job, requests, answers>>

MailCounselor(t) ==
  /\ Goto(t, "counselor_mail", "commit")
  /\ \/ /\ NoFault
        /\ mailed' = mailed \cup {<<job[t].request, job[t].counselor>>}
     \/ Strike("mail") /\ UNCHANGED mailed
  /\ UNCHANGED <<db, nextRowId, lock, job, txn, requests, answers>>

(* The history row that the transaction holds.                             *)
PendingRow(t) ==
  [id |-> txn[t].rowId, request |-> job[t].request,
   from |-> job[t].from, to |-> job[t].to, by |-> job[t].actor]

HoldsMove(t) == txn[t].rowId # 0

(* Mutant: the stage is committed without its history row.                 *)
CommitWithoutHistory(t) ==
  /\ Goto(t, "commit", "refresh")
  /\ stage' = IF HoldsMove(t) THEN job[t].to ELSE stage
  /\ inbox' = inbox \cup ({job[t].request} \X txn[t].notes)
  /\ lock' = Unlocked(t)
  /\ NoFault
  /\ UNCHANGED <<counselor, history, mailed, nextRowId, job, txn, requests, answers>>

Commit(t) ==
  /\ Goto(t, "commit", "refresh")
  /\ stage' = IF HoldsMove(t) THEN job[t].to ELSE stage
  /\ history' = IF HoldsMove(t) THEN history \cup {PendingRow(t)} ELSE history
  /\ inbox' = inbox \cup ({job[t].request} \X txn[t].notes)
  /\ lock' = Unlocked(t)
  /\ NoFault
  /\ UNCHANGED <<counselor, mailed, nextRowId, job, txn, requests, answers>>

(* Mutant: a failed commit is answered without a rollback.                 *)
CommitFailsWithoutRollback(t) ==
  /\ at[t] = "commit"
  /\ Strike("commit")
  /\ answers' = answers \cup {<<job[t].request, 503>>}
  /\ at' = [at EXCEPT ![t] = "idle"]
  /\ UNCHANGED <<db, mailed, nextRowId, lock, job, txn, requests>>

CommitFails(t) ==
  /\ at[t] = "commit"
  /\ Strike("commit")
  /\ Answer(t, 503)
  /\ UNCHANGED <<db, mailed, nextRowId, requests>>

(* Mutant: the answer is built without reading the history row back.       *)
RefreshNothing(t) ==
  /\ at[t] = "refresh"
  /\ Answer(t, 200)
  /\ NoFault
  /\ UNCHANGED <<db, mailed, nextRowId, requests>>

(* Reading the history row back fails when a rollback has dropped it.      *)
Refresh(t) ==
  /\ at[t] = "refresh"
  /\ Answer(t, IF HoldsMove(t) THEN 200 ELSE 500)
  /\ NoFault
  /\ UNCHANGED <<db, mailed, nextRowId, requests>>

RefreshFails(t) ==
  /\ at[t] = "refresh"
  /\ Strike("refresh")
  /\ Answer(t, 500)
  /\ UNCHANGED <<db, mailed, nextRowId, requests>>

-----------------------------------------------------------------------------
(* PATCH .../counselor writes another column of the same row, so it waits  *)
(* for the row lock; it flushes and commits in one go.  An owner may       *)
(* choose a counselor of any branch, the others one of this branch.        *)
Reassign ==
  /\ lock = NoThread
  /\ \E u \in Staff :
       /\ Role[u] \in ReassignRoles
       /\ InBranchScope(u)
       /\ counselor' \in {c \in Counselors :
            Role[u] = "consultancy_owner" \/ BranchOf[c] = AppBranch} \cup {NoUser}
  /\ NoFault
  /\ UNCHANGED <<stage, history, inbox, mailed, nextRowId, lock, at, job, txn,
                 requests, answers>>

(* The process dies: transactions in flight are rolled back by the         *)
(* database, and their clients never hear.                                 *)
Crash ==
  /\ Strike("crash")
  /\ \E t \in Threads : Running(t)
  /\ answers' = answers \cup
       {<<job[t].request, 0>> : t \in {s \in Threads : Running(s)}}
  /\ at' = [t \in Threads |-> "idle"]
  /\ job' = [t \in Threads |-> NoJob]
  /\ txn' = [t \in Threads |-> NoWrites]
  /\ lock' = NoThread
  /\ UNCHANGED <<db, mailed, nextRowId, requests>>

(* The steps of a request that has been let in.                            *)
(* mark-enrolled, mark-rejected and mark-withdrawn repeat these steps line *)
(* by line, each with its own target stage.                                *)
Proceed(t) ==
  \/ FlushStudent(t) \/ FlushStudentFails(t) \/ FlushStudentAndReloadFail(t)
  \/ MailStudent(t)
  \/ FlushCounselor(t) \/ FlushCounselorFails(t)
  \/ MailCounselor(t)
  \/ Commit(t) \/ CommitFails(t)
  \/ Refresh(t) \/ RefreshFails(t)

Serve(t) == Refuse(t) \/ ReadFails(t) \/ Load(t) \/ Proceed(t)

Next == (\E t \in Threads : Serve(t)) \/ Reassign \/ Crash

(* A thread goes on with the request it runs: SMTP gives up after its      *)
(* timeout and the database grants row locks.  Nothing obliges a client to *)
(* send a request, staff to reassign, or a fault to strike.                *)
Fairness == \A t \in Threads : WF_vars(Proceed(t))

Spec == Init /\ [][Next]_vars

FairSpec == Spec /\ Fairness

-----------------------------------------------------------------------------
(* What should hold.                                                       *)

(* The history row with the highest id names the application's stage,      *)
(* although each handler computes both from a read that may be stale: the  *)
(* row lock orders the ids the way it orders the commits.                  *)
NewestRowNamesStage ==
  \A row \in history :
    (\A other \in history : other.id <= row.id) => row.to = stage

(* An answer tells the truth about the database: 200 means the move is     *)
(* recorded; a refusal or a 503 means that the request left nothing there, *)
(* neither a history row nor a notification.                               *)
AnswersAreHonest ==
  \A ans \in answers :
    /\ ans[2] = 200 => \E row \in history : row.request = ans[1]
    /\ ans[2] \in {403, 422, 503} =>
         /\ \A row \in history : row.request # ans[1]
         /\ \A note \in inbox : note[1] # ans[1]

(* A recorded move reached its student's inbox: the notification is        *)
(* committed with the move or the move is lost with it.                    *)
MovesAreNotified ==
  \A row \in history : <<row.request, Student>> \in inbox

(* Until something fails, a request past its first flush holds its move.   *)
MovesAreHeld ==
  faults = 0 => \A t \in Threads : at[t] \notin {"idle", "student_row"} => HoldsMove(t)

(* Mail leaves before the commit, so it may tell of a move that is then    *)
(* lost; but only when something failed: otherwise the move is recorded or *)
(* its transaction is still open (services/notifications.py:219).          *)
MailsComeTrue ==
  /\ MovesAreHeld
  /\ \A mail \in mailed :
       \/ faults > 0
       \/ \E row \in history : row.request = mail[1]
       \/ \E t \in Threads : Running(t) /\ HoldsMove(t) /\ job[t].request = mail[1]

(* Why: the facts about requests in flight that carry the properties above *)
(* from step to step.  A transaction holds a move exactly while it holds   *)
(* the row lock; its row is then newer than every committed one, its move  *)
(* is valid, and nothing of its request is committed before it commits.    *)
Uncommitted(t) == at[t] \notin {"idle", "refresh"}

Recorded(n) == \E row \in history : row.request = n

LockFollowsMove ==
  \A t \in Threads :
    /\ lock = t <=> HoldsMove(t) /\ Uncommitted(t)
    /\ at[t] \in {"idle", "student_row"} => ~HoldsMove(t)

RowIdsGrow ==
  /\ \A row \in history : row.id < nextRowId
  /\ \A t \in Threads :
       /\ txn[t].rowId < nextRowId
       /\ lock = t => \A row \in history : row.id < txn[t].rowId

RequestsAreNumbered ==
  /\ \A row \in history : row.request <= requests
  /\ \A note \in inbox : note[1] <= requests
  /\ \A t \in Threads : Running(t) => job[t].request \in 1..requests
  /\ \A s, t \in Threads :
       Running(s) /\ Running(t) /\ job[s].request = job[t].request => s = t
  /\ \A ans \in answers :
       /\ ans[1] <= requests
       /\ \A t \in Threads : Running(t) => job[t].request # ans[1]

MovesInFlight ==
  \A t \in Threads :
    /\ Running(t) => /\ job[t].actor \in Staff
                     /\ job[t].from \in Stages /\ job[t].to \in Stages
                     /\ IsValidTransition(job[t].from, job[t].to)
    /\ at[t] \in {"counselor_row", "counselor_mail"} => NotifiesCounselor(t)
    /\ Uncommitted(t) =>
         /\ ~Recorded(job[t].request)
         /\ \A note \in inbox : note[1] # job[t].request
         /\ HoldsMove(t) => Student \in txn[t].notes
    /\ at[t] = "refresh" /\ HoldsMove(t) => Recorded(job[t].request)

PipelineInv ==
  /\ TypeOK
  /\ LockFollowsMove
  /\ RowIdsGrow
  /\ RequestsAreNumbered
  /\ MovesInFlight

(* The audit trail of AuditedStage, seen through the history table.        *)
Audited == INSTANCE AuditedStage WITH
  trail <- {[id |-> row.id, from |-> row.from, to |-> row.to] : row \in history}

(* Stage and history change together, one valid row at a time, whatever    *)
(* the interleaving (ADR-0005: every transition is an audited event).      *)
KeepsAuditTrail == Audited!Trail

(* With a single thread, no request overlaps another one and the trail is  *)
(* also a chain: each row starts from the stage the application was in.    *)
KeepsStrictTrail == Audited!StrictTrail

(* pipeline/stages.py: "Terminal stages are final and cannot transition to *)
(* any other stage".                                                       *)
TerminalStagesAreFinal ==
  [][(stage \in TerminalStages) => (stage' = stage)]_stage

(* A request that was let in ends, by an answer or by the death of the     *)
(* process: no thread waits for the row lock for ever, whoever fails while *)
(* holding it.                                                             *)
RequestsEnd ==
  \A t \in Threads : Running(t) ~> ~Running(t)
=============================================================================
