--------------------- MODULE ApplicationPipelineProofs ---------------------
(***************************************************************************)
(* Proofs about ApplicationPipeline, for every pool of threads, staff,     *)
(* rule table and fault budget.                                            *)
(*                                                                         *)
(* TypeOK is not inductive alone: a committed history row takes its actor  *)
(* and its stages from the thread's job, so that these are set is part of  *)
(* MovesInFlight.  The invariant that carries everything is                *)
(* TypeOK /\ PipelineInv; one lemma per conjunct shows that a step keeps   *)
(* it, with one case per action.                                           *)
(***************************************************************************)
EXTENDS ApplicationPipeline, TLAPS

Inv == TypeOK /\ PipelineInv

LEMMA InitEstablishesInv == Init => Inv
  <1>. SUFFICES ASSUME Init PROVE Inv
    OBVIOUS
  <1>. USE PipelineAssumption
  <1>1. TypeOK
    BY DEF Init, TypeOK, Steps, Job, Txn, NoJob, NoWrites
  <1>2. LockFollowsMove
    BY DEF Init, LockFollowsMove, HoldsMove, Uncommitted, NoWrites
  <1>3. RowIdsGrow
    BY DEF Init, RowIdsGrow, NoWrites
  <1>4. RequestsAreNumbered
    BY DEF Init, RequestsAreNumbered, Running
  <1>5. MovesInFlight
    BY DEF Init, MovesInFlight, Running, Uncommitted
  <1>. QED
    BY <1>1, <1>2, <1>3, <1>4, <1>5 DEF Inv, PipelineInv

-----------------------------------------------------------------------------
(* Steps keep the types.                                                   *)

LEMMA RereadJob ==
  ASSUME NEW j \in Job, NEW c \in Counselors \cup {NoUser}
  PROVE  [j EXCEPT !.counselor = c] \in Job
BY DEF Job

LEMMA TypeStep == Inv /\ [Next]_vars => TypeOK'
  <1>. SUFFICES ASSUME Inv, [Next]_vars PROVE TypeOK'
    OBVIOUS
  <1>. USE PipelineAssumption
       DEF Inv, TypeOK, Job, Txn, Steps, db, Users, Codes, NoJob, NoWrites
  <1>0. \A t \in Threads : at[t] \in {"counselor_row", "counselor_mail"}
                             => job[t].counselor \in Users
    BY DEF PipelineInv, MovesInFlight, NotifiesCounselor, Counselors
  <1>1. ASSUME NEW t \in Threads, Refuse(t) PROVE TypeOK'
    BY <1>1 DEF Refuse, Receive, NoFault, RefusalCode
  <1>2. ASSUME NEW t \in Threads, ReadFails(t) PROVE TypeOK'
    BY <1>2 DEF ReadFails, Receive, Strike
  <1>3. ASSUME NEW t \in Threads, Load(t) PROVE TypeOK'
    BY <1>3 DEF Load, Receive, Goto, NoFault
  <1>4. ASSUME NEW t \in Threads, FlushStudent(t) PROVE TypeOK'
    BY <1>4 DEF FlushStudent, Goto, NoFault
  <1>5. ASSUME NEW t \in Threads, FlushStudentFails(t) PROVE TypeOK'
    <2>0. job \in [Threads -> Job] /\ counselor \in Counselors \cup {NoUser}
      OBVIOUS
    <2>2. job' = [job EXCEPT ![t] = [job[t] EXCEPT !.counselor = counselor]]
      BY <1>5 DEF FlushStudentFails
    <2>. HIDE DEF Inv, TypeOK, Job
    <2>1. [job[t] EXCEPT !.counselor = counselor] \in Job
      BY <2>0, RereadJob
    <2>3. job' \in [Threads -> Job]
      BY <2>0, <2>1, <2>2, Zenon
    <2>. QED
      BY <1>5, <2>3 DEF FlushStudentFails, Goto, Strike, Inv, TypeOK
  <1>6. ASSUME NEW t \in Threads, FlushStudentAndReloadFail(t) PROVE TypeOK'
    BY <1>6 DEF FlushStudentAndReloadFail, Strike, Answer, Unlocked
  <1>7. ASSUME NEW t \in Threads, MailStudent(t) PROVE TypeOK'
    BY <1>7 DEF MailStudent, NoFault, Strike, Goto
  <1>8. ASSUME NEW t \in Threads, FlushCounselor(t) PROVE TypeOK'
    BY <1>0, <1>8 DEF FlushCounselor, Goto, NoFault
  <1>9. ASSUME NEW t \in Threads, FlushCounselorFails(t) PROVE TypeOK'
    BY <1>9 DEF FlushCounselorFails, Goto, Strike, Unlocked
  <1>10. ASSUME NEW t \in Threads, MailCounselor(t) PROVE TypeOK'
    BY <1>0, <1>10 DEF MailCounselor, NoFault, Strike, Goto
  <1>11. ASSUME NEW t \in Threads, Commit(t) PROVE TypeOK'
    <2>. USE <1>11 DEF Commit
    <2>1. /\ job[t].actor \in Staff
          /\ job[t].from \in Stages /\ job[t].to \in Stages
      BY DEF Goto, PipelineInv, MovesInFlight, Running
    <2>2. HoldsMove(t) => PendingRow(t) \in HistoryRow
      BY <2>1 DEF HoldsMove, PendingRow, HistoryRow
    <2>3. stage' \in Stages /\ history' \subseteq HistoryRow
      BY <2>1, <2>2
    <2>4. inbox' \subseteq (Nat \X Users)
      OBVIOUS
    <2>5. at' \in [Threads -> Steps]
      BY DEF Goto
    <2>. QED
      BY <2>3, <2>4, <2>5 DEF NoFault, Unlocked
  <1>12. ASSUME NEW t \in Threads, CommitFails(t) PROVE TypeOK'
    BY <1>12 DEF CommitFails, Strike, Answer, Unlocked
  <1>13. ASSUME NEW t \in Threads, Refresh(t) PROVE TypeOK'
    BY <1>13 DEF Refresh, NoFault, Answer, Unlocked
  <1>14. ASSUME NEW t \in Threads, RefreshFails(t) PROVE TypeOK'
    BY <1>14 DEF RefreshFails, Strike, Answer, Unlocked
  <1>15. ASSUME Reassign PROVE TypeOK'
    BY <1>15 DEF Reassign, NoFault
  <1>16. ASSUME Crash PROVE TypeOK'
    BY <1>16 DEF Crash, Strike
  <1>17. ASSUME UNCHANGED vars PROVE TypeOK'
    BY <1>17 DEF vars
  <1>. QED
    BY <1>1, <1>2, <1>3, <1>4, <1>5, <1>6, <1>7, <1>8, <1>9, <1>10, <1>11,
       <1>12, <1>13, <1>14, <1>15, <1>16, <1>17 DEF Next, Serve, Proceed

-----------------------------------------------------------------------------
(* Steps keep the row lock with the transaction that holds the move.       *)

LEMMA LockStep == Inv /\ [Next]_vars => LockFollowsMove'
  <1>. SUFFICES ASSUME Inv, [Next]_vars PROVE LockFollowsMove'
    OBVIOUS
  <1>. USE PipelineAssumption DEF Inv, PipelineInv, LockFollowsMove, db, TypeOK, Txn, HoldsMove, Uncommitted
  <1>1. ASSUME NEW t \in Threads, Refuse(t) PROVE LockFollowsMove'
    BY <1>1 DEF Refuse, Receive
  <1>2. ASSUME NEW t \in Threads, ReadFails(t) PROVE LockFollowsMove'
    BY <1>2 DEF ReadFails, Receive
  <1>3. ASSUME NEW t \in Threads, Load(t) PROVE LockFollowsMove'
    BY <1>3 DEF Load, Receive, Goto
  <1>4. ASSUME NEW t \in Threads, FlushStudent(t) PROVE LockFollowsMove'
    BY <1>4 DEF FlushStudent, Goto
  <1>5. ASSUME NEW t \in Threads, FlushStudentFails(t) PROVE LockFollowsMove'
    BY <1>5 DEF FlushStudentFails, Goto
  <1>6. ASSUME NEW t \in Threads, FlushStudentAndReloadFail(t) PROVE LockFollowsMove'
    BY <1>6 DEF FlushStudentAndReloadFail, Answer, Unlocked, NoWrites
  <1>7. ASSUME NEW t \in Threads, MailStudent(t) PROVE LockFollowsMove'
    BY <1>7 DEF MailStudent, Goto
  <1>8. ASSUME NEW t \in Threads, FlushCounselor(t) PROVE LockFollowsMove'
    BY <1>8 DEF FlushCounselor, Goto
  <1>9. ASSUME NEW t \in Threads, FlushCounselorFails(t) PROVE LockFollowsMove'
    BY <1>9 DEF FlushCounselorFails, Goto, Unlocked, NoWrites
  <1>10. ASSUME NEW t \in Threads, MailCounselor(t) PROVE LockFollowsMove'
    BY <1>10 DEF MailCounselor, Goto
  <1>11. ASSUME NEW t \in Threads, Commit(t) PROVE LockFollowsMove'
    BY <1>11 DEF Commit, Goto, Unlocked
  <1>12. ASSUME NEW t \in Threads, CommitFails(t) PROVE LockFollowsMove'
    BY <1>12 DEF CommitFails, Answer, Unlocked, NoWrites
  <1>13. ASSUME NEW t \in Threads, Refresh(t) PROVE LockFollowsMove'
    BY <1>13 DEF Refresh, Answer, Unlocked, NoWrites
  <1>14. ASSUME NEW t \in Threads, RefreshFails(t) PROVE LockFollowsMove'
    BY <1>14 DEF RefreshFails, Answer, Unlocked, NoWrites
  <1>15. ASSUME Reassign PROVE LockFollowsMove'
    BY <1>15 DEF Reassign
  <1>16. ASSUME Crash PROVE LockFollowsMove'
    BY <1>16 DEF Crash, NoWrites, NoJob
  <1>17. ASSUME UNCHANGED vars PROVE LockFollowsMove'
    BY <1>17 DEF vars
  <1>. QED
    BY <1>1, <1>2, <1>3, <1>4, <1>5, <1>6, <1>7, <1>8, <1>9, <1>10, <1>11,
       <1>12, <1>13, <1>14, <1>15, <1>16, <1>17 DEF Next, Serve, Proceed

-----------------------------------------------------------------------------
(* Steps keep the row ids growing in lock order.                           *)

LEMMA RowIdStep == Inv /\ [Next]_vars => RowIdsGrow'
  <1>. SUFFICES ASSUME Inv, [Next]_vars PROVE RowIdsGrow'
    OBVIOUS
  <1>. USE PipelineAssumption DEF Inv, PipelineInv, RowIdsGrow, db, TypeOK, Txn, LockFollowsMove, HoldsMove, Uncommitted, HistoryRow
  <1>1. ASSUME NEW t \in Threads, Refuse(t) PROVE RowIdsGrow'
    BY <1>1 DEF Refuse, Receive
  <1>2. ASSUME NEW t \in Threads, ReadFails(t) PROVE RowIdsGrow'
    BY <1>2 DEF ReadFails, Receive
  <1>3. ASSUME NEW t \in Threads, Load(t) PROVE RowIdsGrow'
    BY <1>3 DEF Load, Receive, Goto
  <1>4. ASSUME NEW t \in Threads, FlushStudent(t) PROVE RowIdsGrow'
    BY <1>4 DEF FlushStudent, Goto
  <1>5. ASSUME NEW t \in Threads, FlushStudentFails(t) PROVE RowIdsGrow'
    BY <1>5 DEF FlushStudentFails, Goto
  <1>6. ASSUME NEW t \in Threads, FlushStudentAndReloadFail(t) PROVE RowIdsGrow'
    BY <1>6 DEF FlushStudentAndReloadFail, Answer, Unlocked, NoWrites
  <1>7. ASSUME NEW t \in Threads, MailStudent(t) PROVE RowIdsGrow'
    BY <1>7 DEF MailStudent, Goto
  <1>8. ASSUME NEW t \in Threads, FlushCounselor(t) PROVE RowIdsGrow'
    BY <1>8 DEF FlushCounselor, Goto
  <1>9. ASSUME NEW t \in Threads, FlushCounselorFails(t) PROVE RowIdsGrow'
    BY <1>9 DEF FlushCounselorFails, Goto, Unlocked, NoWrites
  <1>10. ASSUME NEW t \in Threads, MailCounselor(t) PROVE RowIdsGrow'
    BY <1>10 DEF MailCounselor, Goto
  <1>11. ASSUME NEW t \in Threads, Commit(t) PROVE RowIdsGrow'
    BY <1>11 DEF Commit, Goto, Unlocked, PendingRow
  <1>12. ASSUME NEW t \in Threads, CommitFails(t) PROVE RowIdsGrow'
    BY <1>12 DEF CommitFails, Answer, Unlocked, NoWrites
  <1>13. ASSUME NEW t \in Threads, Refresh(t) PROVE RowIdsGrow'
    BY <1>13 DEF Refresh, Answer, Unlocked, NoWrites
  <1>14. ASSUME NEW t \in Threads, RefreshFails(t) PROVE RowIdsGrow'
    BY <1>14 DEF RefreshFails, Answer, Unlocked, NoWrites
  <1>15. ASSUME Reassign PROVE RowIdsGrow'
    BY <1>15 DEF Reassign
  <1>16. ASSUME Crash PROVE RowIdsGrow'
    BY <1>16 DEF Crash, NoWrites, NoJob
  <1>17. ASSUME UNCHANGED vars PROVE RowIdsGrow'
    BY <1>17 DEF vars
  <1>. QED
    BY <1>1, <1>2, <1>3, <1>4, <1>5, <1>6, <1>7, <1>8, <1>9, <1>10, <1>11,
       <1>12, <1>13, <1>14, <1>15, <1>16, <1>17 DEF Next, Serve, Proceed

-----------------------------------------------------------------------------
(* Steps keep request numbers apart.                                       *)

LEMMA NumberStep == Inv /\ [Next]_vars => RequestsAreNumbered'
  <1>. SUFFICES ASSUME Inv, [Next]_vars PROVE RequestsAreNumbered'
    OBVIOUS
  <1>. USE PipelineAssumption DEF Inv, PipelineInv, RequestsAreNumbered, db, TypeOK, Job, Steps, Running, HistoryRow
  <1>1. ASSUME NEW t \in Threads, Refuse(t) PROVE RequestsAreNumbered'
    BY <1>1 DEF Refuse, Receive
  <1>2. ASSUME NEW t \in Threads, ReadFails(t) PROVE RequestsAreNumbered'
    BY <1>2 DEF ReadFails, Receive
  <1>3. ASSUME NEW t \in Threads, Load(t) PROVE RequestsAreNumbered'
    BY <1>3 DEF Load, Receive, Goto
  <1>4. ASSUME NEW t \in Threads, FlushStudent(t) PROVE RequestsAreNumbered'
    BY <1>4 DEF FlushStudent, Goto
  <1>5. ASSUME NEW t \in Threads, FlushStudentFails(t) PROVE RequestsAreNumbered'
    BY <1>5 DEF FlushStudentFails, Goto
  <1>6. ASSUME NEW t \in Threads, FlushStudentAndReloadFail(t) PROVE RequestsAreNumbered'
    BY <1>6 DEF FlushStudentAndReloadFail, Answer, NoJob
  <1>7. ASSUME NEW t \in Threads, MailStudent(t) PROVE RequestsAreNumbered'
    BY <1>7 DEF MailStudent, Goto
  <1>8. ASSUME NEW t \in Threads, FlushCounselor(t) PROVE RequestsAreNumbered'
    BY <1>8 DEF FlushCounselor, Goto
  <1>9. ASSUME NEW t \in Threads, FlushCounselorFails(t) PROVE RequestsAreNumbered'
    BY <1>9 DEF FlushCounselorFails, Goto
  <1>10. ASSUME NEW t \in Threads, MailCounselor(t) PROVE RequestsAreNumbered'
    BY <1>10 DEF MailCounselor, Goto
  <1>11. ASSUME NEW t \in Threads, Commit(t) PROVE RequestsAreNumbered'
    BY <1>11 DEF Commit, Goto, PendingRow
  <1>12. ASSUME NEW t \in Threads, CommitFails(t) PROVE RequestsAreNumbered'
    BY <1>12 DEF CommitFails, Answer, NoJob
  <1>13. ASSUME NEW t \in Threads, Refresh(t) PROVE RequestsAreNumbered'
    BY <1>13 DEF Refresh, Answer, NoJob
  <1>14. ASSUME NEW t \in Threads, RefreshFails(t) PROVE RequestsAreNumbered'
    BY <1>14 DEF RefreshFails, Answer, NoJob
  <1>15. ASSUME Reassign PROVE RequestsAreNumbered'
    BY <1>15 DEF Reassign
  <1>16. ASSUME Crash PROVE RequestsAreNumbered'
    BY <1>16 DEF Crash, NoWrites, NoJob
  <1>17. ASSUME UNCHANGED vars PROVE RequestsAreNumbered'
    BY <1>17 DEF vars
  <1>. QED
    BY <1>1, <1>2, <1>3, <1>4, <1>5, <1>6, <1>7, <1>8, <1>9, <1>10, <1>11,
       <1>12, <1>13, <1>14, <1>15, <1>16, <1>17 DEF Next, Serve, Proceed

-----------------------------------------------------------------------------
(* Steps keep what is known of the moves in flight.                        *)

LEMMA LetInMeansValid ==
  ASSUME NEW u, NEW to, RefusalCode(u, to) = 200
  PROVE  IsValidTransition(stage, to)
BY DEF RefusalCode

LEMMA InFlightStep == Inv /\ [Next]_vars => MovesInFlight'
  <1>. SUFFICES ASSUME Inv, [Next]_vars PROVE MovesInFlight'
    OBVIOUS
  <1>. USE PipelineAssumption DEF Inv, PipelineInv, MovesInFlight, db, TypeOK, Job, Txn, Steps, LockFollowsMove, RequestsAreNumbered, Running, Uncommitted, HoldsMove, Recorded, NotifiesCounselor, HistoryRow
  <1>1. ASSUME NEW t \in Threads, Refuse(t) PROVE MovesInFlight'
    BY <1>1 DEF Refuse, Receive
  <1>2. ASSUME NEW t \in Threads, ReadFails(t) PROVE MovesInFlight'
    BY <1>2 DEF ReadFails, Receive
  <1>3. ASSUME NEW t \in Threads, Load(t) PROVE MovesInFlight'
    <2>1. PICK u \in Staff, to \in TargetStages :
            /\ RefusalCode(u, to) = 200
            /\ job' = [job EXCEPT ![t] =
                 [request |-> requests', actor |-> u, from |-> stage, to |-> to,
                  counselor |-> counselor]]
      BY <1>3 DEF Load
    <2>2. IsValidTransition(stage, to)
      BY <2>1, LetInMeansValid
    <2>. QED
      BY <1>3, <2>1, <2>2 DEF Load, Receive, Goto
  <1>4. ASSUME NEW t \in Threads, FlushStudent(t) PROVE MovesInFlight'
    BY <1>4 DEF FlushStudent, Goto
  <1>5. ASSUME NEW t \in Threads, FlushStudentFails(t) PROVE MovesInFlight'
    BY <1>5 DEF FlushStudentFails, Goto
  <1>6. ASSUME NEW t \in Threads, FlushStudentAndReloadFail(t) PROVE MovesInFlight'
    BY <1>6 DEF FlushStudentAndReloadFail, Answer, NoJob, NoWrites
  <1>7. ASSUME NEW t \in Threads, MailStudent(t) PROVE MovesInFlight'
    BY <1>7 DEF MailStudent, Goto
  <1>8. ASSUME NEW t \in Threads, FlushCounselor(t) PROVE MovesInFlight'
    BY <1>8 DEF FlushCounselor, Goto
  <1>9. ASSUME NEW t \in Threads, FlushCounselorFails(t) PROVE MovesInFlight'
    BY <1>9 DEF FlushCounselorFails, Goto, NoWrites
  <1>10. ASSUME NEW t \in Threads, MailCounselor(t) PROVE MovesInFlight'
    BY <1>10 DEF MailCounselor, Goto
  <1>11. ASSUME NEW t \in Threads, Commit(t) PROVE MovesInFlight'
    <2>. USE <1>11 DEF Commit, Goto
    <2>1. /\ at[t] = "commit" /\ Running(t)
          /\ at' = [at EXCEPT ![t] = "refresh"]
          /\ job' = job /\ txn' = txn
      OBVIOUS
    <2>2. HoldsMove(t) => PendingRow(t) \in history'
      OBVIOUS
    <2>3. PendingRow(t).request = job[t].request
      BY DEF PendingRow
    <2>4. \A row \in history' : row \in history \/ row.request = job[t].request
      BY <2>3
    <2>5. \A note \in inbox' : note \in inbox \/ note[1] = job[t].request
      OBVIOUS
    <2>6. history \subseteq history'
      OBVIOUS
    <2>7. ASSUME NEW s \in Threads, s # t, Running(s)
          PROVE  job[s].request # job[t].request
      BY <2>1, <2>7
    <2>. QED
      BY <2>1, <2>2, <2>3, <2>4, <2>5, <2>6, <2>7
  <1>12. ASSUME NEW t \in Threads, CommitFails(t) PROVE MovesInFlight'
    BY <1>12 DEF CommitFails, Answer, NoJob, NoWrites
  <1>13. ASSUME NEW t \in Threads, Refresh(t) PROVE MovesInFlight'
    BY <1>13 DEF Refresh, Answer, NoJob, NoWrites
  <1>14. ASSUME NEW t \in Threads, RefreshFails(t) PROVE MovesInFlight'
    BY <1>14 DEF RefreshFails, Answer, NoJob, NoWrites
  <1>15. ASSUME Reassign PROVE MovesInFlight'
    BY <1>15 DEF Reassign
  <1>16. ASSUME Crash PROVE MovesInFlight'
    BY <1>16 DEF Crash, NoWrites, NoJob
  <1>17. ASSUME UNCHANGED vars PROVE MovesInFlight'
    BY <1>17 DEF vars
  <1>. QED
    BY <1>1, <1>2, <1>3, <1>4, <1>5, <1>6, <1>7, <1>8, <1>9, <1>10, <1>11,
       <1>12, <1>13, <1>14, <1>15, <1>16, <1>17 DEF Next, Serve, Proceed

-----------------------------------------------------------------------------
(* The invariant, and what follows from it.                                *)

(* Every reachable state is well typed and satisfies PipelineInv: the row  *)
(* lock is held exactly while a transaction holds a move, and that move is *)
(* the newest, valid, and not yet visible to anyone.                       *)
THEOREM PipelineInvariant == Spec => [](TypeOK /\ PipelineInv)
  <1>1. Init => Inv
    BY InitEstablishesInv
  <1>2. Inv /\ [Next]_vars => Inv'
    BY TypeStep, LockStep, RowIdStep, NumberStep, InFlightStep DEF Inv, PipelineInv
  <1>. QED
    BY <1>1, <1>2, PTL DEF Spec, Inv

LEMMA NewestRowStep ==
  Inv /\ NewestRowNamesStage /\ [Next]_vars => NewestRowNamesStage'
  <1>. SUFFICES ASSUME Inv, NewestRowNamesStage, [Next]_vars
                PROVE  NewestRowNamesStage'
    OBVIOUS
  <1>1. ASSUME UNCHANGED <<stage, history>> PROVE NewestRowNamesStage'
    BY <1>1 DEF NewestRowNamesStage
  <1>2. ASSUME NEW t \in Threads, Commit(t) PROVE NewestRowNamesStage'
    <2>1. CASE ~HoldsMove(t)
      BY <1>1, <1>2, <2>1 DEF Commit
    <2>2. CASE HoldsMove(t)
      <3>1. lock = t
        BY <1>2, <2>2 DEF Commit, Goto, Inv, PipelineInv, LockFollowsMove, Uncommitted
      <3>2. \A row \in history : row.id < txn[t].rowId
        BY <3>1 DEF Inv, PipelineInv, RowIdsGrow
      <3>3. \A row \in history : row.id \in Nat
        BY DEF Inv, TypeOK, HistoryRow
      <3>4. txn[t].rowId \in Nat
        BY DEF Inv, TypeOK, Txn
      <3>5. /\ history' = history \cup {PendingRow(t)}
            /\ stage' = job[t].to
        BY <1>2, <2>2 DEF Commit
      <3>6. /\ PendingRow(t).id = txn[t].rowId
            /\ PendingRow(t).to = job[t].to
        BY DEF PendingRow
      <3>. QED
        BY <3>2, <3>3, <3>4, <3>5, <3>6 DEF NewestRowNamesStage
    <2>. QED
      BY <2>1, <2>2
  <1>. QED
    BY <1>1, <1>2 DEF Next, Serve, Proceed, Refuse, ReadFails, Load, FlushStudent,
      FlushStudentFails, FlushStudentAndReloadFail, MailStudent, FlushCounselor,
      FlushCounselorFails, MailCounselor, CommitFails, Refresh, RefreshFails,
      Reassign, Crash, db, vars

(* The history row with the highest id always names the current stage,     *)
(* however many threads work on the application.                           *)
THEOREM NewestRowIsRight == Spec => []NewestRowNamesStage
  <1>1. Init => NewestRowNamesStage
    BY DEF Init, NewestRowNamesStage
  <1>. QED
    BY <1>1, NewestRowStep, PipelineInvariant, PTL DEF Spec, Inv

LEMMA HonestStep ==
  Inv /\ AnswersAreHonest /\ [Next]_vars => AnswersAreHonest'
  <1>. SUFFICES ASSUME Inv, AnswersAreHonest, [Next]_vars
                PROVE  AnswersAreHonest'
    OBVIOUS
  <1>. USE DEF Inv, PipelineInv, AnswersAreHonest, db
  <1>1. ASSUME UNCHANGED <<history, inbox, answers>> PROVE AnswersAreHonest'
    BY <1>1
  <1>2. ASSUME NEW t \in Threads, Refuse(t) \/ ReadFails(t)
        PROVE AnswersAreHonest'
    <2>1. PICK code : /\ code # 200
                      /\ answers' = answers \cup {<<requests + 1, code>>}
      BY <1>2 DEF Refuse, ReadFails, Receive
    <2>2. \A row \in history : row.request # requests + 1
      BY DEF TypeOK, RequestsAreNumbered, HistoryRow
    <2>3. \A note \in inbox : note[1] # requests + 1
      BY DEF TypeOK, RequestsAreNumbered
    <2>. QED
      BY <1>2, <2>1, <2>2, <2>3 DEF Refuse, ReadFails
  <1>3. ASSUME NEW t \in Threads, Commit(t) PROVE AnswersAreHonest'
    <2>1. \A ans \in answers : ans[1] # job[t].request
      BY <1>3 DEF Commit, Goto, RequestsAreNumbered, Running
    <2>2. \A row \in history' : row \in history \/ row.request = job[t].request
      BY <1>3 DEF Commit, PendingRow
    <2>3. \A note \in inbox' : note \in inbox \/ note[1] = job[t].request
      BY <1>3 DEF Commit
    <2>4. history \subseteq history' /\ answers' = answers
      BY <1>3 DEF Commit
    <2>. QED
      BY <2>1, <2>2, <2>3, <2>4
  <1>4. ASSUME NEW t \in Threads, CommitFails(t) PROVE AnswersAreHonest'
    BY <1>4 DEF CommitFails, Answer, MovesInFlight, Uncommitted, Recorded
  <1>5. ASSUME NEW t \in Threads, Refresh(t) PROVE AnswersAreHonest'
    BY <1>5 DEF Refresh, Answer, MovesInFlight, Recorded
  <1>6. ASSUME NEW t \in Threads, FlushStudentAndReloadFail(t) \/ RefreshFails(t)
        PROVE AnswersAreHonest'
    BY <1>6 DEF FlushStudentAndReloadFail, RefreshFails, Answer
  <1>7. ASSUME Crash PROVE AnswersAreHonest'
    BY <1>7 DEF Crash
  <1>. QED
    BY <1>1, <1>2, <1>3, <1>4, <1>5, <1>6, <1>7 DEF Next, Serve, Proceed, Load,
      FlushStudent, FlushStudentFails, MailStudent, FlushCounselor,
      FlushCounselorFails, MailCounselor, Reassign, vars

(* An answer never lies about the database: 200 only for a recorded move,  *)
(* 403, 422 and 503 only for a request that left no trace in it.           *)
THEOREM HonestAnswers == Spec => []AnswersAreHonest
  <1>1. Init => AnswersAreHonest
    BY DEF Init, AnswersAreHonest
  <1>. QED
    BY <1>1, HonestStep, PipelineInvariant, PTL DEF Spec, Inv

LEMMA NotifiedStep ==
  Inv /\ MovesAreNotified /\ [Next]_vars => MovesAreNotified'
  <1>. SUFFICES ASSUME Inv, MovesAreNotified, [Next]_vars
                PROVE  MovesAreNotified'
    OBVIOUS
  <1>1. ASSUME UNCHANGED <<history, inbox>> PROVE MovesAreNotified'
    BY <1>1 DEF MovesAreNotified
  <1>2. ASSUME NEW t \in Threads, Commit(t) PROVE MovesAreNotified'
    <2>1. HoldsMove(t) => Student \in txn[t].notes
      BY <1>2 DEF Commit, Goto, Inv, PipelineInv, MovesInFlight, Uncommitted
    <2>2. inbox \subseteq inbox'
      BY <1>2 DEF Commit
    <2>3. HoldsMove(t) => <<job[t].request, Student>> \in inbox'
      BY <1>2, <2>1 DEF Commit
    <2>4. \A row \in history' :
            row \in history \/ (HoldsMove(t) /\ row.request = job[t].request)
      BY <1>2 DEF Commit, PendingRow
    <2>. QED
      BY <2>2, <2>3, <2>4 DEF MovesAreNotified
  <1>. QED
    BY <1>1, <1>2 DEF Next, Serve, Proceed, Refuse, ReadFails, Load, FlushStudent,
      FlushStudentFails, FlushStudentAndReloadFail, MailStudent, FlushCounselor,
      FlushCounselorFails, MailCounselor, CommitFails, Refresh, RefreshFails,
      Reassign, Crash, db, vars

(* No recorded move without its notification in the student's inbox.       *)
THEOREM NotifiedMoves == Spec => []MovesAreNotified
  <1>1. Init => MovesAreNotified
    BY DEF Init, MovesAreNotified
  <1>. QED
    BY <1>1, NotifiedStep, PipelineInvariant, PTL DEF Spec, Inv

-----------------------------------------------------------------------------
(* Mails and moves.                                                        *)

(* What one step does to the faults, and to a thread that is not at it.    *)
LEMMA HeldStep == Inv /\ MovesAreHeld /\ [Next]_vars => MovesAreHeld'
  <1>. SUFFICES ASSUME Inv, MovesAreHeld, [Next]_vars PROVE MovesAreHeld'
    OBVIOUS
  <1>. USE PipelineAssumption DEF Inv, TypeOK, Txn, Steps, MovesAreHeld, HoldsMove
  <1>1. ASSUME faults' = faults + 1 PROVE MovesAreHeld'
    BY <1>1
  <1>2. ASSUME UNCHANGED <<at, txn, faults>> PROVE MovesAreHeld'
    BY <1>2
  <1>3. ASSUME NEW t \in Threads, Load(t) PROVE MovesAreHeld'
    BY <1>3 DEF Load, Goto, NoFault
  <1>4. ASSUME NEW t \in Threads, FlushStudent(t) PROVE MovesAreHeld'
    BY <1>4 DEF FlushStudent, Goto, NoFault
  <1>5. ASSUME NEW t \in Threads, MailStudent(t), NoFault PROVE MovesAreHeld'
    BY <1>5 DEF MailStudent, Goto, NoFault
  <1>6. ASSUME NEW t \in Threads, FlushCounselor(t) PROVE MovesAreHeld'
    BY <1>6 DEF FlushCounselor, Goto, NoFault
  <1>7. ASSUME NEW t \in Threads, MailCounselor(t), NoFault PROVE MovesAreHeld'
    BY <1>7 DEF MailCounselor, Goto, NoFault
  <1>8. ASSUME NEW t \in Threads, Commit(t) PROVE MovesAreHeld'
    BY <1>8 DEF Commit, Goto, NoFault
  <1>9. ASSUME NEW t \in Threads, Refresh(t) PROVE MovesAreHeld'
    BY <1>9 DEF Refresh, Answer, NoFault
  <1>. QED
    BY <1>1, <1>2, <1>3, <1>4, <1>5, <1>6, <1>7, <1>8, <1>9
      DEF Next, Serve, Proceed, Refuse, ReadFails, FlushStudentFails,
          FlushStudentAndReloadFail, MailStudent, FlushCounselorFails, MailCounselor,
          CommitFails, RefreshFails, Reassign, Crash, Strike, NoFault, vars

LEMMA MailStep == Inv /\ MailsComeTrue /\ [Next]_vars => MailsComeTrue'
  <1>. SUFFICES ASSUME Inv, MailsComeTrue, [Next]_vars PROVE MailsComeTrue'
    OBVIOUS
  <1>1. MovesAreHeld'
    BY HeldStep DEF MailsComeTrue
  <1>2. SUFFICES ASSUME NEW mail \in mailed'
                 PROVE  \/ faults' > 0
                        \/ \E row \in history' : row.request = mail[1]
                        \/ \E t \in Threads : Running(t)' /\ HoldsMove(t)' /\ job'[t].request = mail[1]
    BY <1>1 DEF MailsComeTrue
  <1>3. CASE faults' > 0
    BY <1>3
  <1>4. CASE ~(faults' > 0)
    <2>1. faults = 0 /\ faults' = 0 /\ UNCHANGED faults
      BY <1>4 DEF Inv, TypeOK, Next, Serve, Proceed, Refuse, ReadFails, Load, FlushStudent,
        FlushStudentFails, FlushStudentAndReloadFail, MailStudent, FlushCounselor,
        FlushCounselorFails, MailCounselor, Commit, CommitFails, Refresh, RefreshFails,
        Reassign, Crash, Strike, NoFault, vars
    <2>2. history \subseteq history'
      BY DEF Next, Serve, Proceed, Refuse, ReadFails, Load, FlushStudent,
        FlushStudentFails, FlushStudentAndReloadFail, MailStudent, FlushCounselor,
        FlushCounselorFails, MailCounselor, Commit, CommitFails, Refresh, RefreshFails,
        Reassign, Crash, db, vars
    <2>3. ASSUME NEW t \in Threads, Running(t), HoldsMove(t), job[t].request = mail[1]
          PROVE  \/ \E row \in history' : row.request = mail[1]
                 \/ Running(t)' /\ HoldsMove(t)' /\ job'[t].request = mail[1]
      <3>. USE PipelineAssumption DEF Inv, TypeOK, Txn, Job, Steps, Running, HoldsMove
      <3>1. CASE UNCHANGED <<at, txn, job>>
        BY <2>3, <3>1
      <3>2. ASSUME NEW s \in Threads, Load(s) PROVE Running(t)' /\ HoldsMove(t)' /\ job'[t].request = mail[1]
        BY <2>3, <3>2 DEF Load, Receive, Goto
      <3>3. ASSUME NEW s \in Threads, FlushStudent(s) PROVE Running(t)' /\ HoldsMove(t)' /\ job'[t].request = mail[1]
        BY <2>3, <3>3 DEF FlushStudent, Goto
      <3>4. ASSUME NEW s \in Threads, MailStudent(s) PROVE Running(t)' /\ HoldsMove(t)' /\ job'[t].request = mail[1]
        BY <2>3, <3>4 DEF MailStudent, Goto
      <3>5. ASSUME NEW s \in Threads, FlushCounselor(s) PROVE Running(t)' /\ HoldsMove(t)' /\ job'[t].request = mail[1]
        BY <2>3, <3>5 DEF FlushCounselor, Goto
      <3>6. ASSUME NEW s \in Threads, MailCounselor(s) PROVE Running(t)' /\ HoldsMove(t)' /\ job'[t].request = mail[1]
        BY <2>3, <3>6 DEF MailCounselor, Goto
      <3>7. ASSUME NEW s \in Threads, Commit(s) PROVE Running(t)' /\ HoldsMove(t)' /\ job'[t].request = mail[1]
        BY <2>3, <3>7 DEF Commit, Goto
      <3>8. ASSUME NEW s \in Threads, Refresh(s)
            PROVE  \/ \E row \in history' : row.request = mail[1]
                   \/ Running(t)' /\ HoldsMove(t)' /\ job'[t].request = mail[1]
        <4>1. CASE s = t
          <5>1. \E row \in history : row.request = job[t].request
            BY <2>3, <3>8, <4>1 DEF Refresh, PipelineInv, MovesInFlight, Recorded
          <5>. QED
            BY <2>2, <2>3, <5>1
        <4>2. CASE s # t
          BY <2>3, <3>8, <4>2 DEF Refresh, Answer
        <4>. QED
          BY <4>1, <4>2
      <3>. QED
        BY <2>1, <3>1, <3>2, <3>3, <3>4, <3>5, <3>6, <3>7, <3>8
          DEF Next, Serve, Proceed, Refuse, ReadFails, FlushStudentFails,
              FlushStudentAndReloadFail, FlushCounselorFails, CommitFails, RefreshFails,
              Reassign, Crash, Strike, vars
    <2>4. CASE mail \in mailed
      <3>1. \/ \E row \in history : row.request = mail[1]
            \/ \E t \in Threads : Running(t) /\ HoldsMove(t) /\ job[t].request = mail[1]
        BY <2>1, <2>4 DEF MailsComeTrue
      <3>. QED
        BY <2>2, <2>3, <3>1
    <2>5. CASE mail \notin mailed
      <3>1. PICK t \in Threads : (MailStudent(t) \/ MailCounselor(t)) /\ mail[1] = job[t].request
        BY <2>5 DEF Next, Serve, Proceed, Refuse, ReadFails, Load, FlushStudent,
          FlushStudentFails, FlushStudentAndReloadFail, MailStudent, FlushCounselor,
          FlushCounselorFails, MailCounselor, Commit, CommitFails, Refresh, RefreshFails,
          Reassign, Crash, vars
      <3>2. Running(t) /\ HoldsMove(t)
        BY <2>1, <3>1 DEF MailsComeTrue, MovesAreHeld, MailStudent, MailCounselor, Goto, Running
      <3>. QED
        BY <2>3, <3>1, <3>2
    <2>. QED
      BY <2>4, <2>5
  <1>. QED
    BY <1>3, <1>4

(* Mail that left before its commit tells the truth, or is about to, unless *)
(* something failed.                                                        *)
THEOREM TrueMails == Spec => []MailsComeTrue
  <1>1. Init => MailsComeTrue
    BY DEF Init, MailsComeTrue, MovesAreHeld
  <1>. QED
    BY <1>1, MailStep, PipelineInvariant, PTL DEF Spec, Inv

-----------------------------------------------------------------------------
(* Refinement of AuditedStage.                                             *)

AuditTrail(rows) ==
  {[id |-> row.id, from |-> row.from, to |-> row.to] : row \in rows}

(* The abstract trail has the rule table of the detailed specification.    *)
LEMMA SameRules ==
  /\ Audited!Stages = Stages
  /\ \A from, to : Audited!IsValidTransition(from, to) <=> IsValidTransition(from, to)
  <1>1. Audited!TerminalStages = TerminalStages
    BY DEF Audited!TerminalStages, TerminalStages
  <1>2. Audited!Stages = Stages
    BY <1>1 DEF Audited!Stages, Stages
  <1>3. Audited!ForwardPath = ForwardPath /\ Audited!LoanLoop = LoanLoop
    BY DEF Audited!ForwardPath, ForwardPath, Audited!LoanLoop, LoanLoop
  <1>4. Audited!NonTerminalStages = NonTerminalStages
    BY <1>1, <1>2 DEF Audited!NonTerminalStages, NonTerminalStages
  <1>5. Audited!DefaultTransitions = DefaultTransitions
    BY <1>3, <1>4 DEF Audited!DefaultTransitions, DefaultTransitions
  <1>6. \A from, to : Audited!HasTenantRule(from, to) <=> HasTenantRule(from, to)
    BY DEF Audited!HasTenantRule, HasTenantRule
  <1>. QED
    BY <1>1, <1>2, <1>5, <1>6 DEF Audited!IsValidTransition, IsValidTransition

(* The move that the transaction of a thread holds, as the trail shows it. *)
MoveOf(t) == [id |-> txn[t].rowId, from |-> job[t].from, to |-> job[t].to]

(* Only a commit moves the application; it records a valid move whose row  *)
(* is newer than all others.                                               *)
LEMMA CommitRecords ==
  ASSUME Inv, NEW t \in Threads, Commit(t), HoldsMove(t)
  PROVE  Audited!Record(MoveOf(t)) /\ MoveOf(t) \in AuditTrail(history')
  <1>. USE DEF Inv, PipelineInv
  <1>1. /\ job[t].from \in Stages /\ job[t].to \in Stages
        /\ IsValidTransition(job[t].from, job[t].to)
    BY DEF Commit, Goto, MovesInFlight, Running
  <1>2. MoveOf(t) \in Audited!Row
    BY <1>1, SameRules DEF Audited!Row, TypeOK, Txn, MoveOf
  <1>3. lock = t
    BY DEF Commit, Goto, LockFollowsMove, Uncommitted
  <1>4. \A row \in history : row.id < txn[t].rowId
    BY <1>3 DEF RowIdsGrow
  <1>5. \A older \in AuditTrail(history) : older.id < MoveOf(t).id
    BY <1>4 DEF AuditTrail, MoveOf
  <1>6. history' = history \cup {PendingRow(t)} /\ stage' = MoveOf(t).to
    BY DEF Commit, MoveOf
  <1>7. [id |-> PendingRow(t).id, from |-> PendingRow(t).from,
         to |-> PendingRow(t).to] = MoveOf(t)
    BY DEF PendingRow, MoveOf
  <1>8. AuditTrail(history') = AuditTrail(history) \cup {MoveOf(t)}
    BY <1>6, <1>7 DEF AuditTrail
  <1>9. Audited!IsValidTransition(MoveOf(t).from, MoveOf(t).to)
    BY <1>1, SameRules DEF MoveOf
  <1>. QED
    BY <1>2, <1>5, <1>6, <1>8, <1>9 DEF Audited!Record, AuditTrail

LEMMA OnlyCommitsMove ==
  Inv /\ [Next]_vars =>
    \/ UNCHANGED <<stage, history>>
    \/ \E t \in Threads : Commit(t) /\ HoldsMove(t)
BY DEF Next, Serve, Proceed, Refuse, ReadFails, Load, FlushStudent, Commit,
  FlushStudentFails, FlushStudentAndReloadFail, MailStudent, FlushCounselor,
  FlushCounselorFails, MailCounselor, CommitFails, Refresh, RefreshFails,
  Reassign, Crash, db, vars

(* Stage and history table implement AuditedStage: they change together,   *)
(* by one valid transition at a time, in the order of the row ids.         *)
THEOREM ImplementsAuditTrail == Spec => KeepsAuditTrail
  <1>1. Init => Audited!Init
    BY PipelineAssumption, SameRules DEF Init, Audited!Init
  <1>2. Inv /\ [Next]_vars => [Audited!Move]_<<stage, AuditTrail(history)>>
    <2>. SUFFICES ASSUME Inv, NEW t \in Threads, Commit(t), HoldsMove(t)
                  PROVE  Audited!Move
      BY OnlyCommitsMove DEF AuditTrail
    <2>1. Audited!Record(MoveOf(t)) /\ MoveOf(t) \in AuditTrail(history')
      BY CommitRecords
    <2>. QED
      BY <2>1 DEF Audited!Move, Audited!Record, AuditTrail
  <1>. QED
    BY <1>1, <1>2, PipelineInvariant, PTL
    DEF Spec, Inv, KeepsAuditTrail, Audited!Trail, AuditTrail

-----------------------------------------------------------------------------
(* A single thread.                                                        *)

(* With one thread, what a request read is still true when it commits.     *)
ReadIsFresh == \A t \in Threads : Uncommitted(t) => job[t].from = stage

LEMMA FreshStep ==
  ASSUME NEW only, Threads = {only}, Inv, ReadIsFresh, [Next]_vars
  PROVE  ReadIsFresh'
  <1>. USE DEF ReadIsFresh, Uncommitted, Inv, TypeOK, Job, db
  <1>1. ASSUME NEW t \in Threads, Load(t) PROVE ReadIsFresh'
    BY <1>1 DEF Load
  <1>2. ASSUME NEW t \in Threads, FlushStudentFails(t) PROVE ReadIsFresh'
    BY <1>2 DEF FlushStudentFails, Goto
  <1>3. ASSUME NEW t \in Threads, Commit(t) PROVE ReadIsFresh'
    BY <1>3 DEF Commit, Goto
  <1>4. ASSUME UNCHANGED <<stage, job>>,
               \A t \in Threads : at'[t] # at[t] => at[t] \notin {"idle", "refresh"}
        PROVE  ReadIsFresh'
    BY <1>4
  <1>5. ASSUME NEW t \in Threads,
               \/ FlushStudentAndReloadFail(t) \/ CommitFails(t)
               \/ Refresh(t) \/ RefreshFails(t)
        PROVE  ReadIsFresh'
    BY <1>5 DEF FlushStudentAndReloadFail, CommitFails, Refresh, RefreshFails, Answer
  <1>6. ASSUME Crash PROVE ReadIsFresh'
    BY <1>6 DEF Crash
  <1>. QED
    BY <1>1, <1>2, <1>3, <1>4, <1>5, <1>6 DEF Next, Serve, Proceed, Refuse,
      ReadFails, FlushStudent, MailStudent, FlushCounselor,
      FlushCounselorFails, MailCounselor, Reassign, Goto, vars

(* A server that runs one request at a time keeps the strict trail: every  *)
(* row starts from the stage the application was in, so the trail is a     *)
(* chain and a terminal stage is final.  What breaks it with more threads  *)
(* is overlap, and nothing else.                                           *)
THEOREM OneThreadKeepsStrictTrail ==
  ASSUME NEW only, Threads = {only}
  PROVE  Spec => KeepsStrictTrail
  <1>1. Init => Audited!Init /\ ReadIsFresh
    BY PipelineAssumption, SameRules
    DEF Init, Audited!Init, ReadIsFresh, Uncommitted
  <1>2. Inv /\ ReadIsFresh /\ [Next]_vars => ReadIsFresh'
    BY FreshStep
  <1>3. Inv /\ ReadIsFresh /\ [Next]_vars =>
          [Audited!StrictMove]_<<stage, AuditTrail(history)>>
    <2>. SUFFICES ASSUME Inv, ReadIsFresh, NEW t \in Threads, Commit(t), HoldsMove(t)
                  PROVE  Audited!StrictMove
      BY OnlyCommitsMove DEF AuditTrail
    <2>1. Audited!Record(MoveOf(t)) /\ MoveOf(t) \in AuditTrail(history')
      BY CommitRecords
    <2>2. MoveOf(t).from = stage
      BY DEF ReadIsFresh, MoveOf, Uncommitted, Commit, Goto
    <2>. QED
      BY <2>1, <2>2 DEF Audited!StrictMove, Audited!Record, AuditTrail
  <1>. QED
    BY <1>1, <1>2, <1>3, PipelineInvariant, PTL
    DEF Spec, Inv, KeepsStrictTrail, Audited!StrictTrail, AuditTrail

(* In particular a terminal stage is final on such a server.               *)
THEOREM OneThreadKeepsTerminalFinal ==
  ASSUME NEW only, Threads = {only}
  PROVE  Spec => TerminalStagesAreFinal
  <1>1. Audited!StrictMove => stage \notin TerminalStages
    BY SameRules DEF Audited!StrictMove, Audited!Record, IsValidTransition
  <1>2. [Audited!StrictMove]_<<stage, AuditTrail(history)>> =>
          [(stage \in TerminalStages) => (stage' = stage)]_stage
    BY <1>1
  <1>. QED
    BY <1>2, OneThreadKeepsStrictTrail, PTL
    DEF KeepsStrictTrail, Audited!StrictTrail, TerminalStagesAreFinal, AuditTrail
=============================================================================
