--------------------------- MODULE StaffWorkProofs ---------------------------
(***************************************************************************)
(* Proofs about what staff do with applications: about                     *)
(* CounselorAssignment, who gets one, for every pool of threads, staff,    *)
(* branches and number of reassignments and staff changes; and about       *)
(* VisaProcessing, what they record on one, for every pool of threads, any *)
(* words, any stage to start in and any rules of the tenant. The two share *)
(* the server's threads and nothing else.                                  *)
(*                                                                         *)
(* Eligibility: whoever a request has read may still be assigned, or has   *)
(* changed since and is outdated (MayGet, Carries). Balance: a thread that *)
(* has chosen a counselor counts as if its application were there already  *)
(* (Aiming), so that loads and aims together are never further apart than  *)
(* there are threads (Even): a choice goes to a least loaded counselor, at *)
(* whom at most all threads aim.                                           *)
(*                                                                         *)
(* Recordings: a commit writes what the request carried, so the invariant  *)
(* says what each request carries at each step (JobOK): a body its schema  *)
(* let through, and loaded columns that are outdated in one way only, a    *)
(* row that was there is there still.  Whatever a commit does to the row   *)
(* is then one and the same step (Wrote): some of the columns it was asked *)
(* to set take the values it was asked to set them to.                     *)
(***************************************************************************)
EXTENDS CounselorAssignment, VisaProcessing, FiniteSetTheorems, SequenceTheorems,
        WellFoundedInduction, TLAPS

N == Cardinality(Threads)

-----------------------------------------------------------------------------
(* Assignment: types, and what requests in flight carry.                   *)

Row == [branch : Branches, counselor : Chosen]

AssignmentTyped ==
  /\ active \in [Staff -> BOOLEAN] /\ counseling \in [Staff -> BOOLEAN]
  /\ home \in [Staff -> Branches]
  /\ applications \in Seq(Row)
  /\ at \in [Threads -> Steps]
  /\ branch \in [Threads -> Branches]
  /\ choice \in [Threads -> SUBSET Chosen]
  /\ target \in [Threads -> [row : Nat, counselor : Chosen]]
  /\ unscoped \in [Threads -> BOOLEAN]
  /\ budget \in [reassigns : 0..MaxReassigns, changes : 0..MaxStaffChanges]
  /\ outdated \subseteq Staff

(* May be assigned by t: whoever has changed since t read is excepted.     *)
MayGet(t, c) ==
  \/ c \in outdated \cup {NoCounselor}
  \/ c \in Staff /\ active[c] /\ counseling[c] /\ (unscoped[t] \/ home[c] = branch[t])

Carries(t) ==
  /\ target[t].row <= Len(applications)
  /\ unscoped[t] => at[t] = "reassign"
  /\ at[t] \in {"loads", "insert", "reassign"} => \A c \in choice[t] : MayGet(t, c)
  /\ at[t] = "loads" => choice[t] # {} /\ choice[t] \subseteq Staff
  /\ at[t] = "reassign" => /\ target[t].row \in DOMAIN applications
                           /\ applications[target[t].row].branch = branch[t]

Base == AssignmentTyped /\ \A t \in Threads : Carries(t)

Home(b) == {c \in Staff : home[c] = b}

LEMMA AssignmentConstants ==
  ASSUME TRUE
  PROVE  /\ MaxApplications \in Nat /\ MaxReassigns \in Nat /\ MaxStaffChanges \in Nat
         /\ Staff \subseteq Nat /\ NoCounselor \notin Staff /\ NoBranch \in Branches
         /\ IsFiniteSet(Threads) /\ N \in Nat
  BY CounselorAssumption, FS_CardinalityType DEF NoBranch, N

LEMMA RowsAre ==
  ASSUME AssignmentTyped
  PROVE  /\ Len(applications) \in Nat /\ DOMAIN applications = 1..Len(applications)
         /\ \A i \in DOMAIN applications : applications[i] \in Row
  <1>1. applications \in Seq(Row)
    BY DEF AssignmentTyped
  <1>. HIDE DEF Row
  <1>. QED
    BY <1>1

(* A set of naturals has a least element: of its initial segments one      *)
(* contains no other.                                                      *)
LEMMA Least ==
  ASSUME NEW S \in SUBSET Nat, S # {}
  PROVE  \E m \in S : \A i \in S : m <= i
  <1>. DEFINE segments == {1..i : i \in S}
  <1>1. segments \subseteq FiniteSubsetsOf(Nat) /\ segments # {}
    <2>1. ASSUME NEW i \in S PROVE 1..i \in SUBSET Nat /\ IsFiniteSet(1..i)
      BY FS_Interval
    <2>2. ASSUME NEW i \in S PROVE 1..i \in FiniteSubsetsOf(Nat)
      BY <2>1 DEF FiniteSubsetsOf
    <2>. QED
      BY <2>2
  <1>2. PICK x \in segments : \A y \in segments : ~(<<y, x>> \in StrictSubsetOrdering(Nat))
    <2>. HIDE DEF segments
    <2>. QED
      BY <1>1, FS_StrictSubsetOrderingWellFounded, WFMin
  <1>3. PICK m \in S : x = 1..m
    OBVIOUS
  <1>4. ASSUME NEW i \in S, i < m PROVE FALSE
    <2>1. 1..i \in segments /\ (1..i) \subseteq Nat /\ x \subseteq Nat
      BY <1>3
    <2>2. 1..i \subseteq x /\ m \in x /\ m \notin 1..i
      BY <1>3, <1>4
    <2>. QED
      BY <1>2, <2>1, <2>2 DEF StrictSubsetOrdering
  <1>. QED
    BY <1>4

LEMMA LoadsAreNumbers ==
  ASSUME AssignmentTyped, NEW c, NEW b
  PROVE  /\ IsFiniteSet({i \in DOMAIN applications :
                           applications[i] = [branch |-> b, counselor |-> c]})
         /\ Load(c, b) \in Nat
  <1>. DEFINE rows == {i \in DOMAIN applications :
                         applications[i] = [branch |-> b, counselor |-> c]}
  <1>1. IsFiniteSet(1..Len(applications))
    BY RowsAre, FS_Interval
  <1>2. rows \subseteq 1..Len(applications)
    BY RowsAre
  <1>3. IsFiniteSet(rows)
    BY <1>1, <1>2, FS_Subset
  <1>. QED
    BY <1>3, FS_CardinalityType DEF Load

(* A row at the end leaves the others as they are.                         *)
LEMMA RowsAfter ==
  ASSUME AssignmentTyped, NEW row \in Row, applications' = Append(applications, row)
  PROVE  /\ applications' \in Seq(Row)
         /\ Len(applications') = Len(applications) + 1
         /\ DOMAIN applications' = 1..(Len(applications) + 1)
         /\ applications'[Len(applications) + 1] = row
         /\ \A i \in DOMAIN applications : applications'[i] = applications[i]
  <1>1. applications \in Seq(Row)
    BY DEF AssignmentTyped
  <1>. HIDE DEF Row
  <1>2. /\ Append(applications, row) \in Seq(Row)
        /\ Len(Append(applications, row)) = Len(applications) + 1
        /\ \A i \in 1..Len(applications) : Append(applications, row)[i] = applications[i]
        /\ Append(applications, row)[Len(applications) + 1] = row
    BY <1>1, AppendProperties
  <1>. QED
    BY <1>1, <1>2

LEMMA StartHolds == ASSUME AssignmentInit PROVE Base
  <1>1. Untargeted \in [row : Nat, counselor : Chosen] /\ Untargeted.row = 0
    BY DEF Untargeted, Chosen
  <1>2. <<>> \in Seq(Row) /\ Len(<<>>) = 0
    OBVIOUS
  <1>3. AssignmentTyped
    BY <1>1, <1>2, AssignmentConstants DEF AssignmentInit, AssignmentTyped, Steps, Untouched
  <1>4. ASSUME NEW t \in Threads PROVE Carries(t)
    <2>1. target[t] = Untargeted /\ unscoped[t] = FALSE /\ at[t] = "idle" /\ applications = <<>>
      BY DEF AssignmentInit
    <2>. QED
      BY <1>1, <1>2, <2>1 DEF Carries
  <1>. QED
    BY <1>3, <1>4 DEF Base

(* What other threads' steps leave to a thread.                            *)
LEMMA StaysCarried ==
  ASSUME Base, NEW u \in Threads, at'[u] = at[u], branch'[u] = branch[u],
         choice'[u] = choice[u], target'[u] = target[u], unscoped'[u] = unscoped[u],
         Len(applications) <= Len(applications'), Len(applications') \in Nat,
         DOMAIN applications \subseteq DOMAIN applications',
         \A i \in DOMAIN applications : applications'[i].branch = applications[i].branch,
         \A c \in choice[u] : MayGet(u, c) => MayGet(u, c)'
  PROVE  Carries(u)'
  <1>1. Carries(u) /\ target[u].row \in Nat /\ Len(applications) \in Nat
    BY RowsAre DEF Base, AssignmentTyped
  <1>2. target'[u].row <= Len(applications')
    BY <1>1 DEF Carries
  <1>3. at'[u] = "reassign" => /\ target'[u].row \in DOMAIN applications'
                               /\ applications'[target'[u].row].branch = branch'[u]
    BY <1>1 DEF Carries
  <1>. QED
    BY <1>1, <1>2, <1>3 DEF Carries

(* A thread that has answered carries nothing.                             *)
LEMMA FinishedCarries ==
  ASSUME Base, NEW t \in Threads, Finish(t), Len(applications') \in Nat
  PROVE  /\ Carries(t)'
         /\ at' \in [Threads -> Steps] /\ branch' \in [Threads -> Branches]
         /\ choice' \in [Threads -> SUBSET Chosen]
         /\ target' \in [Threads -> [row : Nat, counselor : Chosen]]
         /\ unscoped' \in [Threads -> BOOLEAN]
         /\ at'[t] = "idle"
         /\ \A u \in Threads \ {t} :
              /\ at'[u] = at[u] /\ branch'[u] = branch[u] /\ choice'[u] = choice[u]
              /\ target'[u] = target[u] /\ unscoped'[u] = unscoped[u]
  <1>1. Untargeted \in [row : Nat, counselor : Chosen] /\ Untargeted.row = 0
    BY DEF Untargeted, Chosen
  <1>2. /\ at'[t] = "idle" /\ target'[t] = Untargeted /\ unscoped'[t] = FALSE
    BY DEF Finish, Go, Base, AssignmentTyped
  <1>3. Carries(t)'
    BY <1>1, <1>2 DEF Carries
  <1>. QED
    BY <1>1, <1>2, <1>3, AssignmentConstants DEF Finish, Go, Base, AssignmentTyped, Steps

-----------------------------------------------------------------------------
(* Each step of an assignment.                                             *)

(* Staff and excuses unchanged: whoever could be assigned still can.       *)
LEMMA StillMayGet ==
  ASSUME NEW u \in Threads, UNCHANGED staff, outdated' = outdated,
         branch'[u] = branch[u], unscoped'[u] = unscoped[u]
  PROVE  \A c : MayGet(u, c) => MayGet(u, c)'
  BY DEF MayGet, staff

LEMMA ApplyHolds ==
  ASSUME Base, NEW t \in Threads, NEW b \in Branches, Apply(t, b)
  PROVE  Base'
  <1>1. AssignmentTyped'
    BY DEF Base, AssignmentTyped, Apply, Go, Steps, staff
  <1>2. Carries(t)'
    BY RowsAre DEF Base, AssignmentTyped, Carries, Apply, Go
  <1>3. ASSUME NEW u \in Threads, u # t PROVE Carries(u)'
    <2>1. /\ at'[u] = at[u] /\ branch'[u] = branch[u] /\ choice'[u] = choice[u]
          /\ target'[u] = target[u] /\ unscoped'[u] = unscoped[u]
          /\ applications' = applications /\ UNCHANGED staff /\ outdated' = outdated
      BY <1>3 DEF Base, AssignmentTyped, Apply, Go
    <2>. QED
      BY <2>1, StaysCarried, StillMayGet, RowsAre DEF Base
  <1>. QED
    BY <1>1, <1>2, <1>3 DEF Base

(* Whom the query finds may be assigned when it answers.                   *)
LEMMA ReadCounselorsHolds ==
  ASSUME Base, NEW t \in Threads, ReadCounselors(t)
  PROVE  Base'
  <1> DEFINE found == {c \in Staff : Eligible(c, branch[t])}
  <1>1. AssignmentTyped'
    <2>1. found \in SUBSET Chosen /\ {NoCounselor} \in SUBSET Chosen
      BY DEF Chosen
    <2>2. PICK among \in SUBSET Chosen, step \in Steps :
            /\ at' = [at EXCEPT ![t] = step] /\ choice' = [choice EXCEPT ![t] = among]
      BY <2>1 DEF ReadCounselors, Go, Steps
    <2>. QED
      BY <2>2 DEF Base, AssignmentTyped, ReadCounselors, staff
  <1>2. /\ at[t] = "counselors" /\ branch' = branch /\ target' = target
        /\ unscoped' = unscoped /\ applications' = applications
        /\ UNCHANGED staff /\ outdated' = outdated
        /\ unscoped[t] = FALSE /\ target[t].row <= Len(applications)
    BY DEF Base, AssignmentTyped, Carries, ReadCounselors
  <1>3. ASSUME found = {} PROVE Carries(t)'
    <2>1. at'[t] = "insert" /\ choice'[t] = {NoCounselor}
      BY <1>3 DEF Base, AssignmentTyped, ReadCounselors, Go
    <2>2. Carries(t)'
      BY <1>2, <2>1 DEF Carries, MayGet
    <2>. QED
      BY <2>2
  <1>4. ASSUME found # {} PROVE Carries(t)'
    <2>1. at'[t] = "loads" /\ choice'[t] = found
      BY <1>4 DEF Base, AssignmentTyped, ReadCounselors, Go
    <2>2. \A c \in found : MayGet(t, c)'
      BY <1>2 DEF MayGet, Eligible, staff
    <2>3. Carries(t)'
      BY <1>2, <1>4, <2>1, <2>2 DEF Carries
    <2>. QED
      BY <2>3
  <1>5. ASSUME NEW u \in Threads, u # t PROVE Carries(u)'
    <2>1. at'[u] = at[u] /\ choice'[u] = choice[u]
      BY <1>5 DEF Base, AssignmentTyped, ReadCounselors, Go
    <2>. QED
      BY <1>2, <2>1, StaysCarried, StillMayGet, RowsAre DEF Base
  <1>6. Carries(t)'
    BY <1>3, <1>4
  <1>. QED
    BY <1>1, <1>5, <1>6 DEF Base

(* There is a least loaded counselor: of the least load, the lowest id.    *)
LEMMA LeastLoadedIsLeast ==
  ASSUME Base, NEW b \in Branches, NEW from \in SUBSET Staff, from # {}
  PROVE  /\ LeastLoaded(from, b) \in from
         /\ \A d \in from : Load(LeastLoaded(from, b), b) <= Load(d, b)
  <1>1. ASSUME NEW c \in from PROVE Load(c, b) \in Nat
    BY LoadsAreNumbers DEF Base
  <1>2. PICK low \in {Load(c, b) : c \in from} : \A n \in {Load(c, b) : c \in from} : low <= n
    <2>. DEFINE loads == {Load(c, b) : c \in from}
    <2>1. loads \in SUBSET Nat /\ loads # {}
      BY <1>1
    <2>. HIDE DEF loads
    <2>2. \E m \in loads : \A n \in loads : m <= n
      BY <2>1, Least
    <2>. QED
      BY <2>2 DEF loads
  <1>3. PICK c \in {d \in from : Load(d, b) = low} : \A d \in {e \in from : Load(e, b) = low} : c <= d
    <2>. DEFINE lowest == {d \in from : Load(d, b) = low}
    <2>1. lowest \in SUBSET Nat /\ lowest # {}
      BY AssignmentConstants
    <2>. HIDE DEF lowest
    <2>2. \E m \in lowest : \A n \in lowest : m <= n
      BY <2>1, Least
    <2>. QED
      BY <2>2 DEF lowest
  <1>4. /\ c \in from
        /\ \A d \in from : Load(c, b) < Load(d, b) \/ (Load(c, b) = Load(d, b) /\ c <= d)
    <2>1. ASSUME NEW d \in from
          PROVE  Load(c, b) < Load(d, b) \/ (Load(c, b) = Load(d, b) /\ c <= d)
      <3>1. Load(c, b) = low /\ low <= Load(d, b) /\ Load(d, b) \in Nat /\ low \in Nat
        BY <1>1, <1>2, <1>3
      <3>2. Load(d, b) = low => c <= d
        BY <1>3
      <3>. QED
        BY <3>1, <3>2
    <2>. QED
      BY <2>1, <1>3
  <1>5. /\ LeastLoaded(from, b) \in from
        /\ \A d \in from : \/ Load(LeastLoaded(from, b), b) < Load(d, b)
                           \/ (/\ Load(LeastLoaded(from, b), b) = Load(d, b)
                               /\ LeastLoaded(from, b) <= d)
    BY <1>4 DEF LeastLoaded
  <1>. QED
    BY <1>1, <1>5

(* The choice stays among those the query found.                           *)
LEMMA ReadLoadsHolds ==
  ASSUME Base, NEW t \in Threads, ReadLoads(t)
  PROVE  Base'
  <1>1. /\ at[t] = "loads" /\ branch' = branch /\ target' = target
        /\ unscoped' = unscoped /\ applications' = applications
        /\ UNCHANGED staff /\ outdated' = outdated /\ UNCHANGED budget
        /\ choice[t] # {} /\ choice[t] \in SUBSET Staff /\ branch[t] \in Branches
        /\ unscoped[t] = FALSE /\ target[t].row <= Len(applications)
        /\ \A c \in choice[t] : MayGet(t, c)
    BY DEF Base, AssignmentTyped, Carries, ReadLoads
  <1>2. LeastLoaded(choice[t], branch[t]) \in choice[t]
    BY <1>1, LeastLoadedIsLeast
  <1>3. PICK c \in choice[t] : choice' = [choice EXCEPT ![t] = {c}]
    BY <1>2 DEF ReadLoads
  <1>4. c \in Chosen /\ at' = [at EXCEPT ![t] = "insert"]
    BY <1>1, <1>3 DEF Chosen, ReadLoads, Go
  <1>5. AssignmentTyped'
    BY <1>1, <1>3, <1>4 DEF Base, AssignmentTyped, Steps, staff
  <1>6. Carries(t)'
    <2>1. at'[t] = "insert" /\ choice'[t] = {c}
      BY <1>3, <1>4 DEF Base, AssignmentTyped
    <2>2. MayGet(t, c)'
      BY <1>1, StillMayGet
    <2>. QED
      BY <1>1, <2>1, <2>2 DEF Carries
  <1>7. ASSUME NEW u \in Threads, u # t PROVE Carries(u)'
    <2>1. at'[u] = at[u] /\ choice'[u] = choice[u]
      BY <1>3, <1>4, <1>7 DEF Base, AssignmentTyped
    <2>. QED
      BY <1>1, <2>1, StaysCarried, StillMayGet, RowsAre DEF Base
  <1>. QED
    BY <1>5, <1>6, <1>7 DEF Base

(* The new row goes to somebody who may be assigned.                       *)
LEMMA InsertHolds ==
  ASSUME Base, NEW t \in Threads, Insert(t)
  PROVE  /\ Base'
         /\ \E c \in choice[t] :
              /\ MayGet(t, c) /\ unscoped[t] = FALSE
              /\ applications' = Append(applications, [branch |-> branch[t], counselor |-> c])
  <1>1. PICK c \in choice[t] :
          applications' = Append(applications, [branch |-> branch[t], counselor |-> c])
    BY DEF Insert
  <1>2. /\ c \in Chosen /\ branch[t] \in Branches /\ MayGet(t, c) /\ unscoped[t] = FALSE
        /\ UNCHANGED <<staff, budget, outdated>> /\ Finish(t)
    BY DEF Base, AssignmentTyped, Carries, Insert
  <1>3. [branch |-> branch[t], counselor |-> c] \in Row
    BY <1>2 DEF Row
  <1>4. /\ applications' \in Seq(Row) /\ Len(applications) \in Nat
        /\ Len(applications') = Len(applications) + 1
        /\ DOMAIN applications \subseteq DOMAIN applications'
        /\ \A i \in DOMAIN applications : applications'[i] = applications[i]
    BY <1>1, <1>3, RowsAfter, RowsAre DEF Base
  <1>5. AssignmentTyped'
    BY <1>2, <1>4, FinishedCarries DEF Base, AssignmentTyped, staff
  <1>6. Carries(t)'
    BY <1>2, <1>4, FinishedCarries
  <1>7. ASSUME NEW u \in Threads, u # t PROVE Carries(u)'
    <2>1. /\ at'[u] = at[u] /\ branch'[u] = branch[u] /\ choice'[u] = choice[u]
          /\ target'[u] = target[u] /\ unscoped'[u] = unscoped[u]
      BY <1>2, <1>4, <1>7, FinishedCarries
    <2>2. Len(applications) <= Len(applications') /\ Len(applications') \in Nat
      BY <1>4
    <2>. QED
      BY <1>2, <1>4, <2>1, <2>2, StaysCarried, StillMayGet
  <1>. QED
    BY <1>1, <1>2, <1>5, <1>6, <1>7 DEF Base

LEMMA FailHolds ==
  ASSUME Base, NEW t \in Threads, Fail(t)
  PROVE  Base'
  <1>1. UNCHANGED <<staff, applications, budget, outdated>> /\ Finish(t)
    BY DEF Fail
  <1>2. Len(applications') \in Nat
    BY <1>1, RowsAre DEF Base
  <1>3. AssignmentTyped'
    BY <1>1, <1>2, FinishedCarries DEF Base, AssignmentTyped, staff
  <1>4. ASSUME NEW u \in Threads, u # t PROVE Carries(u)'
    <2>1. /\ at'[u] = at[u] /\ branch'[u] = branch[u] /\ choice'[u] = choice[u]
          /\ target'[u] = target[u] /\ unscoped'[u] = unscoped[u]
      BY <1>1, <1>2, <1>4, FinishedCarries
    <2>. QED
      BY <1>1, <1>2, <2>1, StaysCarried, StillMayGet, RowsAre DEF Base
  <1>. QED
    BY <1>1, <1>2, <1>3, <1>4, FinishedCarries DEF Base

LEMMA ReadTargetHolds ==
  ASSUME Base, NEW t \in Threads, NEW i \in DOMAIN applications, NEW c \in Chosen,
         NEW owner \in BOOLEAN, ReadTarget(t, i, c, owner)
  PROVE  Base'
  <1>1. /\ UNCHANGED <<staff, applications, outdated>>
        /\ at' = [at EXCEPT ![t] = "reassign"]
        /\ branch' = [branch EXCEPT ![t] = applications[i].branch]
        /\ choice' = [choice EXCEPT ![t] = {c}]
        /\ target' = [target EXCEPT ![t] = [row |-> i, counselor |-> applications[i].counselor]]
        /\ unscoped' = [unscoped EXCEPT ![t] = owner]
        /\ budget' = [budget EXCEPT !.reassigns = @ - 1] /\ budget.reassigns > 0
        /\ Acceptable(c, applications[i].branch, owner)
    BY DEF ReadTarget, Go
  <1>2. /\ i \in Nat /\ i <= Len(applications) /\ Len(applications) \in Nat
        /\ applications[i].branch \in Branches /\ applications[i].counselor \in Chosen
    <2>1. applications[i] \in Row /\ i \in 1..Len(applications) /\ Len(applications) \in Nat
      BY RowsAre DEF Base
    <2>. QED
      BY <2>1 DEF Row
  <1>3. [row |-> i, counselor |-> applications[i].counselor] \in [row : Nat, counselor : Chosen]
    BY <1>2
  <1>4. budget' \in [reassigns : 0..MaxReassigns, changes : 0..MaxStaffChanges]
    <2>1. budget.reassigns - 1 \in 0..MaxReassigns
      BY <1>1, AssignmentConstants DEF Base, AssignmentTyped
    <2>. QED
      BY <1>1, <2>1 DEF Base, AssignmentTyped
  <1>5. AssignmentTyped'
    BY <1>1, <1>2, <1>3, <1>4 DEF Base, AssignmentTyped, Steps, staff
  <1>6. Carries(t)'
    <2>1. /\ at'[t] = "reassign" /\ branch'[t] = applications[i].branch
          /\ choice'[t] = {c} /\ target'[t].row = i /\ unscoped'[t] = owner
      BY <1>1 DEF Base, AssignmentTyped
    <2>2. MayGet(t, c)'
      BY <1>1, <2>1 DEF MayGet, Acceptable, staff
    <2>. QED
      BY <1>1, <1>2, <2>1, <2>2 DEF Carries
  <1>7. ASSUME NEW u \in Threads, u # t PROVE Carries(u)'
    <2>1. /\ at'[u] = at[u] /\ branch'[u] = branch[u] /\ choice'[u] = choice[u]
          /\ target'[u] = target[u] /\ unscoped'[u] = unscoped[u]
      BY <1>1, <1>7 DEF Base, AssignmentTyped
    <2>2. applications' = applications /\ UNCHANGED staff /\ outdated' = outdated
      BY <1>1
    <2>. QED
      BY <2>1, <2>2, StaysCarried, StillMayGet, RowsAre DEF Base
  <1>. QED
    BY <1>5, <1>6, <1>7 DEF Base

(* The row named gets the counselor named; its branch, and every other     *)
(* row, stay.                                                              *)
LEMMA ReassignHolds ==
  ASSUME Base, NEW t \in Threads, Reassign(t)
  PROVE  /\ Base'
         /\ DOMAIN applications' = DOMAIN applications
         /\ \A i \in DOMAIN applications :
              \/ applications'[i] = applications[i]
              \/ /\ i = target[t].row
                 /\ applications'[i].branch = branch[t]
                 /\ MayGet(t, applications'[i].counselor)
  <1>1. PICK c \in choice[t] :
          IF c = target[t].counselor THEN UNCHANGED applications
          ELSE applications' = [applications EXCEPT ![target[t].row].counselor = c]
    BY DEF Reassign
  <1>2. /\ c \in Chosen /\ MayGet(t, c) /\ Finish(t)
        /\ UNCHANGED <<staff, budget, outdated>>
        /\ target[t].row \in DOMAIN applications
        /\ applications[target[t].row].branch = branch[t]
    BY DEF Base, AssignmentTyped, Carries, Reassign
  <1>3. \A i \in DOMAIN applications : [applications[i] EXCEPT !.counselor = c] \in Row
    <2>1. ASSUME NEW i \in DOMAIN applications
          PROVE  [applications[i] EXCEPT !.counselor = c] \in Row
      <3>1. applications[i] \in Row
        BY RowsAre DEF Base
      <3>. QED
        BY <1>2, <3>1 DEF Row
    <2>. QED
      BY <2>1
  <1>4. /\ applications' \in Seq(Row) /\ Len(applications') = Len(applications)
        /\ DOMAIN applications' = DOMAIN applications
        /\ \A i \in DOMAIN applications :
             \/ applications'[i] = applications[i]
             \/ i = target[t].row /\ applications'[i] = [applications[i] EXCEPT !.counselor = c]
    <2>1. CASE c = target[t].counselor
      BY <1>1, <2>1 DEF Base, AssignmentTyped
    <2>2. CASE c # target[t].counselor
      <3>1. applications' = [applications EXCEPT ![target[t].row] =
                               [applications[target[t].row] EXCEPT !.counselor = c]]
        BY <1>1, <1>2, <2>2
      <3>2. [applications[target[t].row] EXCEPT !.counselor = c] \in Row
        BY <1>2, <1>3
      <3>3. applications \in Seq(Row)
        BY DEF Base, AssignmentTyped
      <3>4. target[t].row \in 1..Len(applications)
        BY <1>2, RowsAre DEF Base
      <3>5. /\ applications' \in Seq(Row) /\ Len(applications') = Len(applications)
        <4>. DEFINE new == [applications[target[t].row] EXCEPT !.counselor = c]
        <4>. HIDE DEF new, Row
        <4>. QED
          BY <3>1, <3>2, <3>3, <3>4, ExceptSeq DEF new
      <3>. QED
        BY <3>1, <3>5, <1>2, RowsAre DEF Base
    <2>. QED
      BY <2>1, <2>2
  <1>5. \A i \in DOMAIN applications :
          /\ applications'[i].branch = applications[i].branch
          /\ \/ applications'[i] = applications[i]
             \/ i = target[t].row /\ applications'[i].counselor = c
    <2>1. ASSUME NEW i \in DOMAIN applications
          PROVE  /\ applications'[i].branch = applications[i].branch
                 /\ \/ applications'[i] = applications[i]
                    \/ i = target[t].row /\ applications'[i].counselor = c
      <3>1. applications[i] \in Row
        BY RowsAre DEF Base
      <3>2. CASE applications'[i] = applications[i]
        BY <3>2
      <3>3. CASE i = target[t].row /\ applications'[i] = [applications[i] EXCEPT !.counselor = c]
        BY <3>1, <3>3 DEF Row
      <3>. QED
        BY <1>4, <3>2, <3>3
    <2>. QED
      BY <2>1
  <1>6. Len(applications) \in Nat /\ Len(applications') \in Nat
    BY <1>4, RowsAre DEF Base
  <1>7. AssignmentTyped'
    BY <1>2, <1>4, <1>6, FinishedCarries DEF Base, AssignmentTyped, staff
  <1>8. ASSUME NEW u \in Threads, u # t PROVE Carries(u)'
    <2>1. /\ at'[u] = at[u] /\ branch'[u] = branch[u] /\ choice'[u] = choice[u]
          /\ target'[u] = target[u] /\ unscoped'[u] = unscoped[u]
      BY <1>2, <1>6, <1>8, FinishedCarries
    <2>2. Len(applications) <= Len(applications')
      BY <1>4, <1>6
    <2>. QED
      BY <1>2, <1>4, <1>5, <1>6, <2>1, <2>2, StaysCarried, StillMayGet
  <1>9. Base'
    BY <1>2, <1>6, <1>7, <1>8, FinishedCarries DEF Base
  <1>. QED
    BY <1>2, <1>4, <1>5, <1>9

(* Whoever changed under a request that had read them is outdated now.     *)
LEMMA StaffChangeHolds ==
  ASSUME Base, NEW t \in Threads, NEW c \in Staff, ChangeStaff(t, c),
         active' \in [Staff -> BOOLEAN], counseling' \in [Staff -> BOOLEAN],
         home' \in [Staff -> Branches],
         \A d \in Staff \ {c} :
           active'[d] = active[d] /\ counseling'[d] = counseling[d] /\ home'[d] = home[d]
  PROVE  Base'
  <1>1. /\ budget' = [budget EXCEPT !.changes = @ - 1] /\ budget.changes > 0
        /\ outdated' = outdated \cup {d \in {c} : \E s \in Threads : d \in choice[s]}
        /\ applications' = applications /\ at' = at /\ branch' = branch
        /\ choice' = choice /\ target' = target /\ unscoped' = unscoped
    BY DEF ChangeStaff, work
  <1>2. budget' \in [reassigns : 0..MaxReassigns, changes : 0..MaxStaffChanges]
    <2>1. budget.changes - 1 \in 0..MaxStaffChanges
      BY <1>1, AssignmentConstants DEF Base, AssignmentTyped
    <2>. QED
      BY <1>1, <2>1 DEF Base, AssignmentTyped
  <1>3. AssignmentTyped'
    BY <1>1, <1>2 DEF Base, AssignmentTyped
  <1>4. ASSUME NEW u \in Threads PROVE Carries(u)'
    <2>1. ASSUME NEW d \in choice[u], MayGet(u, d) PROVE MayGet(u, d)'
      <3>1. CASE d = c
        BY <1>1, <3>1 DEF MayGet
      <3>2. CASE d # c
        BY <1>1, <2>1, <3>2 DEF MayGet
      <3>. QED
        BY <3>1, <3>2
    <2>. QED
      BY <1>1, <2>1, StaysCarried, RowsAre DEF Base
  <1>. QED
    BY <1>3, <1>4 DEF Base

LEMMA BaseStep == ASSUME Base, [AssignmentNext]_assignmentVars PROVE Base'
  <1>1. CASE UNCHANGED assignmentVars
    <2>1. AssignmentTyped'
      BY <1>1 DEF Base, AssignmentTyped, assignmentVars, staff, work
    <2>2. ASSUME NEW u \in Threads PROVE Carries(u)'
      BY <1>1 DEF Base, Carries, MayGet, assignmentVars, staff, work
    <2>. QED
      BY <2>1, <2>2 DEF Base
  <1>2. ASSUME NEW t \in Threads, NEW c \in Staff,
               \/ SetActive(t, c)
               \/ \E counselor \in BOOLEAN, b \in Branches : UpdateStaff(t, c, counselor, b)
        PROVE  Base'
    <2>1. ChangeStaff(t, c)
      BY <1>2 DEF SetActive, UpdateStaff
    <2>2. /\ active' \in [Staff -> BOOLEAN] /\ counseling' \in [Staff -> BOOLEAN]
          /\ home' \in [Staff -> Branches]
          /\ \A d \in Staff \ {c} :
               active'[d] = active[d] /\ counseling'[d] = counseling[d] /\ home'[d] = home[d]
      BY <1>2 DEF Base, AssignmentTyped, SetActive, UpdateStaff
    <2>. QED
      BY <2>1, <2>2, StaffChangeHolds
  <1>. QED
    BY <1>1, <1>2, ApplyHolds, ReadCounselorsHolds, ReadLoadsHolds, InsertHolds,
       FailHolds, ReadTargetHolds, ReassignHolds DEF AssignmentNext

LEMMA BaseAlways == AssignmentSpec => []Base
  <1>1. AssignmentInit => Base
    BY StartHolds
  <1>2. Base /\ [AssignmentNext]_assignmentVars => Base'
    BY BaseStep
  <1>. QED
    BY <1>1, <1>2, PTL DEF AssignmentSpec

-----------------------------------------------------------------------------
(* Eligibility.                                                            *)

Eligibly ==
  \A i \in DOMAIN applications' :
    LET row == applications'[i] IN
    i \notin DOMAIN applications \/ applications[i] # row =>
      \/ row.counselor \in outdated \cup {NoCounselor}
      \/ /\ active[row.counselor] /\ counseling[row.counselor]
         /\ \/ home[row.counselor] = row.branch
            \/ \E t \in Threads : unscoped[t] /\ target[t].row = i

LEMMA AssignsEligibly == ASSUME Base, [AssignmentNext]_assignmentVars PROVE [Eligibly]_applications
  <1>1. ASSUME NEW t \in Threads, Insert(t) PROVE Eligibly
    <2>1. PICK c \in choice[t] :
            /\ MayGet(t, c) /\ unscoped[t] = FALSE
            /\ applications' = Append(applications, [branch |-> branch[t], counselor |-> c])
      BY <1>1, InsertHolds
    <2>. DEFINE row == [branch |-> branch[t], counselor |-> c]
    <2>2. row \in Row
      BY DEF Base, AssignmentTyped, Row
    <2>3. /\ DOMAIN applications' = 1..(Len(applications) + 1)
          /\ DOMAIN applications = 1..Len(applications) /\ Len(applications) \in Nat
          /\ applications'[Len(applications) + 1] = row
          /\ \A i \in DOMAIN applications : applications'[i] = applications[i]
      <3>. HIDE DEF row
      <3>. QED
        BY <2>1, <2>2, RowsAfter, RowsAre DEF Base, row
    <2>4. ASSUME NEW i \in DOMAIN applications',
                 i \notin DOMAIN applications \/ applications[i] # applications'[i]
          PROVE  applications'[i] = row
      BY <2>3, <2>4
    <2>5. \/ c \in outdated \cup {NoCounselor}
          \/ active[c] /\ counseling[c] /\ home[c] = branch[t]
      BY <2>1 DEF MayGet
    <2>. QED
      BY <2>4, <2>5 DEF Eligibly
  <1>2. ASSUME NEW t \in Threads, Reassign(t) PROVE Eligibly
    <2>1. /\ DOMAIN applications' = DOMAIN applications
          /\ \A i \in DOMAIN applications :
               \/ applications'[i] = applications[i]
               \/ /\ i = target[t].row
                  /\ applications'[i].branch = branch[t]
                  /\ MayGet(t, applications'[i].counselor)
      BY <1>2, ReassignHolds
    <2>. QED
      BY <2>1 DEF Eligibly, MayGet
  <1>. QED
    BY <1>1, <1>2 DEF AssignmentNext, assignmentVars, Apply, ReadCounselors, ReadLoads, Fail, ReadTarget,
       SetActive, UpdateStaff, ChangeStaff

(* Whoever gets an application may have it, or was changed under the       *)
(* request that had already read them.                                     *)
THEOREM EligibleCounselors == AssignmentSpec => AssignedIsEligible
  <1>1. Base /\ [AssignmentNext]_assignmentVars => [Eligibly]_applications
    BY AssignsEligibly
  <1>2. AssignmentSpec => [][Eligibly]_applications
    BY <1>1, BaseAlways, PTL DEF AssignmentSpec
  <1>. QED
    BY <1>2, PTL DEF AssignedIsEligible, Eligibly

-----------------------------------------------------------------------------
(* Even loads.                                                             *)

(* Threads about to give c an application of branch b.                     *)
Aiming(c, b) == {t \in Threads : at[t] = "insert" /\ choice[t] = {c} /\ branch[t] = b}

(* Applications under way count too: what a thread chose on old counts is  *)
(* accounted for before it arrives.                                        *)
Even ==
  \A b \in Branches : \A c, d \in Home(b) :
    Load(c, b) + Cardinality(Aiming(c, b)) <= Load(d, b) + N

Settled ==
  /\ \A c \in Staff : active[c] /\ counseling[c]
  /\ \A t \in Threads :
       /\ at[t] # "reassign"
       /\ at[t] = "loads" => choice[t] = Home(branch[t])
       /\ at[t] = "insert" => \E c \in Chosen : choice[t] = {c}
  /\ Even

Balance == budget = Untouched => Settled

LEMMA AimingIsCounted ==
  ASSUME NEW c, NEW b
  PROVE  /\ IsFiniteSet(Aiming(c, b)) /\ Cardinality(Aiming(c, b)) \in Nat
         /\ Cardinality(Aiming(c, b)) <= N
         /\ IsFiniteSet(Aiming(c, b)') /\ Cardinality(Aiming(c, b)') \in Nat
         /\ Cardinality(Aiming(c, b)') <= N
  <1>1. Aiming(c, b) \subseteq Threads /\ Aiming(c, b)' \subseteq Threads
    BY DEF Aiming
  <1>. QED
    BY <1>1, AssignmentConstants, FS_Subset, FS_CardinalityType DEF N

LEMMA LoadAfter ==
  ASSUME AssignmentTyped, NEW c0 \in Chosen, NEW b0 \in Branches,
         applications' = Append(applications, [branch |-> b0, counselor |-> c0]),
         NEW c, NEW b
  PROVE  Load(c, b)' = IF c = c0 /\ b = b0 THEN Load(c, b) + 1 ELSE Load(c, b)
  <1>. DEFINE row == [branch |-> b0, counselor |-> c0]
              rows == {i \in DOMAIN applications :
                         applications[i] = [branch |-> b, counselor |-> c]}
              n == Len(applications)
  <1>1. row \in Row
    BY DEF Row
  <1>2. /\ n \in Nat /\ DOMAIN applications = 1..n /\ DOMAIN applications' = 1..(n + 1)
        /\ applications'[n + 1] = row
        /\ \A i \in DOMAIN applications : applications'[i] = applications[i]
    <2>. HIDE DEF row
    <2>. QED
      BY <1>1, RowsAfter, RowsAre DEF row
  <1>3. IsFiniteSet(rows) /\ n + 1 \notin rows
    BY <1>2, LoadsAreNumbers
  <1>4. CASE c = c0 /\ b = b0
    <2>1. {i \in DOMAIN applications' :
             applications'[i] = [branch |-> b, counselor |-> c]} = rows \cup {n + 1}
      BY <1>2, <1>4
    <2>2. Cardinality(rows \cup {n + 1}) = Cardinality(rows) + 1
      BY <1>3, FS_AddElement
    <2>. QED
      BY <1>4, <2>1, <2>2 DEF Load
  <1>5. CASE ~(c = c0 /\ b = b0)
    <2>1. row # [branch |-> b, counselor |-> c]
      BY <1>5
    <2>2. {i \in DOMAIN applications' :
             applications'[i] = [branch |-> b, counselor |-> c]} = rows
      BY <1>2, <2>1
    <2>. QED
      BY <1>5, <2>2 DEF Load
  <1>. QED
    BY <1>4, <1>5

(* No new row, no new aim, and the loads stay as even as they were.        *)
LEMMA StaysEven ==
  ASSUME Base, Even, applications' = applications, home' = home,
         \A b \in Branches : \A c \in Staff : Aiming(c, b)' \subseteq Aiming(c, b)
  PROVE  Even'
  <1>1. SUFFICES ASSUME NEW b \in Branches, NEW c \in Home(b)', NEW d \in Home(b)'
                 PROVE  (Load(c, b) + Cardinality(Aiming(c, b)) <= Load(d, b) + N)'
    BY DEF Even
  <1>2. c \in Home(b) /\ d \in Home(b) /\ c \in Staff
    BY DEF Home
  <1>3. Load(c, b)' = Load(c, b) /\ Load(d, b)' = Load(d, b)
    BY DEF Load
  <1>4. Load(c, b) \in Nat /\ Load(d, b) \in Nat
    BY LoadsAreNumbers DEF Base
  <1>5. Cardinality(Aiming(c, b)') <= Cardinality(Aiming(c, b))
    <2>1. Aiming(c, b)' \subseteq Aiming(c, b) /\ IsFiniteSet(Aiming(c, b))
      BY <1>2, AimingIsCounted
    <2>. QED
      BY <2>1, FS_Subset
  <1>6. Cardinality(Aiming(c, b)') \in Nat /\ Cardinality(Aiming(c, b)) \in Nat /\ N \in Nat
    BY AimingIsCounted, AssignmentConstants
  <1>7. Load(c, b) + Cardinality(Aiming(c, b)) <= Load(d, b) + N
    BY <1>2 DEF Even
  <1>8. N' = N
    BY DEF N
  <1>. QED
    BY <1>3, <1>4, <1>5, <1>6, <1>7, <1>8

LEMMA BalanceAtStart == ASSUME AssignmentInit PROVE Balance
  <1>1. \A c, b : Load(c, b) = 0
    <2>1. DOMAIN applications = {}
      BY DEF AssignmentInit
    <2>2. Cardinality({}) = 0
      BY FS_EmptySet
    <2>3. ASSUME NEW c, NEW b PROVE Load(c, b) = 0
      BY <2>1, <2>2 DEF Load
    <2>. QED
      BY <2>3
  <1>2. Even
    BY <1>1, AimingIsCounted, AssignmentConstants DEF Even
  <1>. QED
    BY <1>2 DEF AssignmentInit, Balance, Settled

(* Aims of other threads are as they were.                                 *)
LEMMA AimsOfOthers ==
  ASSUME NEW t \in Threads, NEW c, NEW b,
         \A u \in Threads \ {t} :
           at'[u] = at[u] /\ choice'[u] = choice[u] /\ branch'[u] = branch[u],
         at'[t] = "insert" /\ choice'[t] = {c} => branch'[t] # b
  PROVE  Aiming(c, b)' \subseteq Aiming(c, b) \ {t}
  BY DEF Aiming

LEMMA BalanceReadCounselors ==
  ASSUME Base, Settled, NEW t \in Threads, ReadCounselors(t)
  PROVE  Settled'
  <1> DEFINE found == {c \in Staff : Eligible(c, branch[t])}
  <1>1. found = Home(branch[t]) /\ branch[t] \in Branches
    BY DEF Settled, Eligible, Home, Base, AssignmentTyped
  <1>2. /\ UNCHANGED <<staff, applications, branch, target, unscoped, budget, outdated>>
        /\ at[t] = "counselors"
    BY DEF ReadCounselors
  <1>3. \A u \in Threads \ {t} :
          at'[u] = at[u] /\ choice'[u] = choice[u] /\ branch'[u] = branch[u]
    BY DEF ReadCounselors, Go, Base, AssignmentTyped
  <1>4. \/ at'[t] = "insert" /\ choice'[t] = {NoCounselor}
        \/ at'[t] = "loads" /\ choice'[t] = found
    BY DEF ReadCounselors, Go, Base, AssignmentTyped
  <1>5. \A c \in Staff : NoCounselor # c
    BY AssignmentConstants
  <1>6. Even'
    <2>1. \A b \in Branches : \A c \in Staff : Aiming(c, b)' \subseteq Aiming(c, b)
      BY <1>3, <1>4, <1>5, AimsOfOthers
    <2>. QED
      BY <1>2, <2>1, StaysEven DEF staff, Settled
  <1>7. \A c \in Staff : active'[c] /\ counseling'[c]
    BY <1>2 DEF Settled, staff
  <1>8. Home(branch[t])' = Home(branch[t])
    BY <1>2 DEF Home, staff
  <1>9. ASSUME NEW u \in Threads
        PROVE  /\ at'[u] # "reassign"
               /\ at'[u] = "loads" => choice'[u] = Home(branch[u])'
               /\ at'[u] = "insert" => \E c \in Chosen : choice'[u] = {c}
    <2>1. CASE u = t
      BY <1>1, <1>4, <1>8, <2>1 DEF Chosen
    <2>2. CASE u # t
      BY <1>2, <1>3, <2>2 DEF Settled, Home, staff
    <2>. QED
      BY <2>1, <2>2
  <1>. QED
    BY <1>6, <1>7, <1>9 DEF Settled

(* The choice is one of the least loaded: with every thread aiming at it,  *)
(* it gets no further ahead than there are threads.                        *)
LEMMA BalanceReadLoads ==
  ASSUME Base, Settled, NEW t \in Threads, ReadLoads(t)
  PROVE  Settled'
  <1> DEFINE b0 == branch[t]
             c0 == LeastLoaded(choice[t], branch[t])
  <1>1. /\ UNCHANGED <<staff, applications, branch, target, unscoped, budget, outdated>>
        /\ at[t] = "loads" /\ b0 \in Branches
        /\ choice[t] = Home(b0) /\ choice[t] # {} /\ choice[t] \in SUBSET Staff
    BY DEF ReadLoads, Settled, Base, AssignmentTyped, Carries
  <1>2. c0 \in Home(b0) /\ \A d \in Home(b0) : Load(c0, b0) <= Load(d, b0)
    BY <1>1, LeastLoadedIsLeast
  <1>3. /\ \A u \in Threads \ {t} :
             at'[u] = at[u] /\ choice'[u] = choice[u] /\ branch'[u] = branch[u]
        /\ at'[t] = "insert" /\ choice'[t] = {c0} /\ branch'[t] = b0
    BY DEF ReadLoads, Go, Base, AssignmentTyped
  <1> HIDE DEF c0, b0
  <1>4. ASSUME NEW b \in Branches, NEW c \in Home(b)', NEW d \in Home(b)'
        PROVE  (Load(c, b) + Cardinality(Aiming(c, b)) <= Load(d, b) + N)'
    <2>1. /\ Load(c, b)' = Load(c, b) /\ Load(d, b)' = Load(d, b) /\ N' = N
          /\ c \in Home(b) /\ d \in Home(b)
      BY <1>1 DEF Load, N, Home, staff
    <2>2. /\ Load(c, b) \in Nat /\ Load(d, b) \in Nat /\ N \in Nat
          /\ Cardinality(Aiming(c, b)') \in Nat /\ Cardinality(Aiming(c, b)') <= N
          /\ Cardinality(Aiming(c, b)) \in Nat /\ IsFiniteSet(Aiming(c, b))
      BY LoadsAreNumbers, AimingIsCounted, AssignmentConstants DEF Base
    <2>3. CASE c = c0 /\ b = b0
      <3>1. Load(c, b) <= Load(d, b)
        BY <1>2, <2>1, <2>3
      <3>. QED
        BY <2>1, <2>2, <3>1
    <2>4. CASE ~(c = c0 /\ b = b0)
      <3>1. Aiming(c, b)' \subseteq Aiming(c, b)
        BY <1>3, <2>4, AimsOfOthers
      <3>2. Cardinality(Aiming(c, b)') <= Cardinality(Aiming(c, b))
        BY <2>2, <3>1, FS_Subset
      <3>3. Load(c, b) + Cardinality(Aiming(c, b)) <= Load(d, b) + N
        BY <2>1 DEF Settled, Even
      <3>. QED
        BY <2>1, <2>2, <3>2, <3>3
    <2>. QED
      BY <2>3, <2>4
  <1>5. Even'
    BY <1>4 DEF Even
  <1>6. \A c \in Staff : active'[c] /\ counseling'[c]
    BY <1>1 DEF Settled, staff
  <1>7. ASSUME NEW u \in Threads
        PROVE  /\ at'[u] # "reassign"
               /\ at'[u] = "loads" => choice'[u] = Home(branch[u])'
               /\ at'[u] = "insert" => \E c \in Chosen : choice'[u] = {c}
    <2>1. CASE u = t
      BY <1>2, <1>3, <2>1 DEF Chosen, Home
    <2>2. CASE u # t
      BY <1>1, <1>3, <2>2 DEF Settled, Home, staff
    <2>. QED
      BY <2>1, <2>2
  <1>. QED
    BY <1>5, <1>6, <1>7 DEF Settled

(* The load grows by one and one aim is gone.                              *)
LEMMA BalanceInsert ==
  ASSUME Base, Settled, NEW t \in Threads, Insert(t)
  PROVE  Settled'
  <1> DEFINE b0 == branch[t]
  <1>1. /\ at[t] = "insert" /\ b0 \in Branches /\ UNCHANGED <<staff, budget, outdated>>
        /\ Finish(t) /\ \E c \in Chosen : choice[t] = {c}
    BY DEF Insert, Settled, Base, AssignmentTyped
  <1>2. PICK c0 \in Chosen :
          /\ choice[t] = {c0}
          /\ applications' = Append(applications, [branch |-> b0, counselor |-> c0])
    BY <1>1 DEF Insert
  <1>3. /\ at'[t] = "idle"
        /\ \A u \in Threads \ {t} :
             at'[u] = at[u] /\ choice'[u] = choice[u] /\ branch'[u] = branch[u]
    BY <1>1 DEF Finish, Go, Base, AssignmentTyped
  <1>4. t \in Aiming(c0, b0)
    BY <1>1, <1>2 DEF Aiming
  <1> HIDE DEF b0
  <1>5. ASSUME NEW b \in Branches, NEW c \in Home(b)', NEW d \in Home(b)'
        PROVE  (Load(c, b) + Cardinality(Aiming(c, b)) <= Load(d, b) + N)'
    <2>1. N' = N /\ c \in Home(b) /\ d \in Home(b)
      BY <1>1 DEF N, Home, staff
    <2>2. /\ Load(c, b)' = IF c = c0 /\ b = b0 THEN Load(c, b) + 1 ELSE Load(c, b)
          /\ Load(d, b)' = IF d = c0 /\ b = b0 THEN Load(d, b) + 1 ELSE Load(d, b)
      BY <1>1, <1>2, LoadAfter DEF Base
    <2>3. /\ Load(c, b) \in Nat /\ Load(d, b) \in Nat /\ N \in Nat
          /\ Cardinality(Aiming(c, b)') \in Nat /\ Cardinality(Aiming(c, b)) \in Nat
          /\ IsFiniteSet(Aiming(c, b))
      BY LoadsAreNumbers, AimingIsCounted, AssignmentConstants DEF Base
    <2>4. Load(c, b) + Cardinality(Aiming(c, b)) <= Load(d, b) + N
      BY <2>1 DEF Settled, Even
    <2>5. Aiming(c, b)' \subseteq Aiming(c, b) \ {t}
      BY <1>3, AimsOfOthers
    <2>6. CASE c = c0 /\ b = b0
      <3>1. IsFiniteSet(Aiming(c, b) \ {t})
        BY <2>3, FS_Difference
      <3>2. Cardinality(Aiming(c, b) \ {t}) = Cardinality(Aiming(c, b)) - 1
        BY <1>4, <2>3, <2>6, FS_RemoveElement
      <3>3. Cardinality(Aiming(c, b)') <= Cardinality(Aiming(c, b) \ {t})
        BY <2>5, <3>1, FS_Subset
      <3>4. Cardinality(Aiming(c, b)') <= Cardinality(Aiming(c, b)) - 1
        BY <3>2, <3>3
      <3>. QED
        BY <2>1, <2>2, <2>3, <2>4, <2>6, <3>4
    <2>7. CASE ~(c = c0 /\ b = b0)
      <3>1. Cardinality(Aiming(c, b)') <= Cardinality(Aiming(c, b))
        BY <2>3, <2>5, FS_Subset
      <3>. QED
        BY <2>1, <2>2, <2>3, <2>4, <2>7, <3>1
    <2>. QED
      BY <2>6, <2>7
  <1>6. Even'
    BY <1>5 DEF Even
  <1>7. \A c \in Staff : active'[c] /\ counseling'[c]
    BY <1>1 DEF Settled, staff
  <1>8. ASSUME NEW u \in Threads
        PROVE  /\ at'[u] # "reassign"
               /\ at'[u] = "loads" => choice'[u] = Home(branch[u])'
               /\ at'[u] = "insert" => \E c \in Chosen : choice'[u] = {c}
    <2>1. CASE u = t
      BY <1>3, <2>1
    <2>2. CASE u # t
      BY <1>1, <1>3, <2>2 DEF Settled, Home, staff
    <2>. QED
      BY <2>1, <2>2
  <1>. QED
    BY <1>6, <1>7, <1>8 DEF Settled

LEMMA BalanceElsewhere ==
  ASSUME Base, Settled, NEW t \in Threads,
         (\E b \in Branches : Apply(t, b)) \/ Fail(t) \/ UNCHANGED assignmentVars
  PROVE  Settled'
  <1>1. UNCHANGED <<staff, applications, budget, outdated>>
    BY DEF Apply, Fail, assignmentVars
  <1>2. /\ \/ at'[t] \in {"idle", "counselors"}
           \/ at'[t] = at[t] /\ choice'[t] = choice[t] /\ branch'[t] = branch[t]
        /\ \A u \in Threads \ {t} :
             at'[u] = at[u] /\ choice'[u] = choice[u] /\ branch'[u] = branch[u]
    <2>1. CASE UNCHANGED assignmentVars
      BY <2>1 DEF assignmentVars, work
    <2>2. CASE \E b \in Branches : Apply(t, b)
      BY <2>2 DEF Apply, Go, Base, AssignmentTyped
    <2>3. CASE Fail(t)
      BY <2>3 DEF Fail, Finish, Go, Base, AssignmentTyped
    <2>. QED
      BY <2>1, <2>2, <2>3
  <1>3. Even'
    <2>1. \A b \in Branches : \A c \in Staff : Aiming(c, b)' \subseteq Aiming(c, b)
      BY <1>2 DEF Aiming
    <2>. QED
      BY <1>1, <2>1, StaysEven DEF staff, Settled
  <1>4. \A c \in Staff : active'[c] /\ counseling'[c]
    BY <1>1 DEF Settled, staff
  <1>5. ASSUME NEW u \in Threads
        PROVE  /\ at'[u] # "reassign"
               /\ at'[u] = "loads" => choice'[u] = Home(branch[u])'
               /\ at'[u] = "insert" => \E c \in Chosen : choice'[u] = {c}
    <2>1. CASE u = t
      BY <1>1, <1>2, <2>1 DEF Settled, Home, staff
    <2>2. CASE u # t
      BY <1>1, <1>2, <2>2 DEF Settled, Home, staff
    <2>. QED
      BY <2>1, <2>2
  <1>. QED
    BY <1>3, <1>4, <1>5 DEF Settled

(* A budget spent from is never whole again.                               *)
LEMMA BudgetsAreSpent ==
  ASSUME Base, NEW t \in Threads,
         \/ \E i \in DOMAIN applications, c \in Chosen, owner \in BOOLEAN : ReadTarget(t, i, c, owner)
         \/ \E c \in Staff : ChangeStaff(t, c)
  PROVE  budget' # Untouched
  <1>1. budget \in [reassigns : 0..MaxReassigns, changes : 0..MaxStaffChanges]
    BY DEF Base, AssignmentTyped
  <1>2. CASE \E i \in DOMAIN applications, c \in Chosen, owner \in BOOLEAN : ReadTarget(t, i, c, owner)
    <2>1. budget' = [budget EXCEPT !.reassigns = @ - 1]
      BY <1>2 DEF ReadTarget
    <2>2. budget'.reassigns = budget.reassigns - 1
      BY <1>1, <2>1
    <2>. QED
      BY <1>1, <2>2, AssignmentConstants DEF Untouched
  <1>3. CASE \E c \in Staff : ChangeStaff(t, c)
    <2>1. budget' = [budget EXCEPT !.changes = @ - 1]
      BY <1>3 DEF ChangeStaff
    <2>2. budget'.changes = budget.changes - 1
      BY <1>1, <2>1
    <2>. QED
      BY <1>1, <2>2, AssignmentConstants DEF Untouched
  <1>. QED
    BY <1>2, <1>3

LEMMA BalanceStep == ASSUME Base, Balance, [AssignmentNext]_assignmentVars PROVE Balance'
  <1>1. Untouched' = Untouched
    BY DEF Untouched
  <1>2. CASE UNCHANGED assignmentVars
    <2>1. budget' = budget
      BY <1>2 DEF assignmentVars
    <2>2. CASE budget = Untouched /\ \E t \in Threads : TRUE
      BY <1>1, <1>2, <2>1, <2>2, BalanceElsewhere DEF Balance
    <2>3. CASE budget = Untouched /\ Threads = {}
      <3>1. \A b, c : Aiming(c, b)' \subseteq Aiming(c, b)
        BY <2>3 DEF Aiming
      <3>2. Even'
        BY <1>2, <2>3, <3>1, StaysEven DEF Balance, Settled, assignmentVars, staff
      <3>3. \A c \in Staff : active'[c] /\ counseling'[c]
        BY <1>2, <2>3 DEF Balance, Settled, assignmentVars, staff
      <3>. QED
        BY <2>3, <3>2, <3>3 DEF Balance, Settled
    <2>. QED
      BY <1>1, <2>1, <2>2, <2>3 DEF Balance
  <1>3. ASSUME NEW t \in Threads, (\E b \in Branches : Apply(t, b)) \/ Fail(t)
        PROVE  Balance'
    <2>1. budget' = budget
      BY <1>3 DEF Apply, Fail
    <2>. QED
      BY <1>1, <1>3, <2>1, BalanceElsewhere DEF Balance
  <1>4. ASSUME NEW t \in Threads, ReadCounselors(t) \/ ReadLoads(t) \/ Insert(t)
        PROVE  Balance'
    <2>1. budget' = budget
      BY <1>4 DEF ReadCounselors, ReadLoads, Insert
    <2>. QED
      BY <1>1, <1>4, <2>1, BalanceReadCounselors, BalanceReadLoads, BalanceInsert DEF Balance
  <1>5. ASSUME NEW t \in Threads, Reassign(t)
        PROVE  Balance'
    <2>1. budget' = budget /\ at[t] = "reassign"
      BY <1>5 DEF Reassign
    <2>. QED
      BY <1>1, <2>1 DEF Balance, Settled
  <1>6. ASSUME NEW t \in Threads,
               \/ \E i \in DOMAIN applications, c \in Chosen, owner \in BOOLEAN :
                    ReadTarget(t, i, c, owner)
               \/ \E c \in Staff : SetActive(t, c)
               \/ \E c \in Staff, counselor \in BOOLEAN, b \in Branches :
                    UpdateStaff(t, c, counselor, b)
        PROVE  Balance'
    <2>1. budget' # Untouched
      BY <1>6, BudgetsAreSpent DEF SetActive, UpdateStaff
    <2>. QED
      BY <1>1, <2>1 DEF Balance
  <1>. QED
    BY <1>2, <1>3, <1>4, <1>5, <1>6 DEF AssignmentNext

(* Whatever the number of threads, the loads of a branch's counselors      *)
(* differ by no more than that number while nobody joins, leaves or is     *)
(* reassigned.                                                             *)
THEOREM NearlyEvenLoads == AssignmentSpec => []LoadsNearlyEven
  <1>1. AssignmentInit => Balance
    BY BalanceAtStart
  <1>2. Base /\ Balance /\ [AssignmentNext]_assignmentVars => Balance'
    BY BalanceStep
  <1>3. Base /\ Balance => LoadsNearlyEven
    <2>1. SUFFICES ASSUME Base, Balance PROVE LoadsNearlyEven
      OBVIOUS
    <2>2. AssignmentTypeOK
      <3>1. applications \in Seq([branch : Branches, counselor : Chosen])
        BY <2>1 DEF Base, AssignmentTyped, Row
      <3>2. target \in [Threads -> [row : 0..Len(applications), counselor : Chosen]]
        <4>1. \A t \in Threads : target[t] \in [row : 0..Len(applications), counselor : Chosen]
          <5>1. ASSUME NEW t \in Threads
                PROVE  target[t] \in [row : 0..Len(applications), counselor : Chosen]
            <6>1. /\ target[t] \in [row : Nat, counselor : Chosen]
                  /\ target[t].row <= Len(applications) /\ Len(applications) \in Nat
              BY <2>1, RowsAre DEF Base, AssignmentTyped, Carries
            <6>. QED
              BY <6>1
          <5>. QED
            BY <5>1
        <4>. QED
          BY <2>1, <4>1 DEF Base, AssignmentTyped
      <3>3. budget \in [reassigns : Nat, changes : Nat]
        BY <2>1, AssignmentConstants DEF Base, AssignmentTyped
      <3>. QED
        BY <2>1, <3>1, <3>2, <3>3 DEF Base, AssignmentTyped, AssignmentTypeOK
    <2>3. ASSUME budget = Untouched PROVE LoadsWithin(N)
      <3>1. ASSUME NEW b \in Branches, NEW c \in Home(b), NEW d \in Home(b)
            PROVE  Load(c, b) <= Load(d, b) + N
        <4>1. Load(c, b) + Cardinality(Aiming(c, b)) <= Load(d, b) + N
          BY <2>1, <2>3 DEF Balance, Settled, Even
        <4>2. /\ Load(c, b) \in Nat /\ Load(d, b) \in Nat /\ N \in Nat
              /\ Cardinality(Aiming(c, b)) \in Nat
          BY <2>1, LoadsAreNumbers, AimingIsCounted, AssignmentConstants DEF Base
        <4>. QED
          BY <4>1, <4>2
      <3>. QED
        BY <3>1 DEF LoadsWithin, Home
    <2>. QED
      BY <2>2, <2>3 DEF LoadsNearlyEven, N
  <1>. QED
    BY <1>1, <1>2, <1>3, BaseAlways, PTL DEF AssignmentSpec

-----------------------------------------------------------------------------
(* Visa and loan: the columns and the requests.                            *)

Values == Words \cup {"null"}

Recordings == {"detail", "outcome"}
Kinds == Recordings \cup {"loan", "opt-in", "move"}

Lasting == {"visa_type", "status"}

(* What the schemas and the pipeline let through.                          *)
Lets(kind, body) ==
  /\ kind \in Kinds
  /\ kind = "detail" => body \in [DetailColumns -> Values] /\ body["visa_type"] # "null"
  /\ kind = "outcome" => body \in [OutcomeColumns -> Values]
  /\ kind = "loan" => /\ DOMAIN body \subseteq LoanColumns
                      /\ \A c \in DOMAIN body : body[c] \in Values \cup {""}
  /\ kind = "opt-in" => body \in [{"loan_opt_in"} -> {"yes", "no"}]
  /\ kind = "move" => body \in [{"stage"} -> Stages]

Asked(j) == Lets(j.kind, j.body)

(* What the request sets of it.                                            *)
SetBy(j) == IF j.kind = "outcome" THEN OutcomeSet(j.body)
            ELSE IF j.kind = "loan" THEN LoanSet(j.body) ELSE j.body

IsJob(j) ==
  j = [kind |-> j.kind, body |-> j.body, loaded |-> j.loaded, moves |-> j.moves]

Carried(j) ==
  j.kind \in Recordings =>
    /\ HasRow(j.loaded, Table(j.kind)) => HasRow(db, Table(j.kind))
    /\ j.kind = "outcome" /\ ~HasRow(j.loaded, Table(j.kind)) => j.body["status"] # "null"

JobOK(t) ==
  /\ IsJob(job[t])
  /\ at[t] = "idle" => job[t] = NoJob
  /\ at[t] = "find" => job[t].kind \in Recordings /\ Asked(job[t])
  /\ at[t] = "commit" => Asked(job[t]) /\ Carried(job[t])
  /\ at[t] = "list" => /\ job[t].kind = "queue" /\ job[t].moves \in Nat /\ job[t].moves <= moves
                       /\ job[t].moves = moves => job[t].loaded["total"] = InVisaProcessing

RowValues == Stages \cup Words \cup {"null", "yes", "no"}
StepNames == {"idle", "find", "commit", "list"}

Typed ==
  /\ db \in [Columns -> RowValues]
  /\ at \in [Threads -> StepNames]
  /\ job = [t \in Threads |-> job[t]]
  /\ late \in Nat /\ moves \in Nat /\ requests \in Nat /\ faults \in Nat

Inv == Typed /\ \A t \in Threads : JobOK(t)

-----------------------------------------------------------------------------
(* Bodies                                                                  *)

LEMMA NullIsNoWord == {"null", "", "blank"} \cap Words = {}
  BY VisaAssumption

LEMMA DetailsAsked ==
  ASSUME NEW b \in DetailBodies
  PROVE  b \in [DetailColumns -> Values] /\ b["visa_type"] # "null"
  <1>1. PICK w \in [DetailColumns -> Written] :
          /\ b = [w EXCEPT !["visa_type"] = Trimmed(w["visa_type"])]
          /\ Trimmed(w["visa_type"]) \notin {"null", ""} /\ w["interview_date"] # "blank"
    BY DEF DetailBodies
  <1>2. /\ DetailColumns = {"visa_type", "interview_date"}
        /\ w["visa_type"] \in Written /\ w["interview_date"] \in Written
    BY DEF DetailColumns
  <1>3. Trimmed(w["visa_type"]) \in Values /\ w["interview_date"] \in Values
    BY <1>1, <1>2 DEF Written, Values, Trimmed
  <1>. QED
    BY <1>1, <1>2, <1>3

LEMMA OutcomesAsked ==
  ASSUME NEW b \in OutcomeBodies PROVE b \in [OutcomeColumns -> Values]
  <1>1. PICK w \in [OutcomeColumns -> Written] :
          /\ b = [w EXCEPT !["status"] = Trimmed(w["status"])]
          /\ Trimmed(w["status"]) # "" /\ w["outcome_date"] # "blank"
    BY DEF OutcomeBodies
  <1>2. /\ OutcomeColumns = {"status", "outcome_date"}
        /\ w["status"] \in Written /\ w["outcome_date"] \in Written
    BY DEF OutcomeColumns
  <1>3. Trimmed(w["status"]) \in Values /\ w["outcome_date"] \in Values
    BY <1>1, <1>2 DEF Written, Values, Trimmed
  <1>. QED
    BY <1>1, <1>2, <1>3

LEMMA LoansAsked ==
  ASSUME NEW b \in LoanBodies
  PROVE  DOMAIN b \subseteq LoanColumns /\ \A c \in DOMAIN b : b[c] \in Values \cup {""}
  <1>1. PICK named \in SUBSET LoanColumns : \E w \in [named -> Written] :
          b = [c \in named |-> Trimmed(w[c])]
    BY DEF LoanBodies
  <1>. QED
    BY <1>1 DEF Written, Values, Trimmed

(* What a request sets are columns of its table, to what its body says or, *)
(* where that is empty, to null; the columns a row always has are set to   *)
(* something, and only a null in an outcome sets nothing.                  *)
LEMMA SetAsAsked ==
  ASSUME NEW j, Asked(j)
  PROVE  /\ DOMAIN SetBy(j) \subseteq DOMAIN j.body /\ DOMAIN SetBy(j) \subseteq Table(j.kind)
         /\ \A c \in DOMAIN SetBy(j) :
              /\ SetBy(j)[c] = j.body[c] \/ (SetBy(j)[c] = "null" /\ j.body[c] = "")
              /\ SetBy(j)[c] \in RowValues
              /\ c \in Lasting => SetBy(j)[c] # "null"
         /\ \A c \in DOMAIN j.body \ DOMAIN SetBy(j) : j.kind = "outcome" /\ j.body[c] = "null"
  <1>1. CASE j.kind = "detail"
    <2>1. SetBy(j) = j.body /\ DOMAIN j.body = DetailColumns /\ Table(j.kind) = DetailColumns
      BY <1>1 DEF SetBy, Asked, Lets, Table
    <2>. QED
      BY <1>1, <2>1 DEF Asked, Lets, DetailColumns, Values, RowValues, Lasting
  <1>2. CASE j.kind = "outcome"
    <2>1. /\ SetBy(j) = OutcomeSet(j.body) /\ j.body \in [OutcomeColumns -> Values]
          /\ Table(j.kind) = OutcomeColumns
      BY <1>2 DEF SetBy, Asked, Lets, Table
    <2>. QED
      BY <1>2, <2>1 DEF OutcomeSet, Values, RowValues
  <1>3. CASE j.kind = "loan"
    <2>1. /\ SetBy(j) = LoanSet(j.body) /\ DOMAIN j.body \subseteq LoanColumns
          /\ Table(j.kind) = ApplicationColumns
          /\ \A c \in DOMAIN j.body : j.body[c] \in Values \cup {""}
      BY <1>3 DEF SetBy, Asked, Lets, Table
    <2>2. LoanColumns \subseteq ApplicationColumns /\ LoanColumns \cap Lasting = {}
      BY DEF LoanColumns, ApplicationColumns, Lasting
    <2>. QED
      BY <2>1, <2>2 DEF LoanSet, Values, RowValues
  <1>4. CASE j.kind \in {"opt-in", "move"}
    <2>1. SetBy(j) = j.body /\ Table(j.kind) = ApplicationColumns
      BY <1>4 DEF SetBy, Table
    <2>. QED
      BY <1>4, <2>1 DEF Asked, Lets, ApplicationColumns, RowValues, Lasting
  <1>. QED
    BY <1>1, <1>2, <1>3, <1>4 DEF Asked, Lets, Kinds, Recordings

(* The part of it about one column.                                        *)
LEMMA SetToBody ==
  ASSUME NEW j, Asked(j), NEW c \in DOMAIN SetBy(j)
  PROVE  c \in DOMAIN j.body
         /\ (SetBy(j)[c] = j.body[c] \/ (SetBy(j)[c] = "null" /\ j.body[c] = ""))
  BY SetAsAsked

(* What is asked for and not set was null.                                 *)
LEMMA NotSetIsKept ==
  ASSUME NEW j, Asked(j), NEW c \in DOMAIN j.body, c \notin DOMAIN SetBy(j)
  PROVE  j.kind = "outcome" /\ j.body[c] = "null"
  BY SetAsAsked

-----------------------------------------------------------------------------
(* What a commit does to the row                                           *)

With(j, named) == [c \in Columns |-> IF c \in named THEN SetBy(j)[c] ELSE db[c]]

Wrote(t) ==
  /\ at[t] = "commit" /\ End(t) /\ UNCHANGED <<requests, faults>>
  /\ \E named \in SUBSET DOMAIN SetBy(job[t]) :
       /\ db' = With(job[t], named)
       /\ job[t].kind \in Recordings /\ named # {} => HasRow(db', Table(job[t].kind))

LEMMA TablesApart ==
  /\ DetailColumns \subseteq Columns /\ OutcomeColumns \subseteq Columns
  /\ ApplicationColumns \subseteq Columns
  /\ \A row : /\ HasRow(row, DetailColumns) <=> row["visa_type"] # "null"
              /\ HasRow(row, OutcomeColumns) <=> row["status"] # "null"
  BY DEF DetailColumns, OutcomeColumns, ApplicationColumns, Columns, HasRow

LEMMA UpdateIsWith ==
  ASSUME Typed, NEW j, NEW loaded
  PROVE  /\ Updated(db, loaded, SetBy(j)) = With(j, Changed(loaded, SetBy(j)))
         /\ Changed(loaded, SetBy(j)) \subseteq DOMAIN SetBy(j)
         /\ Inserted(db, SetBy(j)) = With(j, DOMAIN SetBy(j))
         /\ db = With(j, {})
  BY DEF Typed, Updated, Inserted, With, Changed

(* A row that is there stays.                                              *)
LEMMA RowsLast ==
  ASSUME Typed, NEW j, Asked(j), NEW named \in SUBSET DOMAIN SetBy(j), db' = With(j, named)
  PROVE  /\ db' \in [Columns -> RowValues]
         /\ HasRow(db, DetailColumns) => HasRow(db', DetailColumns)
         /\ HasRow(db, OutcomeColumns) => HasRow(db', OutcomeColumns)
  <1>1. \A c \in Columns : db'[c] = IF c \in named THEN SetBy(j)[c] ELSE db[c]
    BY DEF With
  <1>2. "visa_type" \in Columns \cap Lasting /\ "status" \in Columns \cap Lasting
    BY DEF Columns, DetailColumns, OutcomeColumns, Lasting
  <1>3. db' \in [Columns -> RowValues]
    BY SetAsAsked DEF With, Typed
  <1>4. ASSUME NEW c \in Columns \cap Lasting, db[c] # "null" PROVE db'[c] # "null"
    <2>1. CASE c \in named
      <3>1. SetBy(j)[c] # "null"
        BY <2>1, SetAsAsked
      <3>. QED
        BY <1>1, <2>1, <3>1
    <2>2. CASE c \notin named
      BY <1>1, <1>4, <2>2
    <2>. QED
      BY <2>1, <2>2
  <1>. QED
    BY <1>2, <1>3, <1>4, TablesApart

LEMMA RecordWrote ==
  ASSUME Inv, NEW t \in Threads, CommitDetail(t) \/ CommitOutcome(t) PROVE Wrote(t)
  <1>. DEFINE j == job[t]
              table == Table(j.kind)
              raced == HasRow(db, table) /\ ~HasRow(j.loaded, table)
  <1>1. /\ at[t] = "commit" /\ j.kind \in Recordings /\ Asked(j) /\ Carried(j)
        /\ SetBy(j) = IF j.kind = "outcome" THEN OutcomeSet(j.body) ELSE j.body
    BY DEF CommitDetail, CommitOutcome, Recordings, Inv, JobOK, SetBy
  <1>2. /\ Record(t, SetBy(j)) /\ End(t) /\ UNCHANGED <<requests, faults>>
    BY <1>1 DEF CommitDetail, CommitOutcome, Record
  <1>3. CASE raced
    BY <1>1, <1>2, <1>3, UpdateIsWith DEF Record, Wrote, Inv
  <1>4. CASE ~raced /\ HasRow(j.loaded, table)
    <2>1. db' = With(j, Changed(j.loaded, SetBy(j))) /\ HasRow(db, table)
      BY <1>1, <1>2, <1>4, UpdateIsWith DEF Record, Carried, Inv
    <2>2. HasRow(db', table)
      BY <1>1, <2>1, UpdateIsWith, RowsLast DEF Inv, Table, Recordings
    <2>. QED
      BY <1>1, <1>2, <2>1, <2>2, UpdateIsWith DEF Wrote, Inv
  <1>5. CASE ~raced /\ ~HasRow(j.loaded, table)
    <2>1. db' = With(j, DOMAIN SetBy(j))
      BY <1>2, <1>5, UpdateIsWith DEF Record, Inv
    <2>2. \/ j.kind = "detail" /\ "visa_type" \in DOMAIN SetBy(j) /\ table = DetailColumns
          \/ j.kind = "outcome" /\ "status" \in DOMAIN SetBy(j) /\ table = OutcomeColumns
      BY <1>1, <1>5 DEF Recordings, Asked, Lets, Carried, OutcomeSet, DetailColumns, OutcomeColumns, Table
    <2>3. ASSUME NEW c \in Columns \cap Lasting \cap DOMAIN SetBy(j) PROVE db'[c] # "null"
      <3>1. Asked(job[t])
        BY <1>1
      <3>2. \A d \in DOMAIN SetBy(job[t]) : d \in Lasting => SetBy(job[t])[d] # "null"
        BY <3>1, SetAsAsked
      <3>3. SetBy(j)[c] # "null"
        BY <3>2
      <3>. QED
        BY <2>1, <3>3 DEF With
    <2>4. "visa_type" \in Columns \cap Lasting /\ "status" \in Columns \cap Lasting
      BY DEF Columns, DetailColumns, OutcomeColumns, Lasting
    <2>5. HasRow(db', table)
      BY <2>2, <2>3, <2>4, TablesApart
    <2>. QED
      BY <1>1, <1>2, <2>1, <2>5 DEF Wrote
  <1>. QED
    BY <1>3, <1>4, <1>5

LEMMA ColumnsWrote ==
  ASSUME Inv, NEW t \in Threads, CommitLoan(t) \/ CommitOptIn(t) \/ CommitMove(t) PROVE Wrote(t)
  <1>. DEFINE j == job[t]
  <1>1. /\ j.kind \notin Recordings /\ at[t] = "commit" /\ End(t) /\ UNCHANGED <<requests, faults>>
        /\ db' = Updated(db, j.loaded, SetBy(j))
    BY DEF CommitLoan, CommitOptIn, CommitMove, CommitApplication, Recordings, SetBy
  <1>. QED
    BY <1>1, UpdateIsWith DEF Wrote, Inv

-----------------------------------------------------------------------------
(* The invariant                                                           *)

Commits(t) ==
  \/ CommitDetail(t) \/ CommitOutcome(t)
  \/ CommitLoan(t) \/ CommitOptIn(t) \/ CommitMove(t)

Others(t) == \A u \in Threads \ {t} : at'[u] = at[u] /\ job'[u] = job[u]

LEMMA Ended ==
  ASSUME Typed, NEW t \in Threads, End(t)
  PROVE  /\ at' \in [Threads -> StepNames] /\ job' = [u \in Threads |-> job'[u]]
         /\ at'[t] = "idle" /\ job'[t] = NoJob /\ Others(t)
  BY DEF Typed, End, StepNames, Others

LEMMA Begun ==
  ASSUME Typed, NEW t \in Threads, NEW kind, NEW body, NEW loaded, NEW step \in StepNames,
         Begin(t, kind, body, loaded, step)
  PROVE  /\ at' \in [Threads -> StepNames] /\ job' = [u \in Threads |-> job'[u]]
         /\ at'[t] = step /\ Others(t) /\ IsJob(job'[t])
         /\ job'[t].kind = kind /\ job'[t].body = body /\ job'[t].loaded = loaded
         /\ job'[t].moves = moves
         /\ UNCHANGED <<db, late, moves, faults>> /\ requests' \in Nat /\ at[t] = "idle"
  <1>1. /\ at' = [at EXCEPT ![t] = step] /\ requests' = requests + 1
        /\ job' = [job EXCEPT ![t] = [kind |-> kind, body |-> body, loaded |-> loaded,
                                      moves |-> moves]]
        /\ UNCHANGED <<db, late, moves, faults>> /\ at[t] = "idle"
    BY DEF Begin
  <1>2. job'[t] = [kind |-> kind, body |-> body, loaded |-> loaded, moves |-> moves]
    BY <1>1 DEF Typed
  <1>3. IsJob(job'[t])
    BY <1>2 DEF IsJob
  <1>. QED
    BY <1>1, <1>2, <1>3 DEF Typed, Others

LEMMA FoundRow ==
  ASSUME Typed, NEW t \in Threads, IsJob(job[t]), Found(t)
  PROVE  /\ at' \in [Threads -> StepNames] /\ job' = [u \in Threads |-> job'[u]]
         /\ at'[t] = "commit" /\ Others(t) /\ IsJob(job'[t])
         /\ job'[t].kind = job[t].kind /\ job'[t].body = job[t].body
         /\ job'[t].loaded = Restricted(db, Table(job[t].kind))
  <1>. DEFINE new == [job[t] EXCEPT !.loaded = Restricted(db, Table(job[t].kind))]
  <1>1. at' = [at EXCEPT ![t] = "commit"] /\ job' = [job EXCEPT ![t] = new]
    BY DEF Found
  <1>2. new = [kind |-> job[t].kind, body |-> job[t].body,
               loaded |-> Restricted(db, Table(job[t].kind)), moves |-> job[t].moves]
    BY DEF IsJob
  <1>3. job'[t] = new
    BY <1>1 DEF Typed
  <1>4. IsJob(job'[t])
    BY <1>2, <1>3 DEF IsJob
  <1>. QED
    BY <1>1, <1>2, <1>3, <1>4 DEF Typed, StepNames, Others

LEMMA NoJobIsJob == IsJob(NoJob)
  BY DEF IsJob, NoJob

(* A request that does nothing in a step is as good as before, when rows   *)
(* last and the stage stays or the moves are counted.                      *)
LEMMA OthersKeep ==
  ASSUME Inv, NEW u \in Threads, at'[u] = at[u], job'[u] = job[u],
         HasRow(db, DetailColumns) => HasRow(db', DetailColumns),
         HasRow(db, OutcomeColumns) => HasRow(db', OutcomeColumns),
         (moves' = moves /\ db'["stage"] = db["stage"]) \/ moves' = moves + 1
  PROVE  JobOK(u)'
  <1>1. JobOK(u) /\ moves \in Nat
    BY DEF Inv, Typed
  <1>2. Carried(job[u]) => Carried(job[u])'
    BY DEF Carried, Table, Recordings
  <1>3. at[u] = "list" /\ job[u].moves = moves' => job[u].loaded["total"] = InVisaProcessing'
    BY <1>1 DEF JobOK, InVisaProcessing
  <1>. QED
    BY <1>1, <1>2, <1>3 DEF JobOK, Carried

LEMMA StageMovedByMoves ==
  ASSUME Inv, NEW t \in Threads, Commits(t)
  PROVE  /\ Wrote(t) /\ db' \in [Columns -> RowValues]
         /\ HasRow(db, DetailColumns) => HasRow(db', DetailColumns)
         /\ HasRow(db, OutcomeColumns) => HasRow(db', OutcomeColumns)
         /\ (moves' = moves /\ db'["stage"] = db["stage"]) \/ moves' = moves + 1
         /\ moves' \in Nat /\ late' \in Nat
  <1>1. Wrote(t)
    BY RecordWrote, ColumnsWrote DEF Commits
  <1>2. PICK named \in SUBSET DOMAIN SetBy(job[t]) : db' = With(job[t], named)
    BY <1>1 DEF Wrote
  <1>3. Asked(job[t])
    BY <1>1 DEF Wrote, Inv, JobOK
  <1>4. moves' = moves + 1 \/ (moves' = moves /\ job[t].kind # "move")
    BY DEF Commits, CommitDetail, CommitOutcome, CommitLoan, CommitOptIn, CommitMove, Record
  <1>5. job[t].kind # "move" => "stage" \notin named
    <2>1. CASE job[t].kind \in Recordings
      <3>1. DOMAIN SetBy(job[t]) \subseteq DetailColumns \cup OutcomeColumns
        BY <1>3, <2>1, SetAsAsked DEF Table, Recordings
      <3>. QED
        BY <3>1 DEF DetailColumns, OutcomeColumns
    <2>2. CASE job[t].kind = "loan"
      <3>1. DOMAIN SetBy(job[t]) \subseteq LoanColumns
        BY <1>3, <2>2, SetAsAsked DEF Asked, Lets
      <3>. QED
        BY <3>1 DEF LoanColumns
    <2>3. CASE job[t].kind = "opt-in"
      <3>1. DOMAIN SetBy(job[t]) \subseteq DOMAIN job[t].body
        BY <1>3, SetAsAsked
      <3>2. DOMAIN job[t].body = {"loan_opt_in"}
        BY <1>3, <2>3 DEF Asked, Lets
      <3>. QED
        BY <3>1, <3>2
    <2>. QED
      BY <1>3, <2>1, <2>2, <2>3 DEF Asked, Lets, Kinds
  <1>6. "stage" \in Columns
    BY DEF Columns, ApplicationColumns
  <1>7. job[t].kind # "move" => db'["stage"] = db["stage"]
    BY <1>2, <1>5, <1>6 DEF With
  <1>8. late' \in Nat
    BY DEF Commits, CommitDetail, CommitOutcome, CommitLoan, CommitOptIn, CommitMove, Record,
      Inv, Typed
  <1>. QED
    BY <1>1, <1>2, <1>3, <1>4, <1>7, <1>8, RowsLast DEF Inv, Typed

LEMMA CommitKeeps ==
  ASSUME Inv, NEW t \in Threads, Commits(t) PROVE Inv'
  <1>1. /\ Wrote(t) /\ db' \in [Columns -> RowValues] /\ moves' \in Nat /\ late' \in Nat
        /\ \A u \in Threads \ {t} : at'[u] = at[u] /\ job'[u] = job[u] => JobOK(u)'
    BY StageMovedByMoves, OthersKeep
  <1>2. /\ at' \in [Threads -> StepNames] /\ job' = [u \in Threads |-> job'[u]]
        /\ at'[t] = "idle" /\ job'[t] = NoJob /\ Others(t) /\ UNCHANGED <<requests, faults>>
    BY <1>1, Ended DEF Wrote, Inv
  <1>3. JobOK(t)'
    BY <1>2, NoJobIsJob DEF JobOK
  <1>. QED
    BY <1>1, <1>2, <1>3 DEF Inv, Typed, Others

(* The steps that leave the row as it is.                                  *)
LEMMA QuietKeeps ==
  ASSUME Inv, NEW t \in Threads, UNCHANGED <<db, late, moves>>, requests' \in Nat, faults' \in Nat,
         at' \in [Threads -> StepNames], job' = [u \in Threads |-> job'[u]], Others(t), JobOK(t)'
  PROVE  Inv'
  <1>1. ASSUME NEW u \in Threads \ {t} PROVE JobOK(u)'
    BY <1>1, OthersKeep DEF Others
  <1>. QED
    BY <1>1 DEF Inv, Typed

LEMMA EndKeeps ==
  ASSUME Inv, NEW t \in Threads, End(t), UNCHANGED <<db, late, moves, requests>>, faults' \in Nat
  PROVE  Inv'
  <1>1. /\ at' \in [Threads -> StepNames] /\ job' = [u \in Threads |-> job'[u]]
        /\ at'[t] = "idle" /\ job'[t] = NoJob /\ Others(t) /\ requests' \in Nat
    BY Ended DEF Inv, Typed
  <1>2. JobOK(t)'
    BY <1>1, NoJobIsJob DEF JobOK
  <1>. QED
    BY <1>1, <1>2, QuietKeeps

LEMMA Started ==
  ASSUME Inv, NEW t \in Threads, NEW kind, NEW body, NEW loaded, NEW step \in StepNames,
         Begin(t, kind, body, loaded, step),
         \/ step = "find" /\ kind \in Recordings /\ Lets(kind, body)
         \/ step = "commit" /\ kind \notin Recordings /\ Lets(kind, body)
         \/ step = "list" /\ kind = "queue" /\ loaded["total"] = InVisaProcessing
  PROVE  Inv'
  <1>1. /\ at' \in [Threads -> StepNames] /\ job' = [u \in Threads |-> job'[u]]
        /\ at'[t] = step /\ Others(t) /\ IsJob(job'[t])
        /\ job'[t].kind = kind /\ job'[t].body = body /\ job'[t].loaded = loaded
        /\ job'[t].moves = moves
        /\ UNCHANGED <<db, late, moves, faults>> /\ requests' \in Nat
    BY Begun DEF Inv
  <1>2. JobOK(t)'
    BY <1>1 DEF JobOK, Asked, Carried, Inv, Typed, InVisaProcessing
  <1>. QED
    BY <1>1, <1>2, QuietKeeps DEF Inv, Typed

Begins(t) ==
  \/ BeginDetail(t) \/ BeginOutcome(t) \/ BeginLoan(t) \/ BeginOptIn(t) \/ BeginMove(t)
  \/ QueueCounts(t)

LEMMA BeginKeeps ==
  ASSUME Inv, NEW t \in Threads, Begins(t) PROVE Inv'
  <1>0. {"find", "commit", "list"} \subseteq StepNames
    BY DEF StepNames
  <1>1. CASE BeginDetail(t)
    <2>1. PICK body \in DetailBodies : Begin(t, "detail", body, NoBody, "find")
      BY <1>1 DEF BeginDetail
    <2>2. Lets("detail", body)
      BY DetailsAsked DEF Lets, Kinds, Recordings
    <2>. QED
      BY <1>0, <2>1, <2>2, Started DEF Recordings
  <1>2. CASE BeginOutcome(t)
    <2>1. PICK body \in OutcomeBodies : Begin(t, "outcome", body, NoBody, "find")
      BY <1>2 DEF BeginOutcome
    <2>2. Lets("outcome", body)
      BY OutcomesAsked DEF Lets, Kinds, Recordings
    <2>. QED
      BY <1>0, <2>1, <2>2, Started DEF Recordings
  <1>3. CASE BeginLoan(t)
    <2>1. PICK body \in LoanBodies :
            Begin(t, "loan", body, Restricted(db, ApplicationColumns), "commit")
      BY <1>3 DEF BeginLoan
    <2>2. Lets("loan", body)
      BY LoansAsked DEF Lets, Kinds
    <2>. QED
      BY <1>0, <2>1, <2>2, Started DEF Recordings
  <1>4. CASE BeginOptIn(t)
    <2>1. PICK body \in OptInBodies :
            Begin(t, "opt-in", body, Restricted(db, ApplicationColumns), "commit")
      BY <1>4 DEF BeginOptIn
    <2>2. Lets("opt-in", body)
      BY DEF OptInBodies, Lets, Kinds
    <2>. QED
      BY <1>0, <2>1, <2>2, Started DEF Recordings
  <1>5. CASE BeginMove(t)
    <2>1. PICK to \in Stages :
            Begin(t, "move", [c \in {"stage"} |-> to], Restricted(db, ApplicationColumns), "commit")
      BY <1>5 DEF BeginMove
    <2>2. Lets("move", [c \in {"stage"} |-> to])
      BY DEF Lets, Kinds
    <2>. QED
      BY <1>0, <2>1, <2>2, Started DEF Recordings
  <1>6. CASE QueueCounts(t)
    <2>1. Begin(t, "queue", NoBody, [c \in {"total"} |-> InVisaProcessing], "list")
      BY <1>6 DEF QueueCounts
    <2>2. [c \in {"total"} |-> InVisaProcessing]["total"] = InVisaProcessing
      OBVIOUS
    <2>. QED
      BY <1>0, <2>1, <2>2, Started
  <1>. QED
    BY <1>1, <1>2, <1>3, <1>4, <1>5, <1>6 DEF Begins

LEMMA FindKeeps ==
  ASSUME Inv, NEW t \in Threads, FindDetail(t) \/ FindOutcome(t) PROVE Inv'
  <1>1. /\ UNCHANGED <<db, late, moves, requests, faults>> /\ at[t] = "find"
        /\ IsJob(job[t]) /\ job[t].kind \in Recordings /\ Asked(job[t]) /\ faults' \in Nat
    BY DEF FindDetail, FindOutcome, Inv, Typed, JobOK
  <1>2. CASE End(t)
    BY <1>1, <1>2, EndKeeps
  <1>3. CASE Found(t) /\ (job[t].kind = "outcome" =>
               HasRow(db, OutcomeColumns) \/ job[t].body["status"] # "null")
    <2>1. /\ at' \in [Threads -> StepNames] /\ job' = [u \in Threads |-> job'[u]]
          /\ at'[t] = "commit" /\ Others(t) /\ IsJob(job'[t])
          /\ job'[t].kind = job[t].kind /\ job'[t].body = job[t].body
          /\ job'[t].loaded = Restricted(db, Table(job[t].kind))
      BY <1>1, <1>3, FoundRow DEF Inv
    <2>2. /\ Table("detail") = DetailColumns /\ Table("outcome") = OutcomeColumns
          /\ HasRow(Restricted(db, DetailColumns), DetailColumns) <=> HasRow(db, DetailColumns)
          /\ HasRow(Restricted(db, OutcomeColumns), OutcomeColumns) <=> HasRow(db, OutcomeColumns)
      BY DEF Table, HasRow, Restricted
    <2>3. Carried(job[t])'
      BY <1>1, <1>3, <2>1, <2>2 DEF Carried, Recordings
    <2>4. Asked(job[t])'
      BY <1>1, <2>1 DEF Asked
    <2>5. JobOK(t)'
      BY <2>1, <2>3, <2>4 DEF JobOK, Carried
    <2>. QED
      BY <1>1, <2>1, <2>5, QuietKeeps DEF Inv, Typed
  <1>. QED
    BY <1>2, <1>3 DEF FindDetail, FindOutcome

LEMMA StepCases ==
  ASSUME NEW t, Step(t)
  PROVE  \/ Commits(t) \/ Begins(t) \/ FindDetail(t) \/ FindOutcome(t)
         \/ CommitFails(t) \/ QueueLists(t)
  BY DEF Step, Commits, Begins

LEMMA StepKeeps == ASSUME Inv, [Next]_vars PROVE Inv'
  <1>1. CASE UNCHANGED vars
    BY <1>1 DEF vars, Inv, Typed, JobOK, Carried, InVisaProcessing, HasRow
  <1>2. ASSUME NEW t \in Threads, CommitFails(t) \/ QueueLists(t) PROVE Inv'
    BY <1>2, EndKeeps DEF CommitFails, QueueLists, Inv, Typed
  <1>. QED
    BY <1>1, <1>2, StepCases, CommitKeeps, BeginKeeps, FindKeeps DEF Next

LEMMA InitHolds == Init => Inv
  <1>. SUFFICES ASSUME Init PROVE Inv
    OBVIOUS
  <1>1. db \in [Columns -> RowValues]
    <2>1. PICK r \in [Columns -> StartStages \cup {"null", "no"}] : db = r
      BY DEF Init
    <2>. QED
      BY <2>1, VisaAssumption DEF RowValues
  <1>2. at = [t \in Threads |-> "idle"] /\ job = [t \in Threads |-> NoJob]
    BY DEF Init
  <1>3. \A t \in Threads : JobOK(t)
    BY <1>2, NoJobIsJob DEF JobOK
  <1>. QED
    BY <1>1, <1>2, <1>3 DEF Init, Inv, Typed, StepNames

LEMMA Invariant == Spec => []Inv
  BY InitHolds, StepKeeps, PTL DEF Spec

-----------------------------------------------------------------------------
(* Rows                                                                    *)

RowsOK ==
  /\ HasRow(db, DetailColumns) \/ db["interview_date"] = "null"
  /\ HasRow(db, OutcomeColumns) \/ db["outcome_date"] = "null"

LEMMA OnlyCommitsWrite ==
  ASSUME [Next]_vars PROVE UNCHANGED db \/ \E t \in Threads : Commits(t)
  <1>1. ASSUME NEW t \in Threads, Step(t), ~Commits(t) PROVE UNCHANGED db
    BY <1>1, StepCases DEF Begins, BeginDetail, BeginOutcome, BeginLoan, BeginOptIn, BeginMove,
      QueueCounts, Begin, FindDetail, FindOutcome, CommitFails, QueueLists
  <1>. QED
    BY <1>1 DEF Next, vars

LEMMA RowsStep == ASSUME Inv, RowsOK, [Next]_vars PROVE RowsOK'
  <1>1. CASE UNCHANGED db
    BY <1>1 DEF RowsOK, HasRow
  <1>2. ASSUME NEW t \in Threads, Commits(t) PROVE RowsOK'
    <2>1. /\ Wrote(t) /\ Asked(job[t])
          /\ HasRow(db, DetailColumns) => HasRow(db', DetailColumns)
          /\ HasRow(db, OutcomeColumns) => HasRow(db', OutcomeColumns)
      BY <1>2, StageMovedByMoves DEF Wrote, Inv, JobOK
    <2>2. PICK named \in SUBSET DOMAIN SetBy(job[t]) :
            /\ db' = With(job[t], named)
            /\ job[t].kind \in Recordings /\ named # {} => HasRow(db', Table(job[t].kind))
      BY <2>1 DEF Wrote
    <2>3. named \subseteq Table(job[t].kind) /\ job[t].kind \in Kinds
      BY <2>1, SetAsAsked DEF Asked, Lets
    <2>4. /\ "interview_date" \in DetailColumns /\ "outcome_date" \in OutcomeColumns
          /\ "interview_date" \in Columns /\ "outcome_date" \in Columns
          /\ "interview_date" \notin OutcomeColumns \cup ApplicationColumns
          /\ "outcome_date" \notin DetailColumns \cup ApplicationColumns
      BY DEF DetailColumns, OutcomeColumns, ApplicationColumns, LoanColumns, Columns
    <2>5. Table("detail") = DetailColumns /\ Table("outcome") = OutcomeColumns
          /\ \A kind \in Kinds \ Recordings : Table(kind) = ApplicationColumns
      BY DEF Table, Kinds, Recordings
    <2>6. \A c \in Columns : c \notin named => db'[c] = db[c]
      BY <2>2 DEF With
    <2>7. /\ "interview_date" \in named => HasRow(db', DetailColumns)
          /\ "outcome_date" \in named => HasRow(db', OutcomeColumns)
      BY <2>2, <2>3, <2>4, <2>5 DEF Recordings
    <2>. QED
      BY <2>1, <2>4, <2>6, <2>7 DEF RowsOK
  <1>. QED
    BY <1>1, <1>2, OnlyCommitsWrite

-----------------------------------------------------------------------------
(* Late recordings                                                         *)

(* Those that may still come: a request begins to record in visa           *)
(* processing only, and the move that takes the application out of it      *)
(* holds a thread of its own.                                              *)
Recorders == {t \in Threads : at[t] # "idle" /\ job[t].kind \in Recordings}

LateInv ==
  /\ late < Cardinality(Threads)
  /\ ~InVisaProcessing => late + Cardinality(Recorders) < Cardinality(Threads)

LEMMA Counted ==
  /\ IsFiniteSet(Threads) /\ Cardinality(Threads) \in Nat /\ Cardinality(Threads) > 0
  /\ IsFiniteSet(Recorders) /\ Cardinality(Recorders) \in Nat
  /\ \A S \in SUBSET Recorders : Cardinality(S) \in Nat /\ Cardinality(S) <= Cardinality(Recorders)
  <1>1. IsFiniteSet(Threads) /\ Threads # {}
    BY VisaAssumption
  <1>2. Recorders \subseteq Threads
    BY DEF Recorders
  <1>. QED
    BY <1>1, <1>2, FS_Subset, FS_CardinalityType, FS_EmptySet

LEMMA FewerRecorders ==
  ASSUME Inv, LateInv, UNCHANGED late, Recorders' \subseteq Recorders,
         ~InVisaProcessing' => ~InVisaProcessing
  PROVE  LateInv'
  BY Counted DEF LateInv, Inv, Typed

LEMMA OthersBegin ==
  ASSUME Inv, LateInv, NEW t \in Threads, NEW kind, NEW body, NEW loaded, NEW step \in StepNames,
         Begin(t, kind, body, loaded, step), kind \notin Recordings
  PROVE  LateInv'
  <1>1. /\ UNCHANGED <<db, late>> /\ Others(t) /\ job'[t].kind = kind
    BY Begun DEF Inv
  <1>2. Recorders' \subseteq Recorders
    BY <1>1 DEF Recorders, Others
  <1>. QED
    BY <1>1, <1>2, FewerRecorders DEF InVisaProcessing

LEMMA LateStep == ASSUME Inv, LateInv, [Next]_vars PROVE LateInv'
  <1>1. CASE UNCHANGED vars
    BY <1>1 DEF vars, LateInv, Recorders, InVisaProcessing
  <1>2. ASSUME NEW t \in Threads, CommitDetail(t) \/ CommitOutcome(t) PROVE LateInv'
    <2>1. /\ at[t] = "commit" /\ job[t].kind \in Recordings /\ End(t)
          /\ late' = late \/ (late' = late + 1 /\ ~InVisaProcessing)
          /\ moves' = moves /\ db'["stage"] = db["stage"]
      BY <1>2, StageMovedByMoves DEF Commits, CommitDetail, CommitOutcome, Record, Recordings,
        Inv, Typed
    <2>2. Recorders' \subseteq Recorders \ {t} /\ t \in Recorders
      BY <2>1, Ended DEF Recorders, Others, Inv
    <2>3. CASE UNCHANGED late
      BY <2>1, <2>2, <2>3, FewerRecorders DEF InVisaProcessing
    <2>4. CASE late' = late + 1 /\ ~InVisaProcessing
      <3>1. Cardinality(Recorders \ {t}) = Cardinality(Recorders) - 1
        BY <2>2, Counted, FS_RemoveElement
      <3>2. IsFiniteSet(Recorders \ {t})
        BY Counted, FS_Subset
      <3>3. /\ Cardinality(Recorders') \in Nat
            /\ Cardinality(Recorders') <= Cardinality(Recorders) - 1
        BY <2>2, <3>1, <3>2, FS_Subset, FS_CardinalityType
      <3>. QED
        BY <2>4, <3>3, Counted DEF LateInv, Inv, Typed
    <2>. QED
      BY <2>1, <2>3, <2>4
  <1>3. ASSUME NEW t \in Threads, CommitMove(t) PROVE LateInv'
    <2>1. /\ Wrote(t) /\ job[t].kind \notin Recordings /\ Others(t) /\ at'[t] = "idle"
          /\ late' = IF InVisaProcessing THEN 0 ELSE late
      BY <1>3, ColumnsWrote, Ended DEF CommitMove, Wrote, Recordings, Inv
    <2>2. Recorders' \subseteq Recorders
      BY <2>1 DEF Recorders, Others
    <2>3. CASE InVisaProcessing
      <3>1. Recorders' \subseteq Threads \ {t}
        BY <2>1 DEF Recorders
      <3>2. IsFiniteSet(Threads \ {t}) /\ Cardinality(Threads \ {t}) = Cardinality(Threads) - 1
        BY Counted, FS_RemoveElement
      <3>3. Cardinality(Recorders') \in Nat /\ Cardinality(Recorders') <= Cardinality(Threads) - 1
        BY <3>1, <3>2, FS_Subset, FS_CardinalityType
      <3>. QED
        BY <2>1, <2>3, <3>3, Counted DEF LateInv
    <2>4. CASE ~InVisaProcessing
      BY <2>1, <2>2, <2>4, FewerRecorders
    <2>. QED
      BY <2>3, <2>4
  <1>4. ASSUME NEW t \in Threads, BeginDetail(t) \/ BeginOutcome(t) PROVE LateInv'
    <2>1. InVisaProcessing /\ UNCHANGED <<db, late>>
      BY <1>4 DEF BeginDetail, BeginOutcome, Begin
    <2>. QED
      BY <2>1 DEF LateInv, InVisaProcessing
  <1>5. ASSUME NEW t \in Threads,
               BeginLoan(t) \/ BeginOptIn(t) \/ BeginMove(t) \/ QueueCounts(t)
        PROVE  LateInv'
    <2>1. {"loan", "opt-in", "move", "queue"} \cap Recordings = {} /\ {"commit", "list"} \subseteq StepNames
      BY DEF Recordings, StepNames
    <2>2. CASE BeginLoan(t)
      <3>1. PICK body : Begin(t, "loan", body, Restricted(db, ApplicationColumns), "commit")
        BY <2>2 DEF BeginLoan
      <3>. QED
        BY <2>1, <3>1, OthersBegin
    <2>3. CASE BeginOptIn(t)
      <3>1. PICK body : Begin(t, "opt-in", body, Restricted(db, ApplicationColumns), "commit")
        BY <2>3 DEF BeginOptIn
      <3>. QED
        BY <2>1, <3>1, OthersBegin
    <2>4. CASE BeginMove(t)
      <3>1. PICK body : Begin(t, "move", body, Restricted(db, ApplicationColumns), "commit")
        BY <2>4 DEF BeginMove
      <3>. QED
        BY <2>1, <3>1, OthersBegin
    <2>5. CASE QueueCounts(t)
      <3>1. PICK loaded : Begin(t, "queue", NoBody, loaded, "list")
        BY <2>5 DEF QueueCounts
      <3>. QED
        BY <2>1, <3>1, OthersBegin
    <2>. QED
      BY <1>5, <2>2, <2>3, <2>4, <2>5
  <1>6. ASSUME NEW t \in Threads, FindDetail(t) \/ FindOutcome(t) PROVE LateInv'
    <2>1. /\ UNCHANGED <<db, late>> /\ at[t] = "find" /\ IsJob(job[t])
          /\ End(t) \/ Found(t)
      BY <1>6 DEF FindDetail, FindOutcome, Inv, JobOK
    <2>2. Others(t) /\ (at'[t] = "idle" \/ job'[t].kind = job[t].kind)
      BY <2>1, Ended, FoundRow DEF Inv
    <2>3. Recorders' \subseteq Recorders
      BY <2>1, <2>2 DEF Recorders, Others
    <2>. QED
      BY <2>1, <2>3, FewerRecorders DEF InVisaProcessing
  <1>7. ASSUME NEW t \in Threads,
               CommitFails(t) \/ QueueLists(t) \/ CommitLoan(t) \/ CommitOptIn(t)
        PROVE  LateInv'
    <2>1. /\ End(t) /\ UNCHANGED late /\ moves' = moves
          /\ UNCHANGED db \/ Commits(t)
      BY <1>7, ColumnsWrote DEF CommitFails, QueueLists, CommitLoan, CommitOptIn, Commits, Wrote
    <2>2. db'["stage"] = db["stage"]
      BY <2>1, StageMovedByMoves DEF Inv, Typed
    <2>3. Recorders' \subseteq Recorders
      BY <2>1, Ended DEF Recorders, Others, Inv
    <2>. QED
      BY <2>1, <2>2, <2>3, FewerRecorders DEF InVisaProcessing
  <1>. QED
    BY <1>1, <1>2, <1>3, <1>4, <1>5, <1>6, <1>7 DEF Next, Step

-----------------------------------------------------------------------------
(* What a step writes                                                      *)

Unclobbered ==
  \A c \in Columns : db'[c] # db[c] =>
    \E t \in Threads :
      /\ at[t] = "commit" /\ at'[t] = "idle"
      /\ c \in DOMAIN job[t].body
      /\ db'[c] = job[t].body[c] \/ (db'[c] = "null" /\ job[t].body[c] = "")

LEMMA StepUnclobbered == ASSUME Inv, [Next]_vars PROVE Unclobbered
  <1>1. ASSUME NEW t \in Threads, Commits(t) PROVE Unclobbered
    <2>1. Wrote(t) /\ Asked(job[t]) /\ at[t] = "commit" /\ at'[t] = "idle"
      BY <1>1, StageMovedByMoves, Ended DEF Wrote, Inv, JobOK
    <2>2. PICK named \in SUBSET DOMAIN SetBy(job[t]) : db' = With(job[t], named)
      BY <2>1 DEF Wrote
    <2>3. ASSUME NEW c \in Columns, db'[c] # db[c]
          PROVE  /\ c \in DOMAIN job[t].body
                 /\ db'[c] = job[t].body[c] \/ (db'[c] = "null" /\ job[t].body[c] = "")
      <3>1. c \in DOMAIN SetBy(job[t]) /\ db'[c] = SetBy(job[t])[c]
        BY <2>2, <2>3 DEF With
      <3>2. /\ c \in DOMAIN job[t].body
            /\ \/ SetBy(job[t])[c] = job[t].body[c]
               \/ SetBy(job[t])[c] = "null" /\ job[t].body[c] = ""
        BY <2>1, <3>1, SetToBody
      <3>. QED
        BY <3>1, <3>2
    <2>. QED
      BY <2>1, <2>3 DEF Unclobbered
  <1>2. CASE UNCHANGED db
    BY <1>2 DEF Unclobbered
  <1>. QED
    BY <1>1, <1>2, OnlyCommitsWrite

(* Whoever leaves its commit in a step takes that step.                    *)
LEMMA WhoEnds ==
  ASSUME Inv, [Next]_vars, NEW t \in Threads, at[t] \in {"commit", "list"}, at'[t] = "idle"
  PROVE  \/ at[t] = "commit" /\ (Commits(t) \/ CommitFails(t))
         \/ at[t] = "list" /\ QueueLists(t)
  <1>1. CASE UNCHANGED vars
    BY <1>1 DEF vars
  <1>2. ASSUME NEW u \in Threads, Step(u), u # t PROVE at'[t] = at[t]
    <2>1. \/ End(u) \/ Found(u)
          \/ \E kind, body, loaded, step : Begin(u, kind, body, loaded, step)
      BY <1>2 DEF Step, CommitFails, BeginDetail, FindDetail, CommitDetail, BeginOutcome,
        FindOutcome, CommitOutcome, BeginLoan, CommitLoan, BeginOptIn, CommitOptIn, BeginMove,
        CommitMove, QueueCounts, QueueLists, Record, CommitApplication
    <2>. QED
      BY <1>2, <2>1 DEF End, Found, Begin, Inv, Typed
  <1>3. ASSUME Step(t) PROVE Commits(t) \/ CommitFails(t) \/ QueueLists(t)
    BY <1>3, StepCases DEF Begins, BeginDetail, BeginOutcome, BeginLoan, BeginOptIn, BeginMove,
      QueueCounts, Begin, FindDetail, FindOutcome
  <1>4. /\ Commits(t) \/ CommitFails(t) => at[t] = "commit"
        /\ QueueLists(t) => at[t] = "list"
    BY DEF Commits, CommitDetail, CommitOutcome, CommitLoan, CommitOptIn, CommitMove,
      CommitApplication, CommitFails, QueueLists
  <1>. QED
    BY <1>1, <1>2, <1>3, <1>4 DEF Next

(* What a commit does to a row nobody changed since it was loaded.         *)
LEMMA UndisturbedWrites ==
  ASSUME Inv, NEW t \in Threads, Commits(t), NEW c \in DOMAIN SetBy(job[t]),
         job[t].loaded = Restricted(db, Table(job[t].kind))
  PROVE  db'[c] = SetBy(job[t])[c]
  <1>. DEFINE j == job[t]
  <1>1. Asked(j) /\ at[t] = "commit" /\ c \in Table(j.kind) /\ j.kind \in Kinds
    BY StageMovedByMoves, SetAsAsked DEF Wrote, Inv, JobOK, Asked, Lets
  <1>2. c \in Columns
    BY <1>1, TablesApart DEF Table, Kinds, Recordings
  <1>3. /\ j.loaded[c] = db[c]
        /\ HasRow(j.loaded, Table(j.kind)) <=> HasRow(db, Table(j.kind))
    BY <1>1 DEF Restricted, HasRow
  <1>4. \/ db' = Updated(db, j.loaded, SetBy(j))
        \/ db' = Inserted(db, SetBy(j))
    <2>1. CASE CommitDetail(t) \/ CommitOutcome(t)
      <3>1. Record(t, SetBy(j))
        BY <2>1 DEF CommitDetail, CommitOutcome, SetBy
      <3>. QED
        BY <1>3, <3>1 DEF Record
    <2>2. CASE CommitLoan(t) \/ CommitOptIn(t) \/ CommitMove(t)
      BY <2>2 DEF CommitLoan, CommitOptIn, CommitMove, CommitApplication, SetBy
    <2>. QED
      BY <2>1, <2>2 DEF Commits
  <1>. QED
    BY <1>2, <1>3, <1>4 DEF Updated, Inserted, Changed

Undisturbed ==
  \A t \in Threads :
    /\ at[t] = "commit" /\ at'[t] = "idle" /\ faults' = faults
    /\ job[t].loaded = Restricted(db, Table(job[t].kind))
    => \A c \in DOMAIN job[t].body :
         \/ db'[c] = job[t].body[c]
         \/ db'[c] = "null" /\ job[t].body[c] = ""
         \/ job[t].kind = "outcome" /\ job[t].body[c] = "null" /\ db'[c] = db[c]

LEMMA StepUndisturbed == ASSUME Inv, [Next]_vars PROVE Undisturbed
  <1>. SUFFICES ASSUME NEW t \in Threads, at[t] = "commit", at'[t] = "idle", faults' = faults,
                       job[t].loaded = Restricted(db, Table(job[t].kind)),
                       NEW c \in DOMAIN job[t].body
                PROVE  \/ db'[c] = job[t].body[c]
                       \/ db'[c] = "null" /\ job[t].body[c] = ""
                       \/ job[t].kind = "outcome" /\ job[t].body[c] = "null" /\ db'[c] = db[c]
    BY DEF Undisturbed
  <1>1. Commits(t)
    BY WhoEnds DEF CommitFails, Inv, Typed
  <1>2. Wrote(t) /\ Asked(job[t])
    BY <1>1, StageMovedByMoves DEF Inv, JobOK
  <1>3. CASE c \in DOMAIN SetBy(job[t])
    <2>1. db'[c] = SetBy(job[t])[c]
      BY <1>1, <1>3, UndisturbedWrites
    <2>2. \/ SetBy(job[t])[c] = job[t].body[c]
          \/ SetBy(job[t])[c] = "null" /\ job[t].body[c] = ""
      BY <1>2, <1>3, SetToBody
    <2>. QED
      BY <1>3, <2>1, <2>2
  <1>4. CASE c \notin DOMAIN SetBy(job[t])
    <2>1. job[t].kind = "outcome" /\ job[t].body[c] = "null"
      BY <1>2, <1>4, NotSetIsKept
    <2>2. c \in Columns
      BY <1>2, <2>1, TablesApart DEF Asked, Lets
    <2>3. db'[c] = db[c]
      BY <1>2, <1>4, <2>2 DEF Wrote, With
    <2>. QED
      BY <2>1, <2>3
  <1>. QED
    BY <1>3, <1>4

FirstStands ==
  \A t \in Threads :
    /\ at[t] = "commit" /\ at'[t] = "idle" /\ job[t].kind \in {"detail", "outcome"}
    /\ HasRow(db, Table(job[t].kind)) /\ ~HasRow(job[t].loaded, Table(job[t].kind))
    => db' = db

LEMMA StepFirstStands == ASSUME Inv, [Next]_vars PROVE FirstStands
  <1>. SUFFICES ASSUME NEW t \in Threads, at[t] = "commit", at'[t] = "idle",
                       job[t].kind \in {"detail", "outcome"}, HasRow(db, Table(job[t].kind)),
                       ~HasRow(job[t].loaded, Table(job[t].kind))
                PROVE  db' = db
    BY DEF FirstStands
  <1>1. CommitDetail(t) \/ CommitOutcome(t) \/ CommitFails(t)
    BY WhoEnds DEF Commits, CommitLoan, CommitOptIn, CommitMove
  <1>. QED
    BY <1>1 DEF CommitDetail, CommitOutcome, CommitFails, Record

QueueAgrees ==
  \A t \in Threads :
    at[t] = "list" /\ at'[t] = "idle" /\ job[t].moves = moves
      => job[t].loaded["total"] = InVisaProcessing

LEMMA StateQueueAgrees == ASSUME Inv PROVE QueueAgrees
  BY DEF Inv, JobOK, QueueAgrees

-----------------------------------------------------------------------------
(* A detail has its type, an outcome its status, no text is blank and an   *)
(* emptied loan column is null, however requests overlap.                  *)
THEOREM RowsWellFormed == Spec => []RowsAreWellFormed
  <1>1. Init => RowsOK
    BY DEF Init, RowsOK, Columns, DetailColumns, OutcomeColumns
  <1>2. Inv /\ RowsOK /\ [Next]_vars => RowsOK'
    BY RowsStep
  <1>3. Inv /\ RowsOK => RowsAreWellFormed
    BY DEF Inv, Typed, JobOK, RowsOK, RowsAreWellFormed, TypeOK, RowValues, StepNames
  <1>. QED
    BY <1>1, <1>2, <1>3, Invariant, PTL DEF Spec

(* Since the application last left visa processing, fewer recordings than  *)
(* there are threads have landed.                                          *)
THEOREM LateRecordingsBounded == Spec => []LateRecordingsAreBounded
  <1>1. Init => LateInv
    <2>. SUFFICES ASSUME Init PROVE LateInv
      OBVIOUS
    <2>1. late = 0 /\ Recorders = {}
      BY DEF Init, Recorders
    <2>. QED
      BY <2>1, Counted, FS_EmptySet DEF LateInv
  <1>2. Inv /\ LateInv /\ [Next]_vars => LateInv'
    BY LateStep
  <1>3. LateInv => LateRecordingsAreBounded
    BY DEF LateInv, LateRecordingsAreBounded
  <1>. QED
    BY <1>1, <1>2, <1>3, Invariant, PTL DEF Spec

(* Requests leave in the row what they were asked for, and nothing else;   *)
(* the first of two recordings stands; the queue agrees with itself unless *)
(* the application moved.                                                  *)
THEOREM RowsHold == Spec => RowsHoldRequests
  <1>1. Inv /\ [Next]_vars => [Unclobbered]_vars
    BY StepUnclobbered
  <1>2. Inv /\ [Next]_vars => [Undisturbed]_vars
    BY StepUndisturbed
  <1>3. Inv /\ [Next]_vars => [FirstStands]_vars
    BY StepFirstStands
  <1>4. Inv /\ [Next]_vars => [QueueAgrees]_vars
    BY StateQueueAgrees
  <1>5. Spec => [][Unclobbered]_vars
    BY <1>1, Invariant, PTL DEF Spec
  <1>6. Spec => [][Undisturbed]_vars
    BY <1>2, Invariant, PTL DEF Spec
  <1>7. Spec => [][FirstStands]_vars
    BY <1>3, Invariant, PTL DEF Spec
  <1>8. Spec => [][QueueAgrees]_vars
    BY <1>4, Invariant, PTL DEF Spec
  <1>. QED
    BY <1>5, <1>6, <1>7, <1>8 DEF RowsHoldRequests, NoColumnIsClobbered,
      UndisturbedRequestsAreStored, FirstRecordingStands, QueueAgreesUnlessMoved,
      Unclobbered, Undisturbed, FirstStands, QueueAgrees
=============================================================================
