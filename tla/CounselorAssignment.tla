------------------------ MODULE CounselorAssignment ------------------------
(***************************************************************************)
(* Who works on an application: round-robin assignment when a student      *)
(* creates one (backend/app/services/counselor_assignment.py, called by    *)
(* create_application), reassignment by hand, and the staff changes that   *)
(* make a counselor eligible or not.  Creation reads the counselors of the *)
(* branch, then counts their applications, then commits the new one; each  *)
(* is a statement of its own, so other threads' commits come in between.   *)
(* A staff change writes a constant the request names and is a single step *)
(* here: read early and written late it leaves what it would leave when it *)
(* ran at once.                                                            *)
(***************************************************************************)
EXTENDS Server, Integers, Sequences, FiniteSets

CONSTANTS
  Branches,
  Staff,            \* user ids of the staff
  NoCounselor,      \* assigned_counselor_id is null
  MaxApplications,  \* bound: applications created
  MaxReassigns,     \* bound: reassignments begun
  MaxStaffChanges   \* bound: changes of staff

ASSUME CounselorAssumption ==
  /\ IsFiniteSet(Threads) /\ Branches # {}
  /\ Staff \subseteq Nat /\ NoCounselor \notin Staff
  /\ {MaxApplications, MaxReassigns, MaxStaffChanges} \subseteq Nat

VARIABLES
  active,        \* users.is_active
  counseling,    \* the user's role is counselor
  home,          \* users.branch_id
  applications,  \* rows in the order of their ids: branch and counselor
  branch,        \* branch of the student, or of the application
  choice,        \* the eligible counselors read, then the one chosen
  target,        \* application a reassignment loaded: its row and counselor
  unscoped,      \* the reassigning user is a consultancy owner
  budget,        \* reassignments and staff changes left
  outdated       \* staff changed while a request had them read (history)

staff == <<active, counseling, home>>
work == <<branch, choice, target, unscoped>>
assignmentVars == <<staff, applications, at, work, budget, outdated>>

Chosen == Staff \cup {NoCounselor}
Steps == {"idle", "counselors", "loads", "insert", "reassign"}

AssignmentTypeOK ==
  /\ active \in [Staff -> BOOLEAN] /\ counseling \in [Staff -> BOOLEAN]
  /\ home \in [Staff -> Branches]
  /\ applications \in Seq([branch : Branches, counselor : Chosen])
  /\ at \in [Threads -> Steps]
  /\ branch \in [Threads -> Branches]
  /\ choice \in [Threads -> SUBSET Chosen]
  /\ target \in [Threads -> [row : 0..Len(applications), counselor : Chosen]]
  /\ unscoped \in [Threads -> BOOLEAN]
  /\ budget \in [reassigns : Nat, changes : Nat]
  /\ outdated \subseteq Staff

NoBranch == CHOOSE b \in Branches : TRUE

Untargeted == [row |-> 0, counselor |-> NoCounselor]

Untouched == [reassigns |-> MaxReassigns, changes |-> MaxStaffChanges]

AssignmentInit ==
  /\ active = [c \in Staff |-> TRUE] /\ counseling = [c \in Staff |-> TRUE]
  /\ home \in [Staff -> Branches]
  /\ applications = <<>>
  /\ at = [t \in Threads |-> "idle"]
  /\ branch = [t \in Threads |-> NoBranch]
  /\ choice = [t \in Threads |-> {}]
  /\ target = [t \in Threads |-> Untargeted]
  /\ unscoped = [t \in Threads |-> FALSE]
  /\ budget = Untouched
  /\ outdated = {}

Go(t, step) == at' = [at EXCEPT ![t] = step]

(* The thread's answer is sent and its session closed.                     *)
Finish(t) ==
  /\ Go(t, "idle")
  /\ choice' = [choice EXCEPT ![t] = {}]
  /\ target' = [target EXCEPT ![t] = Untargeted]
  /\ unscoped' = [unscoped EXCEPT ![t] = FALSE]
  /\ branch' = [branch EXCEPT ![t] = NoBranch]

-----------------------------------------------------------------------------
(* Creation of an application.                                             *)

(* Mutant: deactivated counselors are not filtered out.                    *)
EligibleInactiveToo(c, b) == counseling[c] /\ home[c] = b

Eligible(c, b) == counseling[c] /\ active[c] /\ home[c] = b

Load(c, b) ==
  Cardinality({i \in DOMAIN applications :
                 applications[i] = [branch |-> b, counselor |-> c]})

(* Mutant: a counselor without any row in the count is passed over.        *)
LeastLoadedInCount(from, b) ==
  LET counted == {c \in from : Load(c, b) > 0}
      among   == IF counted = {} THEN from ELSE counted
  IN CHOOSE c \in among : \A d \in among :
       Load(c, b) < Load(d, b) \/ (Load(c, b) = Load(d, b) /\ c <= d)

(* Fewest applications in this branch, ties to the lowest id.              *)
LeastLoaded(from, b) ==
  CHOOSE c \in from : \A d \in from :
    Load(c, b) < Load(d, b) \/ (Load(c, b) = Load(d, b) /\ c <= d)

(* The student is read; a student's branch never changes.                  *)
Apply(t, b) ==
  /\ at[t] = "idle"
  /\ Go(t, "counselors")
  /\ branch' = [branch EXCEPT ![t] = b]
  /\ UNCHANGED <<staff, applications, choice, target, unscoped, budget, outdated>>

ReadCounselors(t) ==
  /\ at[t] = "counselors"
  /\ LET found == {c \in Staff : Eligible(c, branch[t])} IN
     IF found = {}
     THEN Go(t, "insert") /\ choice' = [choice EXCEPT ![t] = {NoCounselor}]
     ELSE Go(t, "loads") /\ choice' = [choice EXCEPT ![t] = found]
  /\ UNCHANGED <<staff, applications, branch, target, unscoped, budget, outdated>>

ReadLoads(t) ==
  /\ at[t] = "loads"
  /\ Go(t, "insert")
  /\ choice' = [choice EXCEPT ![t] = {LeastLoaded(choice[t], branch[t])}]
  /\ UNCHANGED <<staff, applications, branch, target, unscoped, budget, outdated>>

Insert(t) ==
  /\ at[t] = "insert"
  /\ Len(applications) < MaxApplications
  /\ \E c \in choice[t] :
       applications' = Append(applications, [branch |-> branch[t], counselor |-> c])
  /\ Finish(t)
  /\ UNCHANGED <<staff, budget, outdated>>

(* The database fails before the commit.                                   *)
Fail(t) ==
  /\ at[t] # "idle"
  /\ Finish(t)
  /\ UNCHANGED <<staff, applications, budget, outdated>>

-----------------------------------------------------------------------------
(* Reassignment by hand.                                                   *)

(* An owner may name any counselor of the tenant, everyone else one of the *)
(* application's branch; no counselor at all is allowed too.               *)
Acceptable(c, b, owner) ==
  \/ c = NoCounselor
  \/ c \in Staff /\ counseling[c] /\ active[c] /\ (owner \/ home[c] = b)

ReadTarget(t, i, c, owner) ==
  /\ at[t] = "idle"
  /\ budget.reassigns > 0
  /\ Acceptable(c, applications[i].branch, owner)
  /\ Go(t, "reassign")
  /\ branch' = [branch EXCEPT ![t] = applications[i].branch]
  /\ choice' = [choice EXCEPT ![t] = {c}]
  /\ target' = [target EXCEPT ![t] = [row |-> i, counselor |-> applications[i].counselor]]
  /\ unscoped' = [unscoped EXCEPT ![t] = owner]
  /\ budget' = [budget EXCEPT !.reassigns = @ - 1]
  /\ UNCHANGED <<staff, applications, outdated>>

(* The session writes the column only when it differs from what it loaded. *)
Reassign(t) ==
  /\ at[t] = "reassign"
  /\ \E c \in choice[t] :
       IF c = target[t].counselor THEN UNCHANGED applications
       ELSE applications' = [applications EXCEPT ![target[t].row].counselor = c]
  /\ Finish(t)
  /\ UNCHANGED <<staff, budget, outdated>>

-----------------------------------------------------------------------------
(* Staff changes.  They leave the applications as they are.                *)

ChangeStaff(t, c) ==
  /\ at[t] = "idle"
  /\ budget.changes > 0
  /\ budget' = [budget EXCEPT !.changes = @ - 1]
  /\ outdated' = outdated \cup {d \in {c} : \E s \in Threads : d \in choice[s]}
  /\ UNCHANGED <<applications, at, work>>

SetActive(t, c) ==
  /\ ChangeStaff(t, c)
  /\ active' = [active EXCEPT ![c] = ~@]
  /\ UNCHANGED <<counseling, home>>

(* update_staff: another role, another branch, or both.                    *)
UpdateStaff(t, c, counselor, b) ==
  /\ ChangeStaff(t, c)
  /\ counseling' = [counseling EXCEPT ![c] = counselor]
  /\ home' = [home EXCEPT ![c] = b]
  /\ UNCHANGED active

AssignmentNext ==
  \E t \in Threads :
    \/ \E b \in Branches : Apply(t, b)
    \/ ReadCounselors(t) \/ ReadLoads(t) \/ Insert(t) \/ Fail(t)
    \/ \E i \in DOMAIN applications, c \in Chosen, owner \in BOOLEAN :
         ReadTarget(t, i, c, owner)
    \/ Reassign(t)
    \/ \E c \in Staff : SetActive(t, c)
    \/ \E c \in Staff, counselor \in BOOLEAN, b \in Branches :
         UpdateStaff(t, c, counselor, b)

AssignmentSpec == AssignmentInit /\ [][AssignmentNext]_assignmentVars

-----------------------------------------------------------------------------
(* What should hold.                                                       *)

LoadsWithin(gap) ==
  \A b \in Branches : \A c, d \in {e \in Staff : home[e] = b} :
    Load(c, b) <= Load(d, b) + gap

(* services/counselor_assignment.py: "Over K counselors and N applications *)
(* the loads differ by at most one".  One request at a time they do; the   *)
(* choice rests on counts that other creations outdate, so each thread may *)
(* add one application to the same counselor, and no more than that, while *)
(* nobody joins, leaves or is reassigned.                                  *)
LoadsNearlyEven ==
  /\ AssignmentTypeOK
  /\ budget = Untouched => LoadsWithin(Cardinality(Threads))

(* The counselor an application gets is, at that moment, an active         *)
(* counselor, and one of its branch unless an owner chose the counselor    *)
(* ("Only active COUNSELOR users in the same tenant + branch are           *)
(* eligible", services/counselor_assignment.py), but for somebody who was  *)
(* changed under a request that had already read them.                     *)
AssignedIsEligible ==
  [][\A i \in DOMAIN applications' :
       LET row == applications'[i] IN
       i \notin DOMAIN applications \/ applications[i] # row =>
         \/ row.counselor \in outdated \cup {NoCounselor}
         \/ /\ active[row.counselor] /\ counseling[row.counselor]
            /\ \/ home[row.counselor] = row.branch
               \/ \E t \in Threads : unscoped[t] /\ target[t].row = i]_applications
=============================================================================
