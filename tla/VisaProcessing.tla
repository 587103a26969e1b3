--------------------------- MODULE VisaProcessing ---------------------------
(***************************************************************************)
(* What staff record on one application beside its stage: the visa detail  *)
(* and the visa outcome (backend/app/routers/visa.py), the loan columns    *)
(* and the student's loan opt-in (backend/app/routers/applications.py),    *)
(* each by a request of its own, while other requests move the stage.      *)
(*                                                                         *)
(* A request loads the row it changes, sets attributes, and commits.       *)
(* Nothing locks the row in between, and the ORM writes only the           *)
(* attributes whose value differs from the one it loaded.                  *)
(***************************************************************************)
EXTENDS Server, Naturals, PipelineStages

CONSTANTS
  StartStages,   \* stages the application may be in at the start
  Words,         \* what clients write into a text or date field
  MaxRequests,   \* bound: requests in a behavior
  MaxFaults      \* bound: commits the database fails

ASSUME VisaAssumption ==
  /\ IsFiniteSet(Threads) /\ Threads # {}
  /\ StartStages \subseteq Stages
  /\ Words # {} /\ {"null", "", "blank"} \cap Words = {}
  /\ MaxRequests \in Nat /\ MaxFaults \in Nat

VARIABLES
  db,        \* committed columns of the application, its detail and its outcome
  job,       \* the request each thread runs, and what it loaded for it
  late,      \* history: recordings committed since the stage last left visa processing
  moves,     \* history: stage moves committed
  requests,  \* requests received so far
  faults     \* failed commits so far

vars == <<db, at, job, late, moves, requests, faults>>

LoanColumns == {"loan_status", "loan_lender"}
ApplicationColumns == {"stage", "loan_opt_in"} \cup LoanColumns
DetailColumns == {"visa_type", "interview_date"}
OutcomeColumns == {"status", "outcome_date"}
Columns == ApplicationColumns \cup DetailColumns \cup OutcomeColumns

Table(kind) == CASE kind = "detail" -> DetailColumns
                 [] kind = "outcome" -> OutcomeColumns
                 [] OTHER -> ApplicationColumns

\* Each of the two tables has a column that is never null in a row.
HasRow(row, columns) ==
  \A c \in {"visa_type", "status"} \cap columns : row[c] # "null"

Restricted(row, columns) == [c \in columns |-> row[c]]

Trimmed(v) == IF v = "blank" THEN "" ELSE v

-----------------------------------------------------------------------------
(* Bodies, as the client writes them and as the schemas let them through.  *)

Written == Words \cup {"null", "blank"}

DetailBodies ==
  LET trimmed(b) == [b EXCEPT !["visa_type"] = Trimmed(@)]
  IN  {trimmed(b) : b \in {b \in [DetailColumns -> Written] :
         Trimmed(b["visa_type"]) \notin {"null", ""} /\ b["interview_date"] # "blank"}}

OutcomeBodies ==
  LET trimmed(b) == [b EXCEPT !["status"] = Trimmed(@)]
  IN  {trimmed(b) : b \in {b \in [OutcomeColumns -> Written] :
         /\ Trimmed(b["status"]) # "" /\ b["outcome_date"] # "blank"
         /\ \E c \in OutcomeColumns : b[c] # "null"}}

LoanBodies ==
  UNION {{[c \in named |-> Trimmed(b[c])] : b \in [named -> Written]} :
           named \in SUBSET LoanColumns}

OptInBodies == [{"loan_opt_in"} -> {"yes", "no"}]

-----------------------------------------------------------------------------
NoBody == <<>>
NoJob == [kind |-> "none", body |-> NoBody, loaded |-> NoBody, moves |-> 0]

TypeOK ==
  /\ db \in [Columns -> Stages \cup Words \cup {"null", "yes", "no"}]
  /\ at \in [Threads -> {"idle", "find", "commit", "list"}]
  /\ \A t \in Threads : at[t] = "idle" => job[t] = NoJob
  /\ late \in Nat /\ moves \in Nat /\ requests \in Nat /\ faults \in Nat

Init ==
  /\ db \in {r \in [Columns -> StartStages \cup {"null", "no"}] :
               /\ r["stage"] \in StartStages /\ r["loan_opt_in"] = "no"
               /\ \A c \in Columns \ {"stage", "loan_opt_in"} : r[c] = "null"}
  /\ at = [t \in Threads |-> "idle"]
  /\ job = [t \in Threads |-> NoJob]
  /\ late = 0 /\ moves = 0 /\ requests = 0 /\ faults = 0

Begin(t, kind, body, loaded, step) ==
  /\ at[t] = "idle" /\ requests < MaxRequests
  /\ at' = [at EXCEPT ![t] = step]
  /\ job' = [job EXCEPT ![t] =
               [kind |-> kind, body |-> body, loaded |-> loaded, moves |-> moves]]
  /\ requests' = requests + 1
  /\ UNCHANGED <<db, late, moves, faults>>

End(t) ==
  /\ at' = [at EXCEPT ![t] = "idle"]
  /\ job' = [job EXCEPT ![t] = NoJob]

\* The columns an UPDATE names: what the request set to another value than it loaded.
Changed(loaded, set) == {c \in DOMAIN set : set[c] # loaded[c]}

\* Mutant: the whole row goes back as it was loaded.
UpdatedWhole(row, loaded, set) ==
  [c \in Columns |-> IF c \in DOMAIN set THEN set[c]
                     ELSE IF c \in DOMAIN loaded THEN loaded[c] ELSE row[c]]

Updated(row, loaded, set) ==
  [c \in Columns |-> IF c \in Changed(loaded, set) THEN set[c] ELSE row[c]]

Inserted(row, set) == [c \in Columns |-> IF c \in DOMAIN set THEN set[c] ELSE row[c]]

\* The database fails the commit, and the request answers 503.
CommitFails(t) ==
  /\ at[t] = "commit" /\ faults < MaxFaults
  /\ faults' = faults + 1
  /\ End(t)
  /\ UNCHANGED <<db, late, moves, requests>>

-----------------------------------------------------------------------------
(* Visa detail and visa outcome, both guarded by the stage                  *)

InVisaProcessing == db["stage"] = "visa_processing"

\* Mutant: the stage is not checked.
BeginDetailAnyStage(t) ==
  \E body \in DetailBodies : Begin(t, "detail", body, NoBody, "find")

BeginDetail(t) ==
  /\ InVisaProcessing
  /\ \E body \in DetailBodies : Begin(t, "detail", body, NoBody, "find")

BeginOutcome(t) ==
  /\ InVisaProcessing
  /\ \E body \in OutcomeBodies : Begin(t, "outcome", body, NoBody, "find")

Found(t) ==
  /\ at' = [at EXCEPT ![t] = "commit"]
  /\ job' = [job EXCEPT ![t].loaded = Restricted(db, Table(job[t].kind))]

FindDetail(t) ==
  /\ at[t] = "find" /\ job[t].kind = "detail"
  /\ Found(t)
  /\ UNCHANGED <<db, late, moves, requests, faults>>

\* Mutant: the first outcome may come without a status.
FindOutcomeUnchecked(t) ==
  /\ at[t] = "find" /\ job[t].kind = "outcome"
  /\ Found(t)
  /\ UNCHANGED <<db, late, moves, requests, faults>>

\* The first outcome of an application needs a status.
FindOutcome(t) ==
  /\ at[t] = "find" /\ job[t].kind = "outcome"
  /\ IF ~HasRow(db, OutcomeColumns) /\ job[t].body["status"] = "null"
     THEN End(t) ELSE Found(t)
  /\ UNCHANGED <<db, late, moves, requests, faults>>

\* Insert or update, as the select decided.  Where it found no row and there is
\* one now, the unique constraint ends the request with an uncaught error.
Record(t, set) ==
  LET j == job[t]
      raced == HasRow(db, Table(j.kind)) /\ ~HasRow(j.loaded, Table(j.kind))
  IN
  /\ db' = IF raced THEN db
           ELSE IF HasRow(j.loaded, Table(j.kind)) THEN Updated(db, j.loaded, set)
           ELSE Inserted(db, set)
  /\ late' = IF raced \/ InVisaProcessing THEN late ELSE late + 1
  /\ End(t)
  /\ UNCHANGED <<moves, requests, faults>>

CommitDetail(t) ==
  /\ at[t] = "commit" /\ job[t].kind = "detail"
  /\ Record(t, job[t].body)

\* A null leaves the column of a recorded outcome as it is.
OutcomeSet(body) == [c \in {c \in OutcomeColumns : body[c] # "null"} |-> body[c]]

CommitOutcome(t) ==
  /\ at[t] = "commit" /\ job[t].kind = "outcome"
  /\ Record(t, OutcomeSet(job[t].body))

-----------------------------------------------------------------------------
(* Loan columns, in any stage                                               *)

\* The columns the body names, an empty text cleared to null.
LoanSet(body) == [c \in DOMAIN body |-> IF body[c] = "" THEN "null" ELSE body[c]]

BeginLoan(t) ==
  \E body \in LoanBodies :
    Begin(t, "loan", body, Restricted(db, ApplicationColumns), "commit")

BeginOptIn(t) ==
  \E body \in OptInBodies :
    Begin(t, "opt-in", body, Restricted(db, ApplicationColumns), "commit")

CommitApplication(t, set) ==
  /\ at[t] = "commit"
  /\ db' = Updated(db, job[t].loaded, set)
  /\ End(t)

CommitLoan(t) ==
  /\ job[t].kind = "loan"
  /\ CommitApplication(t, LoanSet(job[t].body))
  /\ UNCHANGED <<late, moves, requests, faults>>

CommitOptIn(t) ==
  /\ job[t].kind = "opt-in"
  /\ CommitApplication(t, job[t].body)
  /\ UNCHANGED <<late, moves, requests, faults>>

-----------------------------------------------------------------------------
(* The stage, moved by the pipeline's endpoints                             *)

BeginMove(t) ==
  \E to \in Stages :
    /\ IsValidTransition(db["stage"], to)
    /\ Begin(t, "move", [c \in {"stage"} |-> to],
             Restricted(db, ApplicationColumns), "commit")

CommitMove(t) ==
  /\ job[t].kind = "move"
  /\ CommitApplication(t, job[t].body)
  /\ moves' = moves + 1
  /\ late' = IF InVisaProcessing THEN 0 ELSE late
  /\ UNCHANGED <<requests, faults>>

-----------------------------------------------------------------------------
(* The visa queue: how many applications it holds, then a page of them, each *)
(* by a select of its own.                                                   *)

QueueCounts(t) ==
  Begin(t, "queue", NoBody, [c \in {"total"} |-> InVisaProcessing], "list")

QueueLists(t) ==
  /\ at[t] = "list"
  /\ End(t)
  /\ UNCHANGED <<db, late, moves, requests, faults>>

Step(t) ==
  \/ CommitFails(t)
  \/ BeginDetail(t) \/ FindDetail(t) \/ CommitDetail(t)
  \/ BeginOutcome(t) \/ FindOutcome(t) \/ CommitOutcome(t)
  \/ BeginLoan(t) \/ CommitLoan(t)
  \/ BeginOptIn(t) \/ CommitOptIn(t)
  \/ BeginMove(t) \/ CommitMove(t)
  \/ QueueCounts(t) \/ QueueLists(t)

Next == \E t \in Threads : Step(t)

Spec == Init /\ [][Next]_vars

-----------------------------------------------------------------------------
(* Each table holds what its readers rely on, however requests overlap: a   *)
(* detail has its type, an outcome its status, and no text is blank; a loan *)
(* column that was emptied is null (visa.py:342, :489, applications.py:855).*)
RowsAreWellFormed ==
  /\ TypeOK
  /\ HasRow(db, DetailColumns) \/ db["interview_date"] = "null"
  /\ HasRow(db, OutcomeColumns) \/ db["outcome_date"] = "null"

(* A detail or an outcome can land after the application left visa          *)
(* processing, but only from requests that had passed the stage check by    *)
(* then, which is fewer than there are threads (visa.py:319, :467).         *)
LateRecordingsAreBounded == late < Cardinality(Threads)

(* A stored column changes only by a commit of a request that named it, to  *)
(* the value it named: a request made against older values overwrites       *)
(* nothing else of the row, neither a stage move nor another loan column    *)
(* (applications.py:855-872, :1072).                                        *)
NoColumnIsClobbered ==
  [][\A c \in Columns : db'[c] # db[c] =>
       \E t \in Threads :
         /\ at[t] = "commit" /\ at'[t] = "idle"
         /\ c \in DOMAIN job[t].body
         /\ db'[c] = job[t].body[c] \/ (db'[c] = "null" /\ job[t].body[c] = "")]_vars

(* A request whose row nobody changed since it loaded it stores all it was  *)
(* asked to: a detail as a whole, an outcome except for its nulls.  (Two    *)
(* that overlap may leave a row that neither asked for, since each writes   *)
(* only what differs from what it loaded.)  visa.py:342-356, :500-519.      *)
UndisturbedRequestsAreStored ==
  [][\A t \in Threads :
       /\ at[t] = "commit" /\ at'[t] = "idle" /\ faults' = faults
       /\ job[t].loaded = Restricted(db, Table(job[t].kind))
       => \A c \in DOMAIN job[t].body :
            \/ db'[c] = job[t].body[c]
            \/ db'[c] = "null" /\ job[t].body[c] = ""
            \/ job[t].kind = "outcome" /\ job[t].body[c] = "null" /\ db'[c] = db[c]]_vars

(* Of two requests that both found no row the first to commit makes it, and *)
(* the other, which the unique constraint stops, leaves it as it is         *)
(* (visa.py:330, :478; models/visa_detail.py, models/visa_outcome.py).      *)
FirstRecordingStands ==
  [][\A t \in Threads :
       /\ at[t] = "commit" /\ at'[t] = "idle" /\ job[t].kind \in {"detail", "outcome"}
       /\ HasRow(db, Table(job[t].kind)) /\ ~HasRow(job[t].loaded, Table(job[t].kind))
       => db' = db]_vars

(* The queue's total and its page disagree only when the application moved  *)
(* between the two selects (visa.py:116, :119).                             *)
QueueAgreesUnlessMoved ==
  [][\A t \in Threads :
       at[t] = "list" /\ at'[t] = "idle" /\ job[t].moves = moves
         => job[t].loaded["total"] = InVisaProcessing]_vars

(* Each request leaves what it was asked for, and nothing else.             *)
RowsHoldRequests ==
  NoColumnIsClobbered /\ UndisturbedRequestsAreStored /\ FirstRecordingStands
    /\ QueueAgreesUnlessMoved
=============================================================================
