--------------------------- MODULE DocumentReview ---------------------------
(***************************************************************************)
(* The documents of one application: the student's uploads and re-uploads  *)
(* (backend/app/routers/student_documents.py), the verifiers' approvals    *)
(* and rejections (backend/app/routers/verifier.py), and the checklist     *)
(* computed from them (backend/app/routers/checklist.py).                  *)
(*                                                                         *)
(* A review runs in a pool thread: it loads the document, requires it to   *)
(* be pending, flushes the verdict with the student's notification, mails, *)
(* commits and reads the document back.  Nothing locks the document        *)
(* between the load and the flush.  An upload is a coroutine: it checks    *)
(* the request, awaits the file's bytes, and then stores the blob and      *)
(* inserts the row without giving the event loop back, so no other request *)
(* starts meanwhile, while reviews that already run in threads go on.      *)
(***************************************************************************)
EXTENDS Integers, FiniteSets

CONSTANTS
  Threads,         \* requests the server runs at the same time
  NoThread,
  Verifiers,       \* staff with the permission document:verify
  Nobody,          \* verified_by_user_id is NULL
  Student,
  Templates,       \* the tenant's checklist item templates
  NoTemplate,      \* an upload tied to no template
  AskedTemplates,  \* what clients send as checklist_item_template_id
  TemplateStage,   \* [Templates -> stage]
  TemplateProgram, \* [Templates -> program or NoProgram]
  NoProgram,
  Required,        \* the templates flagged required
  AppStage,        \* the application's stage
  AppProgram,      \* and program
  InitialDocs,     \* documents uploaded before the behavior starts
  MaxDocs,         \* bound: rows of the table, those of the start included
  MaxRequests,     \* bound: requests, the uploads of the start included
  Faults,          \* kinds of fault that may strike, a subset of FaultKinds
  MaxFaults        \* bound: how many of them do

FaultKinds ==
  {"read", "body", "store", "flush", "reload", "mail", "commit", "refresh", "crash"}

DocIds == 1..MaxDocs

Decisions == {"approved", "rejected"}

ASSUME DocumentAssumption ==
  /\ IsFiniteSet(Threads) /\ IsFiniteSet(Templates)
  /\ NoThread \notin Threads
  /\ Nobody \notin Verifiers /\ Student \notin Verifiers \cup {Nobody}
  /\ NoTemplate \notin Templates /\ NoTemplate \in AskedTemplates
  /\ Required \subseteq Templates
  /\ InitialDocs \in Nat /\ MaxDocs \in Nat /\ InitialDocs <= MaxDocs
  /\ MaxRequests \in Nat /\ MaxFaults \in Nat
  /\ Faults \subseteq FaultKinds

VARIABLES
  upload,     \* committed columns an upload writes, per document
  verdict,    \* committed columns a review writes, per document
  blobs,      \* keys in the object store: the request that stored each
  verdicts,   \* every verdict ever committed (history variable)
  inbox,      \* committed notifications, as <<request, decision>>
  mailed,     \* e-mails sent, as <<request, decision>>
  nextDoc,    \* the table's id sequence; no rollback rewinds it
  clock,      \* the wall clock uploads are stamped with
  lock,       \* thread whose transaction holds each document's row lock
  at,         \* the step of its request each thread is at
  job,        \* the request each thread runs
  held,       \* whether the thread's transaction holds its verdict
  contested,  \* documents two reviews loaded while both saw them pending
              \* (history variable)
  requests,   \* requests received so far; numbers them
  answers,    \* answers given, as <<request, code>>
  faults      \* faults so far

files == <<upload, blobs, nextDoc, clock>>

reviews == <<verdict, verdicts, inbox>>

desk == <<job, held, contested>>

vars == <<files, reviews, mailed, lock, at, desk, requests, answers, faults>>

Upload == [template : Templates \cup {NoTemplate}, prev : Nat,
           uploaded : Nat, blob : Nat]

NoUpload == [template |-> NoTemplate, prev |-> 0, uploaded |-> 0, blob |-> 0]

Verdict == [status : Decisions \cup {"pending", "none"},
            by : Verifiers \cup {Nobody},
            approval : BOOLEAN,     \* approval_comment is not NULL
            reason : BOOLEAN]       \* rejection_reason is not NULL

NoVerdict(s) ==
  [status |-> s, by |-> Nobody, approval |-> FALSE, reason |-> FALSE]

Steps == {"idle", "verdict_row", "verdict_mail", "verdict_commit",
          "verdict_refresh", "body", "insert", "upload_refresh"}

Codes == {200, 201, 404, 413, 422, 500, 503, 0}   \* 0: the process died

(* What a request carries from step to step: a review its document, its    *)
(* verifier, its decision and whether it has a comment; an upload its      *)
(* template and the document it replaces, 0 for none.                      *)
Job == [request : Nat, doc : 0..MaxDocs, by : Verifiers \cup {Nobody},
        decision : Decisions \cup {"none"}, comment : BOOLEAN,
        template : Templates \cup {NoTemplate}, prev : 0..MaxDocs]

NoJob == [request |-> 0, doc |-> 0, by |-> Nobody, decision |-> "none",
          comment |-> FALSE, template |-> NoTemplate, prev |-> 0]

TypeOK ==
  /\ upload \in [DocIds -> Upload]
  /\ verdict \in [DocIds -> Verdict]
  /\ blobs \subseteq Nat
  /\ verdicts \subseteq [request : Nat, doc : DocIds, by : Verifiers,
                         decision : Decisions]
  /\ inbox \subseteq (Nat \X Decisions)
  /\ mailed \subseteq (Nat \X Decisions)
  /\ nextDoc \in Nat \ {0}
  /\ clock \in Nat
  /\ lock \in [DocIds -> Threads \cup {NoThread}]
  /\ at \in [Threads -> Steps]
  /\ job \in [Threads -> Job]
  /\ held \in [Threads -> BOOLEAN]
  /\ contested \subseteq DocIds
  /\ requests \in Nat
  /\ answers \subseteq (Nat \X Codes)
  /\ faults \in Nat

(* The documents of the start were uploaded by the first requests and wait *)
(* for their reviews.                                                      *)
Init ==
  /\ \E tpl \in [1..InitialDocs -> Templates] :
       upload = [d \in DocIds |->
         IF d <= InitialDocs
         THEN [template |-> tpl[d], prev |-> 0, uploaded |-> 1, blob |-> d]
         ELSE NoUpload]
  /\ verdict = [d \in DocIds |->
       NoVerdict(IF d <= InitialDocs THEN "pending" ELSE "none")]
  /\ blobs = 1..InitialDocs
  /\ verdicts = {} /\ inbox = {} /\ mailed = {} /\ answers = {}
  /\ nextDoc = InitialDocs + 1
  /\ clock = 1
  /\ lock = [d \in DocIds |-> NoThread]
  /\ at = [t \in Threads |-> "idle"]
  /\ job = [t \in Threads |-> NoJob]
  /\ held = [t \in Threads |-> FALSE]
  /\ contested = {}
  /\ requests = InitialDocs
  /\ faults = 0

-----------------------------------------------------------------------------
Status(d) == verdict[d].status

Docs == {d \in DocIds : Status(d) # "none"}

Strike(kind) ==
  /\ kind \in Faults
  /\ faults < MaxFaults
  /\ faults' = faults + 1

NoFault == UNCHANGED faults

Running(t) == at[t] # "idle"

Goto(t, from, to) == at[t] = from /\ at' = [at EXCEPT ![t] = to]

Unlocked(t) == [d \in DocIds |-> IF lock[d] = t THEN NoThread ELSE lock[d]]

Answer(t, code) ==
  /\ answers' = answers \cup {<<job[t].request, code>>}
  /\ at' = [at EXCEPT ![t] = "idle"]
  /\ job' = [job EXCEPT ![t] = NoJob]
  /\ held' = [held EXCEPT ![t] = FALSE]
  /\ lock' = Unlocked(t)
  /\ UNCHANGED contested

(* No coroutine is between two awaits, so the event loop may dispatch.     *)
LoopFree == \A t \in Threads : at[t] \notin {"insert", "upload_refresh"}

Receive(t) ==
  /\ at[t] = "idle"
  /\ LoopFree
  /\ requests < MaxRequests
  /\ requests' = requests + 1

RefusedWith(code) == answers' = answers \cup {<<requests', code>>}

ReadFails(t) ==
  /\ Receive(t)
  /\ Strike("read")
  /\ RefusedWith(503)
  /\ UNCHANGED <<files, reviews, mailed, lock, at, desk>>
-----------------------------------------------------------------------------
(* Approve and reject.                                                     *)

(* Mutant: the handler does not require a pending document.                *)
ReviewCodeWithoutPending(d) == IF Status(d) = "none" THEN 404 ELSE 200

ReviewCode(d) ==
  CASE Status(d) = "none"      -> 404
    [] Status(d) \in Decisions -> 422
    [] OTHER                   -> 200

RefuseReview(t) ==
  /\ Receive(t)
  /\ \E d \in DocIds : ReviewCode(d) # 200 /\ RefusedWith(ReviewCode(d))
  /\ NoFault
  /\ UNCHANGED <<files, reviews, mailed, lock, at, desk>>

(* Another review has loaded the document and not committed.               *)
UnderReview(d) ==
  \E s \in Threads :
    job[s].doc = d /\ at[s] \in {"verdict_row", "verdict_mail", "verdict_commit"}

LoadReview(t) ==
  /\ Receive(t)
  /\ \E d \in DocIds, v \in Verifiers, decision \in Decisions, comment \in BOOLEAN :
       /\ ReviewCode(d) = 200
       /\ decision = "rejected" => comment       \* a reason is mandatory
       /\ contested' = IF UnderReview(d) THEN contested \cup {d} ELSE contested
       /\ job' = [job EXCEPT ![t] =
            [request |-> requests', doc |-> d, by |-> v, decision |-> decision,
             comment |-> comment, template |-> NoTemplate, prev |-> 0]]
  /\ Goto(t, "idle", "verdict_row")
  /\ NoFault
  /\ UNCHANGED <<files, reviews, mailed, lock, held, answers>>

(* The row after the UPDATE, which names the columns that differ from what *)
(* the request loaded: a pending document has no verifier and no comments. *)
Updated(row, by, decision, comment) ==
  [status   |-> decision,
   by       |-> by,
   approval |-> row.approval \/ (decision = "approved" /\ comment),
   reason   |-> row.reason \/ decision = "rejected"]

(* Mutant: the first verifier's name is kept.                              *)
ReviewedByFirst(t) ==
  LET first == verdict[job[t].doc].by
  IN Updated(verdict[job[t].doc], IF first = Nobody THEN job[t].by ELSE first,
             job[t].decision, job[t].comment)

Reviewed(t) ==
  Updated(verdict[job[t].doc], job[t].by, job[t].decision, job[t].comment)

VerdictOf(t) == [request |-> job[t].request, doc |-> job[t].doc,
                 by |-> job[t].by, decision |-> job[t].decision]

(* What a commit of the thread's transaction makes visible.                *)
Publish(t) ==
  IF held[t]
  THEN /\ verdict' = [verdict EXCEPT ![job[t].doc] = Reviewed(t)]
       /\ verdicts' = verdicts \cup {VerdictOf(t)}
       /\ inbox' = inbox \cup {<<job[t].request, job[t].decision>>}
  ELSE UNCHANGED reviews

(* Mutant: create_notification commits what it flushes.                    *)
FlushVerdictAndCommit(t) ==
  /\ Goto(t, "verdict_row", "verdict_mail")
  /\ lock[job[t].doc] = NoThread
  /\ verdict' = [verdict EXCEPT ![job[t].doc] = Reviewed(t)]
  /\ verdicts' = verdicts \cup {VerdictOf(t)}
  /\ inbox' = inbox \cup {<<job[t].request, job[t].decision>>}
  /\ NoFault
  /\ UNCHANGED <<files, mailed, lock, desk, requests, answers>>

(* The flush in create_notification sends the document's UPDATE, which     *)
(* waits for the row lock, and the student's notification.                 *)
FlushVerdict(t) ==
  /\ Goto(t, "verdict_row", "verdict_mail")
  /\ lock[job[t].doc] = NoThread
  /\ lock' = [lock EXCEPT ![job[t].doc] = t]
  /\ held' = [held EXCEPT ![t] = TRUE]
  /\ NoFault
  /\ UNCHANGED <<files, reviews, mailed, job, contested, requests, answers>>

(* create_notification rolls the session back, so the verdict goes too;    *)
(* the handler carries on with the mail.                                   *)
FlushVerdictFails(t) ==
  /\ Goto(t, "verdict_row", "verdict_mail")
  /\ Strike("flush")
  /\ UNCHANGED <<files, reviews, mailed, lock, desk, requests, answers>>

(* The mail needs the application again, which the rollback expired.       *)
FlushVerdictAndReloadFail(t) ==
  /\ at[t] = "verdict_row"
  /\ Strike("reload")
  /\ Answer(t, 500)
  /\ UNCHANGED <<files, reviews, mailed, requests>>

MailVerdict(t) ==
  /\ Goto(t, "verdict_mail", "verdict_commit")
  /\ \/ NoFault /\ mailed' = mailed \cup {<<job[t].request, job[t].decision>>}
     \/ Strike("mail") /\ UNCHANGED mailed
  /\ UNCHANGED <<files, reviews, lock, desk, requests, answers>>

CommitVerdict(t) ==
  /\ Goto(t, "verdict_commit", "verdict_refresh")
  /\ Publish(t)
  /\ lock' = Unlocked(t)
  /\ NoFault
  /\ UNCHANGED <<files, mailed, desk, requests, answers>>

(* Mutant: the answer is given without rolling back.                       *)
CommitVerdictFailsWithoutRollback(t) ==
  /\ at[t] = "verdict_commit"
  /\ Strike("commit")
  /\ answers' = answers \cup {<<job[t].request, 503>>}
  /\ at' = [at EXCEPT ![t] = "idle"]
  /\ UNCHANGED <<files, reviews, mailed, lock, desk, requests>>

CommitVerdictFails(t) ==
  /\ at[t] = "verdict_commit"
  /\ Strike("commit")
  /\ Answer(t, 503)
  /\ UNCHANGED <<files, reviews, mailed, requests>>

(* The document exists whatever became of the verdict, so reading it back  *)
(* works even after a rollback, and the answer is a success.               *)
RefreshVerdict(t) ==
  /\ at[t] = "verdict_refresh"
  /\ \/ NoFault /\ Answer(t, 200)
     \/ Strike("refresh") /\ Answer(t, 500)
  /\ UNCHANGED <<files, reviews, mailed, requests>>

-----------------------------------------------------------------------------
(* Upload and re-upload.                                                   *)

(* Mutant: any document of the application may be replaced.                *)
UploadCodeForAnyStatus(tpl, prev) ==
  IF tpl \notin Templates \cup {NoTemplate}
     \/ (prev # 0 /\ prev \notin Docs) THEN 422 ELSE 201

UploadCode(tpl, prev) ==
  CASE tpl \notin Templates \cup {NoTemplate}          -> 422
    [] prev # 0 /\ (prev \notin Docs \/ Status(prev) # "rejected") -> 422
    [] OTHER                                           -> 201

RefuseUpload(t) ==
  /\ Receive(t)
  /\ \E tpl \in AskedTemplates, prev \in 0..MaxDocs :
       UploadCode(tpl, prev) # 201 /\ RefusedWith(UploadCode(tpl, prev))
  /\ NoFault
  /\ UNCHANGED <<files, reviews, mailed, lock, at, desk>>

BeginUpload(t) ==
  /\ Receive(t)
  /\ nextDoc + Cardinality({s \in Threads : at[s] = "body"}) <= MaxDocs
  /\ \E tpl \in AskedTemplates, prev \in 0..MaxDocs :
       /\ UploadCode(tpl, prev) = 201
       /\ job' = [job EXCEPT ![t] =
            [request |-> requests', doc |-> 0, by |-> Nobody, decision |-> "none",
             comment |-> FALSE, template |-> tpl, prev |-> prev]]
  /\ Goto(t, "idle", "body")
  /\ NoFault
  /\ UNCHANGED <<files, reviews, mailed, lock, held, contested, answers>>

(* The bytes are too many, or not of an allowed type.                      *)
RefuseBody(t) ==
  /\ at[t] = "body"
  /\ LoopFree
  /\ Strike("body")
  /\ Answer(t, 413)
  /\ UNCHANGED <<files, reviews, mailed, requests>>

(* The key of a blob contains a fresh UUID; uploaded_at is taken after it  *)
(* is stored.  The clock may not have moved since the last upload.         *)
Store(t) ==
  /\ Goto(t, "body", "insert")
  /\ LoopFree
  /\ blobs' = blobs \cup {job[t].request}
  /\ clock' \in {clock, clock + 1}
  /\ NoFault
  /\ UNCHANGED <<upload, nextDoc, reviews, mailed, lock, desk, requests, answers>>

StoreFails(t) ==
  /\ at[t] = "body"
  /\ LoopFree
  /\ Strike("store")
  /\ Answer(t, 503)
  /\ UNCHANGED <<files, reviews, mailed, requests>>

Inserted(t) == [template |-> job[t].template, prev |-> job[t].prev,
                uploaded |-> clock, blob |-> job[t].request]

CommitUpload(t) ==
  /\ Goto(t, "insert", "upload_refresh")
  /\ upload' = [upload EXCEPT ![nextDoc] = Inserted(t)]
  /\ verdict' = [verdict EXCEPT ![nextDoc] = NoVerdict("pending")]
  /\ nextDoc' = nextDoc + 1
  /\ NoFault
  /\ UNCHANGED <<blobs, clock, verdicts, inbox, mailed, lock, desk,
                 requests, answers>>

(* The blob stays behind without a row.                                    *)
CommitUploadFails(t) ==
  /\ at[t] = "insert"
  /\ Strike("commit")
  /\ Answer(t, 503)
  /\ nextDoc' = nextDoc + 1
  /\ UNCHANGED <<upload, blobs, clock, reviews, mailed, requests>>

RefreshUpload(t) ==
  /\ at[t] = "upload_refresh"
  /\ \/ NoFault /\ Answer(t, 201)
     \/ Strike("refresh") /\ Answer(t, 500)
  /\ UNCHANGED <<files, reviews, mailed, requests>>

-----------------------------------------------------------------------------
Crash ==
  /\ Strike("crash")
  /\ \E t \in Threads : Running(t)
  /\ answers' = answers \cup
       {<<job[t].request, 0>> : t \in {s \in Threads : Running(s)}}
  /\ at' = [t \in Threads |-> "idle"]
  /\ job' = [t \in Threads |-> NoJob]
  /\ held' = [t \in Threads |-> FALSE]
  /\ lock' = [d \in DocIds |-> NoThread]
  /\ UNCHANGED <<contested, files, reviews, mailed, requests>>

Review(t) ==
  \/ RefuseReview(t) \/ LoadReview(t)
  \/ FlushVerdict(t) \/ FlushVerdictFails(t) \/ FlushVerdictAndReloadFail(t)
  \/ MailVerdict(t)
  \/ CommitVerdict(t) \/ CommitVerdictFails(t)
  \/ RefreshVerdict(t)

ReceiveFile(t) ==
  \/ RefuseUpload(t) \/ BeginUpload(t) \/ RefuseBody(t)
  \/ Store(t) \/ StoreFails(t)
  \/ CommitUpload(t) \/ CommitUploadFails(t)
  \/ RefreshUpload(t)

(* All clients are answered; the server waits.  Any other state without a  *)
(* successor would be a deadlock of the requests in flight.                *)
Quiet ==
  /\ requests = MaxRequests
  /\ \A t \in Threads : ~Running(t)
  /\ UNCHANGED vars

Next ==
  \/ \E t \in Threads : ReadFails(t) \/ Review(t) \/ ReceiveFile(t)
  \/ Crash
  \/ Quiet

Spec == Init /\ [][Next]_vars

-----------------------------------------------------------------------------
(* The checklist of the application (GET .../checklist): the templates of  *)
(* its stage and program, each with its latest upload.                     *)
Applicable ==
  {tpl \in Templates : /\ TemplateStage[tpl] = AppStage
                       /\ TemplateProgram[tpl] \in {NoProgram, AppProgram}}

UploadsFor(tpl) == {d \in Docs : upload[d].template = tpl}

IsLatest(d, tpl) ==
  /\ d \in UploadsFor(tpl)
  /\ \A e \in UploadsFor(tpl) :
       \/ upload[e].uploaded < upload[d].uploaded
       \/ upload[e].uploaded = upload[d].uploaded /\ e <= d

Shown == {d \in Docs : \E tpl \in Applicable : IsLatest(d, tpl)}

Item(tpl, status) == \E d \in Shown : IsLatest(d, tpl) /\ Status(d) = status

(* compute_checklist_completeness: as many required items approved as      *)
(* there are required items.                                               *)
IsComplete ==
  Cardinality({tpl \in Applicable \cap Required : Item(tpl, "approved")})
    = Cardinality(Applicable \cap Required)

-----------------------------------------------------------------------------
(* What should hold.                                                       *)

(* A document's columns are one verifier's verdict, the one that was       *)
(* committed with them, even when two verifiers overwrite each other: no   *)
(* status comes with the name of somebody who decided otherwise.           *)
RowIsOneVerdict ==
  \A d \in Docs :
    IF Status(d) = "pending"
    THEN verdict[d].by = Nobody /\ \A v \in verdicts : v.doc # d
    ELSE \E v \in verdicts :
           v.doc = d /\ v.decision = Status(d) /\ v.by = verdict[d].by

(* Whatever was once decided is never again awaiting a decision.           *)
DecidedStaysDecided ==
  [][\A d \in DocIds : Status(d) \in Decisions => Status(d)' \in Decisions]_verdict

(* Each committed verdict is in the student's inbox, and nothing else is.  *)
StudentKnowsVerdicts ==
  inbox = {<<v.request, v.decision>> : v \in verdicts}

(* A refusal or a 503 leaves neither a verdict nor a document; a 201 leaves *)
(* a document.                                                             *)
AnswersAreHonest ==
  \A ans \in answers :
    /\ ans[2] \in {404, 413, 422, 503} =>
         /\ \A v \in verdicts : v.request # ans[1]
         /\ \A d \in Docs : upload[d].blob # ans[1]
    /\ ans[2] = 201 => \E d \in Docs : upload[d].blob = ans[1]

(* Every row has its blob, and no two rows share one, wherever a request   *)
(* stopped: the blob is stored first and its key is fresh.                 *)
RowsHaveTheirBlob ==
  /\ \A d \in Docs : upload[d].blob \in blobs
  /\ \A d, e \in Docs : upload[d].blob = upload[e].blob => d = e

(* The checklist never shows a document whose replacement was filed under  *)
(* the same item, although uploaded_at may tie.                            *)
ChecklistShowsReplacement ==
  \A d \in Shown, e \in Docs :
    upload[e].prev = d => upload[e].template # upload[d].template

(* Why: who holds what.  A row lock is held exactly while a transaction    *)
(* holds a verdict on it, a document under review exists, and the requests *)
(* in flight are told apart by their numbers.                              *)
LocksFollowVerdicts ==
  \A t \in Threads :
    /\ held[t] => at[t] \in {"verdict_mail", "verdict_commit", "verdict_refresh"}
    /\ \A d \in DocIds :
         lock[d] = t <=> held[t] /\ job[t].doc = d /\ at[t] # "verdict_refresh"

JobsAreCurrent ==
  /\ \A t \in Threads :
       /\ at[t] \in {"verdict_row", "verdict_mail", "verdict_commit",
                     "verdict_refresh"} =>
            job[t].doc \in Docs /\ job[t].by # Nobody /\ job[t].decision \in Decisions
       /\ at[t] = "insert" => job[t].request \in blobs /\ nextDoc \in DocIds \ Docs
       /\ Running(t) => job[t].request \in 1..requests
  /\ \A s, t \in Threads :
       Running(s) /\ Running(t) /\ job[s].request = job[t].request => s = t
  /\ Docs \subseteq 1..(nextDoc - 1)

DocumentInv == TypeOK /\ LocksFollowVerdicts /\ JobsAreCurrent /\ RowsHaveTheirBlob

(* verifier.py: only pending documents can be approved or rejected, "an    *)
(* approve cannot silently flip a previously-rejected document", "the      *)
(* first verifier who approved wins".  Nothing but two reviews that both   *)
(* loaded the document while it was pending takes a verdict back: not      *)
(* uploads, failures, crashes, or reviews of other documents.              *)
FirstVerdictStands ==
  [][\A d \in DocIds \ contested :
       Status(d) \in Decisions => verdict'[d] = verdict[d]]_verdict

(* A complete checklist stays complete until the student uploads again: no *)
(* review takes an approval back, but one of two that met.                 *)
CompleteStaysComplete ==
  [][(IsComplete /\ Docs' = Docs /\ Shown \cap contested = {}) => IsComplete']_<<upload, verdict>>

(* models/student_document.py: rejection_reason is "NULL when status is    *)
(* not rejected", approval_comment "NULL when status is not approved", on  *)
(* every document but those two reviews met on.                            *)
CommentsMatchStatus ==
  \A d \in Docs \ contested :
    /\ verdict[d].reason => Status(d) = "rejected"
    /\ verdict[d].approval => Status(d) = "approved"

(* models/student_document.py: "the superseded row stays in the table with *)
(* its original status='rejected'", although the upload looked at it       *)
(* before it awaited the file: again, unless two reviews met on it.        *)
SupersededStaysRejected ==
  \A d \in Docs :
    LET old == upload[d].prev
    IN old # 0 /\ old \notin contested => Status(old) = "rejected"


(* A row is one verifier's whole verdict, comments included.               *)
RowsAreVerdicts == RowIsOneVerdict /\ CommentsMatchStatus

(* Student and verifier are told what the database says (verifier.py,      *)
(* services/notifications.py).                                             *)
VerdictsAreTold == StudentKnowsVerdicts /\ AnswersAreHonest

(* A replacement leaves what it replaces rejected, and takes its place.    *)
ReplacementsAreSound == ChecklistShowsReplacement /\ SupersededStaysRejected

(* Verdicts stand, but where two reviews met.                              *)
VerdictsStand == DecidedStaysDecided /\ FirstVerdictStands /\ CompleteStaysComplete
=============================================================================
