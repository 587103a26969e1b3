------------------------ MODULE DocumentReviewProofs ------------------------
(***************************************************************************)
(* Proofs about DocumentReview, for every pool of threads, staff, catalog  *)
(* of templates, number of documents and budget of faults.                 *)
(*                                                                         *)
(* The proofs build four invariants on each other.  Base: the types hold,  *)
(* a row lock is held by the transaction that holds a verdict on it, and   *)
(* the jobs in flight name existing documents and have numbers of their    *)
(* own; RoomLeft is what the bound on the table needs.  Told adds that a   *)
(* request in flight has left no trace under its number, in the answers,   *)
(* verdicts or documents, before the step that is its own.  Decided: a     *)
(* pending row is blank, two reviews of one document have met on it, and   *)
(* any other review overwrites exactly the blank row it loaded.  Replacing *)
(* carries what an upload saw of the document it replaces, across the      *)
(* await of the file, to the row that names it.                            *)
(***************************************************************************)
EXTENDS DocumentReview, FiniteSetTheorems, TLAPS

-----------------------------------------------------------------------------
(* The kinds of step.                                                      *)

(* A request refused on arrival leaves its answer and nothing else.        *)
Refused ==
  /\ requests' = requests + 1
  /\ \E code \in {404, 422, 503} : answers' = answers \cup {<<requests', code>>}
  /\ faults' \in {faults, faults + 1}
  /\ UNCHANGED <<files, reviews, mailed, lock, at, desk>>

(* A request that got further ends, in success or failure.                 *)
Ended(t) ==
  /\ at[t] # "idle"
  /\ \E code \in Codes :
       /\ Answer(t, code)
       /\ code \in {404, 413, 422, 503} => at[t] \notin {"verdict_refresh", "upload_refresh"}
       /\ code = 201 => at[t] = "upload_refresh"
  /\ nextDoc' = IF at[t] = "insert" THEN nextDoc + 1 ELSE nextDoc
  /\ faults' \in {faults, faults + 1}
  /\ UNCHANGED <<upload, blobs, clock, reviews, mailed, requests>>

Progress(t) ==
  \/ LoadReview(t) \/ FlushVerdict(t) \/ FlushVerdictFails(t) \/ MailVerdict(t)
  \/ CommitVerdict(t) \/ BeginUpload(t) \/ Store(t) \/ CommitUpload(t)

LEMMA Refusals ==
  ASSUME NEW t \in Threads, ReadFails(t) \/ RefuseReview(t) \/ RefuseUpload(t)
  PROVE  Refused
  <1>1. CASE ReadFails(t)
    BY <1>1 DEF ReadFails, Receive, Strike, RefusedWith, Refused
  <1>2. CASE RefuseReview(t)
    BY <1>2 DEF RefuseReview, ReviewCode, Receive, NoFault, RefusedWith, Refused
  <1>3. CASE RefuseUpload(t)
    BY <1>3 DEF RefuseUpload, UploadCode, Receive, NoFault, RefusedWith, Refused
  <1>. QED
    BY <1>1, <1>2, <1>3

LEMMA Endings ==
  ASSUME NEW t \in Threads,
         \/ FlushVerdictAndReloadFail(t) \/ CommitVerdictFails(t) \/ RefreshVerdict(t)
         \/ RefuseBody(t) \/ StoreFails(t) \/ CommitUploadFails(t) \/ RefreshUpload(t)
  PROVE  Ended(t)
  <1>. USE DEF Ended, Strike, NoFault, Codes, files
  <1>1. CASE FlushVerdictAndReloadFail(t)
    BY <1>1 DEF FlushVerdictAndReloadFail
  <1>2. CASE CommitVerdictFails(t)
    BY <1>2 DEF CommitVerdictFails
  <1>3. CASE RefreshVerdict(t)
    BY <1>3 DEF RefreshVerdict
  <1>4. CASE RefuseBody(t)
    BY <1>4 DEF RefuseBody
  <1>5. CASE StoreFails(t)
    BY <1>5 DEF StoreFails
  <1>6. CASE CommitUploadFails(t)
    BY <1>6 DEF CommitUploadFails
  <1>7. CASE RefreshUpload(t)
    BY <1>7 DEF RefreshUpload
  <1>. QED
    BY <1>1, <1>2, <1>3, <1>4, <1>5, <1>6, <1>7

LEMMA StepKinds ==
  [Next]_vars =>
    \/ Refused
    \/ \E t \in Threads : Ended(t) \/ Progress(t)
    \/ Crash
    \/ UNCHANGED vars
  BY Refusals, Endings DEF Next, Review, ReceiveFile, Quiet, Progress

-----------------------------------------------------------------------------
(* Types.                                                                  *)

VerdictRecord == [request : Nat, doc : DocIds, by : Verifiers, decision : Decisions]

FilesTyped ==
  upload \in [DocIds -> Upload] /\ blobs \subseteq Nat /\ nextDoc \in Nat \ {0} /\ clock \in Nat

ReviewsTyped ==
  /\ verdict \in [DocIds -> Verdict]
  /\ verdicts \subseteq VerdictRecord
  /\ inbox \subseteq (Nat \X Decisions)
  /\ mailed \subseteq (Nat \X Decisions)

ThreadsTyped ==
  /\ at \in [Threads -> Steps]
  /\ job \in [Threads -> Job]
  /\ held \in [Threads -> BOOLEAN]
  /\ lock \in [DocIds -> Threads \cup {NoThread}]

RestTyped ==
  contested \subseteq DocIds /\ requests \in Nat /\ answers \subseteq (Nat \X Codes) /\ faults \in Nat

Typed == FilesTyped /\ ReviewsTyped /\ ThreadsTyped /\ RestTyped

LEMMA TypedIsTypeOK == Typed <=> TypeOK
  BY DEF Typed, FilesTyped, ReviewsTyped, ThreadsTyped, RestTyped, VerdictRecord, TypeOK

LEMMA InitTyped == Init => Typed
  <1>. SUFFICES ASSUME Init PROVE Typed
    OBVIOUS
  <1>1. NoUpload \in Upload /\ NoVerdict("none") \in Verdict /\ NoVerdict("pending") \in Verdict
    BY DEF NoUpload, Upload, NoVerdict, Verdict
  <1>2. NoJob \in Job
    BY DocumentAssumption DEF NoJob, Job
  <1>3. FilesTyped
    <2>1. upload \in [DocIds -> Upload]
      <3>1. PICK tpl \in [1..InitialDocs -> Templates] :
              upload = [d \in DocIds |->
                IF d <= InitialDocs
                THEN [template |-> tpl[d], prev |-> 0, uploaded |-> 1, blob |-> d]
                ELSE NoUpload]
        BY DEF Init
      <3>2. ASSUME NEW d \in DocIds PROVE upload[d] \in Upload
        <4>1. CASE d <= InitialDocs
          <5>1. d \in 1..InitialDocs
            BY <4>1, DocumentAssumption DEF DocIds
          <5>2. tpl[d] \in Templates
            BY <5>1
          <5>. QED
            BY <3>1, <4>1, <5>1, <5>2 DEF Upload
        <4>2. CASE ~(d <= InitialDocs)
          BY <1>1, <3>1, <4>2
        <4>. QED
          BY <4>1, <4>2
      <3>. QED
        BY <3>1, <3>2
    <2>. QED
      BY <2>1, DocumentAssumption DEF Init, FilesTyped
  <1>4. ReviewsTyped
    BY <1>1 DEF Init, ReviewsTyped
  <1>5. ThreadsTyped
    BY <1>2 DEF Init, ThreadsTyped, Steps
  <1>6. RestTyped
    BY DocumentAssumption DEF Init, RestTyped
  <1>. QED
    BY <1>3, <1>4, <1>5, <1>6 DEF Typed

-----------------------------------------------------------------------------
(* The invariant.                                                          *)

Reviewing == {"verdict_row", "verdict_mail", "verdict_commit", "verdict_refresh"}

ReviewsNameDocuments ==
  \A t \in Threads : at[t] \in Reviewing =>
    job[t].doc \in Docs /\ job[t].by # Nobody /\ job[t].decision \in Decisions

Base == Typed /\ LocksFollowVerdicts /\ JobsAreCurrent

(* What a verdict writes, once it is committed.                            *)
LEMMA Verdicts ==
  ASSUME Typed, ReviewsNameDocuments, NEW t \in Threads, at[t] \in Reviewing
  PROVE  /\ job[t].doc \in Docs /\ job[t].doc \in DocIds /\ job[t].request \in Nat
         /\ job[t].by \in Verifiers /\ job[t].decision \in Decisions
         /\ Reviewed(t) \in Verdict
         /\ Reviewed(t).status = job[t].decision /\ Reviewed(t).by = job[t].by
         /\ VerdictOf(t) \in VerdictRecord
         /\ VerdictOf(t).request = job[t].request /\ VerdictOf(t).doc = job[t].doc
         /\ VerdictOf(t).by = job[t].by /\ VerdictOf(t).decision = job[t].decision
  <1>1. /\ job[t].doc \in Docs /\ job[t].doc \in DocIds /\ job[t].request \in Nat
        /\ job[t].by \in Verifiers /\ job[t].decision \in Decisions
        /\ job[t].comment \in BOOLEAN
    BY DEF Typed, ThreadsTyped, ReviewsNameDocuments, Job, Docs
  <1>2. verdict[job[t].doc] \in Verdict
    BY <1>1 DEF Typed, ReviewsTyped
  <1>3. /\ (verdict[job[t].doc].approval
               \/ (job[t].decision = "approved" /\ job[t].comment)) \in BOOLEAN
        /\ (verdict[job[t].doc].reason \/ job[t].decision = "rejected") \in BOOLEAN
    OBVIOUS
  <1>4. Reviewed(t) \in Verdict
    BY <1>1, <1>3 DEF Reviewed, Updated, Verdict
  <1>5. Reviewed(t).status = job[t].decision /\ Reviewed(t).by = job[t].by
    BY DEF Reviewed, Updated
  <1>6. VerdictOf(t) \in VerdictRecord
    BY <1>1 DEF VerdictOf, VerdictRecord
  <1>. QED
    BY <1>1, <1>4, <1>5, <1>6 DEF VerdictOf

(* A commit of a review decides its document, if it still holds a verdict, *)
(* and leaves the others alone.                                            *)
LEMMA Decides ==
  ASSUME Typed, ReviewsNameDocuments, NEW t \in Threads, CommitVerdict(t)
  PROVE  /\ Docs' = Docs
         /\ ReviewsTyped'
         /\ \A d \in DocIds : d # job[t].doc => verdict'[d] = verdict[d]
         /\ held[t] => /\ verdict'[job[t].doc] = Reviewed(t)
                       /\ verdicts' = verdicts \cup {VerdictOf(t)}
                       /\ inbox' = inbox \cup {<<job[t].request, job[t].decision>>}
         /\ ~held[t] => UNCHANGED reviews
  <1>1. at[t] \in Reviewing /\ mailed' = mailed /\ Publish(t)
    BY DEF CommitVerdict, Goto, Reviewing
  <1>2. CASE held[t]
    <2>1. /\ verdict' = [verdict EXCEPT ![job[t].doc] = Reviewed(t)]
          /\ verdicts' = verdicts \cup {VerdictOf(t)}
          /\ inbox' = inbox \cup {<<job[t].request, job[t].decision>>}
      BY <1>1, <1>2 DEF Publish
    <2>2. verdict \in [DocIds -> Verdict] /\ verdicts \subseteq VerdictRecord
      BY DEF Typed, ReviewsTyped
    <2>3. ReviewsTyped'
      BY <1>1, <2>1, <2>2, Verdicts DEF Typed, ReviewsTyped
    <2>4. verdict'[job[t].doc] = Reviewed(t)
      BY <1>1, <2>1, <2>2, Verdicts
    <2>5. \A d \in DocIds : d # job[t].doc => verdict'[d] = verdict[d]
      BY <2>1, <2>2
    <2>6. verdict[job[t].doc].status # "none" /\ verdict'[job[t].doc].status # "none"
      BY <1>1, <2>4, Verdicts DEF Docs, Status, Decisions
    <2>7. Docs' = Docs
      BY <2>5, <2>6 DEF Docs, Status
    <2>. QED
      BY <1>2, <2>1, <2>3, <2>4, <2>5, <2>7
  <1>3. CASE ~held[t]
    <2>1. UNCHANGED reviews
      BY <1>1, <1>3 DEF Publish
    <2>. QED
      BY <1>1, <1>3, <2>1 DEF reviews, Typed, ReviewsTyped, Docs, Status
  <1>. QED
    BY <1>2, <1>3

(* A commit of an upload adds its document.                                *)
LEMMA Adds ==
  ASSUME Typed, JobsAreCurrent, NEW t \in Threads, CommitUpload(t)
  PROVE  /\ nextDoc \in DocIds \ Docs /\ nextDoc' = nextDoc + 1
         /\ Docs' = Docs \cup {nextDoc}
         /\ verdict'[nextDoc] = NoVerdict("pending")
         /\ upload'[nextDoc] = Inserted(t) /\ upload'[nextDoc].blob = job[t].request
         /\ \A d \in DocIds : d # nextDoc => verdict'[d] = verdict[d] /\ upload'[d] = upload[d]
         /\ FilesTyped' /\ ReviewsTyped'
  <1>1. nextDoc \in DocIds \ Docs
    BY DEF CommitUpload, Goto, JobsAreCurrent
  <1>2. /\ upload' = [upload EXCEPT ![nextDoc] = Inserted(t)]
        /\ verdict' = [verdict EXCEPT ![nextDoc] = NoVerdict("pending")]
        /\ nextDoc' = nextDoc + 1
        /\ UNCHANGED <<blobs, clock, verdicts, inbox, mailed>>
    BY DEF CommitUpload
  <1>3. upload \in [DocIds -> Upload] /\ verdict \in [DocIds -> Verdict]
    BY DEF Typed, FilesTyped, ReviewsTyped
  <1>4. NoVerdict("pending") \in Verdict /\ NoVerdict("pending").status = "pending"
    BY DEF NoVerdict, Verdict
  <1>5. Inserted(t) \in Upload
    BY DocumentAssumption DEF Inserted, Upload, Typed, FilesTyped, ThreadsTyped, Job
  <1>6. /\ verdict'[nextDoc] = NoVerdict("pending") /\ upload'[nextDoc] = Inserted(t)
        /\ \A d \in DocIds : d # nextDoc => verdict'[d] = verdict[d] /\ upload'[d] = upload[d]
    BY <1>1, <1>2, <1>3
  <1>7. Docs' = Docs \cup {nextDoc}
    BY <1>1, <1>4, <1>6 DEF Docs, Status
  <1>8. FilesTyped'
    <2>1. upload' \in [DocIds -> Upload]
      BY <1>2, <1>3, <1>5
    <2>2. blobs' \subseteq Nat /\ clock' \in Nat /\ nextDoc' \in Nat \ {0}
      BY <1>2 DEF Typed, FilesTyped
    <2>. QED
      BY <2>1, <2>2 DEF FilesTyped
  <1>9. ReviewsTyped'
    BY <1>2, <1>3, <1>4 DEF Typed, ReviewsTyped
  <1>10. upload'[nextDoc].blob = job[t].request
    BY <1>6 DEF Inserted
  <1>. QED
    BY <1>1, <1>2, <1>6, <1>7, <1>8, <1>9, <1>10

LEMMA TypedStep == Base /\ [Next]_vars => Typed'
  <1>. SUFFICES ASSUME Base, [Next]_vars PROVE Typed'
    OBVIOUS
  <1>0. /\ Typed /\ FilesTyped /\ ReviewsTyped /\ ThreadsTyped /\ RestTyped
        /\ NoJob \in Job /\ ReviewsNameDocuments
    BY DocumentAssumption
    DEF Base, Typed, NoJob, Job, JobsAreCurrent, ReviewsNameDocuments, Reviewing
  <1>1. ASSUME Refused PROVE Typed'
    <2>1. FilesTyped' /\ ReviewsTyped' /\ ThreadsTyped'
      BY <1>0, <1>1 DEF Refused, FilesTyped, ReviewsTyped, ThreadsTyped, files, reviews, desk
    <2>2. RestTyped'
      BY <1>0, <1>1 DEF Refused, RestTyped, Codes, desk
    <2>. QED
      BY <2>1, <2>2 DEF Typed
  <1>2. ASSUME NEW t \in Threads, Ended(t) PROVE Typed'
    <2>1. FilesTyped' /\ ReviewsTyped'
      BY <1>0, <1>2 DEF Ended, FilesTyped, ReviewsTyped, reviews
    <2>2. ThreadsTyped'
      <3>1. PICK code \in Codes : Answer(t, code)
        BY <1>2 DEF Ended
      <3>2. at' \in [Threads -> Steps] /\ job' \in [Threads -> Job] /\ held' \in [Threads -> BOOLEAN]
        BY <1>0, <3>1 DEF Answer, ThreadsTyped, Steps
      <3>3. lock' \in [DocIds -> Threads \cup {NoThread}]
        BY <1>0, <3>1 DEF Answer, ThreadsTyped, Unlocked
      <3>. QED
        BY <3>2, <3>3 DEF ThreadsTyped
    <2>3. RestTyped'
      <3>1. PICK code \in Codes : Answer(t, code)
        BY <1>2 DEF Ended
      <3>2. job[t].request \in Nat
        BY <1>0 DEF ThreadsTyped, Job
      <3>. QED
        BY <1>0, <1>2, <3>1, <3>2 DEF Ended, Answer, RestTyped
    <2>. QED
      BY <2>1, <2>2, <2>3 DEF Typed
  <1>3. ASSUME NEW t \in Threads, LoadReview(t) PROVE Typed'
    <2>1. FilesTyped' /\ ReviewsTyped'
      BY <1>0, <1>3 DEF LoadReview, FilesTyped, ReviewsTyped, files, reviews
    <2>2. PICK d \in DocIds, v \in Verifiers, decision \in Decisions, comment \in BOOLEAN :
            /\ contested' = IF UnderReview(d) THEN contested \cup {d} ELSE contested
            /\ job' = [job EXCEPT ![t] =
                 [request |-> requests', doc |-> d, by |-> v, decision |-> decision,
                  comment |-> comment, template |-> NoTemplate, prev |-> 0]]
      BY <1>3 DEF LoadReview
    <2>3. /\ at' = [at EXCEPT ![t] = "verdict_row"] /\ requests' = requests + 1
          /\ UNCHANGED <<lock, held, answers, faults>>
      BY <1>3 DEF LoadReview, Goto, Receive, NoFault
    <2>4. [request |-> requests', doc |-> d, by |-> v, decision |-> decision,
           comment |-> comment, template |-> NoTemplate, prev |-> 0] \in Job
      BY <1>0, <2>3, DocumentAssumption DEF RestTyped, Job, DocIds
    <2>5. ThreadsTyped'
      BY <1>0, <2>2, <2>3, <2>4 DEF ThreadsTyped, Steps
    <2>6. RestTyped'
      BY <1>0, <2>2, <2>3 DEF RestTyped
    <2>. QED
      BY <2>1, <2>5, <2>6 DEF Typed
  <1>4. ASSUME NEW t \in Threads, BeginUpload(t) PROVE Typed'
    <2>1. FilesTyped' /\ ReviewsTyped'
      BY <1>0, <1>4 DEF BeginUpload, FilesTyped, ReviewsTyped, files, reviews
    <2>2. PICK tpl \in AskedTemplates, prev \in 0..MaxDocs :
            /\ UploadCode(tpl, prev) = 201
            /\ job' = [job EXCEPT ![t] =
                 [request |-> requests', doc |-> 0, by |-> Nobody, decision |-> "none",
                  comment |-> FALSE, template |-> tpl, prev |-> prev]]
      BY <1>4 DEF BeginUpload
    <2>3. /\ at' = [at EXCEPT ![t] = "body"] /\ requests' = requests + 1
          /\ UNCHANGED <<lock, held, contested, answers, faults>>
      BY <1>4 DEF BeginUpload, Goto, Receive, NoFault
    <2>4. tpl \in Templates \cup {NoTemplate}
      BY <2>2 DEF UploadCode
    <2>5. [request |-> requests', doc |-> 0, by |-> Nobody, decision |-> "none",
           comment |-> FALSE, template |-> tpl, prev |-> prev] \in Job
      BY <1>0, <2>3, <2>4, DocumentAssumption DEF RestTyped, Job
    <2>6. ThreadsTyped'
      BY <1>0, <2>2, <2>3, <2>5 DEF ThreadsTyped, Steps
    <2>7. RestTyped'
      BY <1>0, <2>3 DEF RestTyped
    <2>. QED
      BY <2>1, <2>6, <2>7 DEF Typed
  <1>5. ASSUME NEW t \in Threads, FlushVerdict(t) \/ FlushVerdictFails(t) PROVE Typed'
    <2>1. /\ UNCHANGED <<files, reviews, mailed, job, contested, requests, answers>>
          /\ faults' \in {faults, faults + 1}
          /\ at' = [at EXCEPT ![t] = "verdict_mail"]
      BY <1>5 DEF FlushVerdict, FlushVerdictFails, Goto, desk, NoFault, Strike
    <2>2. FilesTyped' /\ ReviewsTyped' /\ RestTyped'
      BY <1>0, <2>1 DEF FilesTyped, ReviewsTyped, RestTyped, files, reviews
    <2>3. held' \in [Threads -> BOOLEAN] /\ lock' \in [DocIds -> Threads \cup {NoThread}]
      <3>1. CASE FlushVerdict(t)
        BY <1>0, <3>1 DEF FlushVerdict, ThreadsTyped
      <3>2. CASE FlushVerdictFails(t)
        BY <1>0, <3>2 DEF FlushVerdictFails, ThreadsTyped, desk
      <3>. QED
        BY <1>5, <3>1, <3>2
    <2>4. ThreadsTyped'
      BY <1>0, <2>1, <2>3 DEF ThreadsTyped, Steps
    <2>. QED
      BY <2>2, <2>4 DEF Typed
  <1>6. ASSUME NEW t \in Threads, MailVerdict(t) PROVE Typed'
    <2>1. at[t] \in Reviewing
      BY <1>6 DEF MailVerdict, Goto, Reviewing
    <2>2. job[t].request \in Nat /\ job[t].decision \in Decisions
      BY <1>0, <2>1, Verdicts
    <2>3. FilesTyped' /\ RestTyped'
      BY <1>0, <1>6 DEF MailVerdict, FilesTyped, RestTyped, files, desk, NoFault, Strike
    <2>4. ReviewsTyped'
      BY <1>0, <1>6, <2>2 DEF MailVerdict, ReviewsTyped, reviews
    <2>5. ThreadsTyped'
      BY <1>0, <1>6 DEF MailVerdict, Goto, ThreadsTyped, Steps, desk
    <2>. QED
      BY <2>3, <2>4, <2>5 DEF Typed
  <1>7. ASSUME NEW t \in Threads, CommitVerdict(t) PROVE Typed'
    <2>1. FilesTyped' /\ RestTyped'
      BY <1>0, <1>7 DEF CommitVerdict, FilesTyped, RestTyped, files, desk, NoFault
    <2>2. ThreadsTyped'
      BY <1>0, <1>7 DEF CommitVerdict, Goto, ThreadsTyped, Steps, Unlocked, desk
    <2>. QED
      BY <1>0, <1>7, <2>1, <2>2, Decides DEF Typed
  <1>8. ASSUME NEW t \in Threads, Store(t) PROVE Typed'
    <2>1. job[t].request \in Nat
      BY <1>0 DEF ThreadsTyped, Job
    <2>2. FilesTyped'
      <3>1. /\ blobs' = blobs \cup {job[t].request} /\ clock' \in {clock, clock + 1}
            /\ UNCHANGED <<upload, nextDoc>>
        BY <1>8 DEF Store
      <3>2. upload' \in [DocIds -> Upload] /\ nextDoc' \in Nat \ {0}
        BY <1>0, <3>1 DEF FilesTyped
      <3>3. blobs' \subseteq Nat
        BY <1>0, <2>1, <3>1 DEF FilesTyped
      <3>4. clock' \in Nat
        BY <1>0, <3>1 DEF FilesTyped
      <3>. QED
        BY <3>2, <3>3, <3>4 DEF FilesTyped
    <2>3. ReviewsTyped' /\ RestTyped'
      BY <1>0, <1>8 DEF Store, ReviewsTyped, RestTyped, reviews, desk, NoFault
    <2>4. ThreadsTyped'
      BY <1>0, <1>8 DEF Store, Goto, ThreadsTyped, Steps, desk
    <2>. QED
      BY <2>2, <2>3, <2>4 DEF Typed
  <1>9. ASSUME NEW t \in Threads, CommitUpload(t) PROVE Typed'
    <2>1. FilesTyped' /\ ReviewsTyped'
      BY <1>0, <1>9, Adds DEF Base
    <2>2. ThreadsTyped'
      BY <1>0, <1>9 DEF CommitUpload, Goto, ThreadsTyped, Steps, desk
    <2>3. RestTyped'
      BY <1>0, <1>9 DEF CommitUpload, RestTyped, desk, NoFault
    <2>. QED
      BY <2>1, <2>2, <2>3 DEF Typed
  <1>10. ASSUME Crash PROVE Typed'
    <2>1. FilesTyped' /\ ReviewsTyped'
      BY <1>0, <1>10 DEF Crash, FilesTyped, ReviewsTyped, files, reviews
    <2>2. ThreadsTyped'
      BY <1>0, <1>10 DEF Crash, ThreadsTyped, Steps
    <2>3. \A t \in Threads : job[t].request \in Nat
      BY <1>0 DEF ThreadsTyped, Job
    <2>4. RestTyped'
      BY <1>0, <1>10, <2>3 DEF Crash, RestTyped, Codes, Strike
    <2>. QED
      BY <2>1, <2>2, <2>4 DEF Typed
  <1>11. ASSUME UNCHANGED vars PROVE Typed'
    BY <1>0, <1>11 DEF vars, Typed, FilesTyped, ReviewsTyped, ThreadsTyped, RestTyped, files,
      reviews, desk
  <1>. QED
    BY <1>1, <1>2, <1>3, <1>4, <1>5, <1>6, <1>7, <1>8, <1>9, <1>10, <1>11, StepKinds
    DEF Progress

-----------------------------------------------------------------------------
(* Row locks.                                                              *)

LEMMA LocksStep == Base /\ [Next]_vars => LocksFollowVerdicts'
  <1>. SUFFICES ASSUME Base, [Next]_vars PROVE LocksFollowVerdicts'
    OBVIOUS
  <1>0. /\ at \in [Threads -> Steps] /\ held \in [Threads -> BOOLEAN]
        /\ job \in [Threads -> Job] /\ lock \in [DocIds -> Threads \cup {NoThread}]
        /\ LocksFollowVerdicts /\ NoThread \notin Threads
    BY DocumentAssumption DEF Base, Typed, ThreadsTyped
  <1>. USE DEF LocksFollowVerdicts
  <1>1. ASSUME Refused PROVE LocksFollowVerdicts'
    BY <1>0, <1>1 DEF Refused, desk
  <1>2. ASSUME NEW t \in Threads, Ended(t) PROVE LocksFollowVerdicts'
    <2>1. PICK code \in Codes : Answer(t, code)
      BY <1>2 DEF Ended
    <2>2. /\ at' = [at EXCEPT ![t] = "idle"] /\ held' = [held EXCEPT ![t] = FALSE]
          /\ job' = [job EXCEPT ![t] = NoJob]
          /\ lock' = [d \in DocIds |-> IF lock[d] = t THEN NoThread ELSE lock[d]]
      BY <2>1 DEF Answer, Unlocked
    <2>. QED
      BY <1>0, <2>2
  <1>3. ASSUME NEW t \in Threads, LoadReview(t) \/ BeginUpload(t) PROVE LocksFollowVerdicts'
    <2>1. /\ at[t] = "idle" /\ UNCHANGED <<held, lock>>
          /\ \A s \in Threads \ {t} : at'[s] = at[s] /\ job'[s] = job[s]
      BY <1>0, <1>3 DEF LoadReview, BeginUpload, Goto
    <2>2. ~held[t]
      BY <1>0, <2>1
    <2>. QED
      BY <1>0, <2>1, <2>2
  <1>4. ASSUME NEW t \in Threads, FlushVerdict(t) PROVE LocksFollowVerdicts'
    <2>1. /\ at[t] = "verdict_row" /\ lock[job[t].doc] = NoThread
          /\ at' = [at EXCEPT ![t] = "verdict_mail"]
          /\ lock' = [lock EXCEPT ![job[t].doc] = t] /\ held' = [held EXCEPT ![t] = TRUE]
          /\ job' = job
      BY <1>4 DEF FlushVerdict, Goto
    <2>2. job[t].doc \in DocIds /\ ~held[t]
      BY <1>0, <2>1 DEF Base, JobsAreCurrent, Docs
    <2>. QED
      BY <1>0, <2>1, <2>2
  <1>5. ASSUME NEW t \in Threads, FlushVerdictFails(t) \/ Store(t) \/ CommitUpload(t)
        PROVE  LocksFollowVerdicts'
    <2>1. at[t] \in {"verdict_row", "body", "insert"} /\ UNCHANGED <<lock, held, job>>
      BY <1>5 DEF FlushVerdictFails, Store, CommitUpload, Goto, desk
    <2>2. \A s \in Threads \ {t} : at'[s] = at[s]
      BY <1>0, <1>5 DEF FlushVerdictFails, Store, CommitUpload, Goto
    <2>3. ~held[t]
      BY <1>0, <2>1
    <2>. QED
      BY <1>0, <2>1, <2>2, <2>3
  <1>6. ASSUME NEW t \in Threads, MailVerdict(t) PROVE LocksFollowVerdicts'
    BY <1>0, <1>6 DEF MailVerdict, Goto, desk
  <1>7. ASSUME NEW t \in Threads, CommitVerdict(t) PROVE LocksFollowVerdicts'
    <2>1. /\ at[t] = "verdict_commit" /\ at' = [at EXCEPT ![t] = "verdict_refresh"]
          /\ lock' = [d \in DocIds |-> IF lock[d] = t THEN NoThread ELSE lock[d]]
          /\ UNCHANGED <<held, job>>
      BY <1>7 DEF CommitVerdict, Goto, Unlocked, desk
    <2>. QED
      BY <1>0, <2>1
  <1>8. ASSUME Crash PROVE LocksFollowVerdicts'
    BY <1>0, <1>8 DEF Crash
  <1>9. ASSUME UNCHANGED vars PROVE LocksFollowVerdicts'
    BY <1>0, <1>9 DEF vars, desk
  <1>. QED
    BY <1>1, <1>2, <1>3, <1>4, <1>5, <1>6, <1>7, <1>8, <1>9, StepKinds DEF Progress

-----------------------------------------------------------------------------
(* Requests in flight.                                                     *)

(* Whoever runs after a step ran the same job before it, or has just begun *)
(* under a new number while the others stayed where they were.             *)
Begins(s) ==
  /\ at[s] = "idle" /\ at'[s] \in {"verdict_row", "body"}
  /\ requests' = requests + 1 /\ job'[s].request = requests'
  /\ \A u \in Threads \ {s} : at'[u] = at[u]

LEMMA JobsStep ==
  Base /\ [Next]_vars =>
    /\ requests' \in {requests, requests + 1}
    /\ \A s \in Threads : at'[s] # "idle" =>
         Begins(s) \/ (at[s] # "idle" /\ job'[s] = job[s])
  <1>. DEFINE Frame == /\ requests' \in {requests, requests + 1}
                       /\ \A s \in Threads : at'[s] # "idle" =>
                            Begins(s) \/ (at[s] # "idle" /\ job'[s] = job[s])
  <1>. SUFFICES ASSUME Base, [Next]_vars PROVE Frame
    OBVIOUS
  <1>0. at \in [Threads -> Steps] /\ job \in [Threads -> Job]
    BY DEF Base, Typed, ThreadsTyped
  <1>1. CASE Refused
    BY <1>0, <1>1 DEF Refused, desk
  <1>2. ASSUME NEW t \in Threads, Ended(t) PROVE Frame
    <2>1. /\ at' = [at EXCEPT ![t] = "idle"] /\ job' = [job EXCEPT ![t] = NoJob]
          /\ requests' = requests
      BY <1>2 DEF Ended, Answer
    <2>. QED
      BY <1>0, <2>1
  <1>3. ASSUME NEW t \in Threads, LoadReview(t) PROVE Frame
    <2>1. /\ at[t] = "idle" /\ at' = [at EXCEPT ![t] = "verdict_row"]
          /\ requests' = requests + 1
      BY <1>3 DEF LoadReview, Goto, Receive
    <2>2. job'[t].request = requests' /\ \A s \in Threads \ {t} : job'[s] = job[s]
      BY <1>0, <1>3 DEF LoadReview
    <2>. QED
      BY <1>0, <2>1, <2>2 DEF Begins
  <1>4. ASSUME NEW t \in Threads, BeginUpload(t) PROVE Frame
    <2>1. /\ at[t] = "idle" /\ at' = [at EXCEPT ![t] = "body"]
          /\ requests' = requests + 1
      BY <1>4 DEF BeginUpload, Goto, Receive
    <2>2. job'[t].request = requests' /\ \A s \in Threads \ {t} : job'[s] = job[s]
      BY <1>0, <1>4 DEF BeginUpload
    <2>. QED
      BY <1>0, <2>1, <2>2 DEF Begins
  <1>5. ASSUME NEW t \in Threads,
               \/ FlushVerdict(t) \/ FlushVerdictFails(t) \/ MailVerdict(t)
               \/ CommitVerdict(t) \/ Store(t) \/ CommitUpload(t)
        PROVE  Frame
    <2>1. /\ at[t] # "idle" /\ UNCHANGED <<job, requests>>
          /\ \E step \in Steps : at' = [at EXCEPT ![t] = step]
      BY <1>5 DEF FlushVerdict, FlushVerdictFails, MailVerdict, CommitVerdict, Store,
        CommitUpload, Goto, desk, Steps
    <2>. QED
      BY <1>0, <2>1
  <1>6. CASE Crash
    BY <1>0, <1>6 DEF Crash
  <1>7. CASE UNCHANGED vars
    BY <1>7 DEF vars, desk
  <1>. QED
    BY <1>1, <1>2, <1>3, <1>4, <1>5, <1>6, <1>7, StepKinds DEF Progress

(* Only an upload's commit adds a document, and no step takes one away.    *)
LEMMA DocsStep ==
  Base /\ [Next]_vars =>
    \/ \E t \in Threads : CommitUpload(t)
    \/ /\ Docs' = Docs /\ upload' = upload
       /\ nextDoc' \in {nextDoc, nextDoc + 1}
  <1>. DEFINE Kept == Docs' = Docs /\ upload' = upload /\ nextDoc' \in {nextDoc, nextDoc + 1}
  <1>. SUFFICES ASSUME Base, [Next]_vars PROVE (\E t \in Threads : CommitUpload(t)) \/ Kept
    OBVIOUS
  <1>1. ASSUME verdict' = verdict PROVE Docs' = Docs
    BY <1>1 DEF Docs, Status
  <1>2. CASE Refused
    BY <1>1, <1>2 DEF Refused, files, reviews
  <1>3. ASSUME NEW t \in Threads, Ended(t) PROVE Kept
    BY <1>1, <1>3 DEF Ended, reviews
  <1>4. ASSUME NEW t \in Threads,
               \/ LoadReview(t) \/ FlushVerdict(t) \/ FlushVerdictFails(t) \/ MailVerdict(t)
               \/ BeginUpload(t) \/ Store(t)
        PROVE  Kept
    BY <1>1, <1>4 DEF LoadReview, FlushVerdict, FlushVerdictFails, MailVerdict, BeginUpload,
      Store, files, reviews
  <1>5. ASSUME NEW t \in Threads, CommitVerdict(t) PROVE Kept
    <2>1. Docs' = Docs
      BY <1>5, Decides DEF Base, JobsAreCurrent, ReviewsNameDocuments, Reviewing
    <2>. QED
      BY <1>5, <2>1 DEF CommitVerdict, files
  <1>6. CASE Crash
    BY <1>1, <1>6 DEF Crash, files, reviews
  <1>7. CASE UNCHANGED vars
    BY <1>1, <1>7 DEF vars, files, reviews
  <1>. QED
    BY <1>2, <1>3, <1>4, <1>5, <1>6, <1>7, StepKinds DEF Progress

DocsAreNumbered == Docs \subseteq 1..(nextDoc - 1)

LEMMA BelowItself ==
  ASSUME NEW n \in Nat
  PROVE  n \notin 1..(n - 1)
  OBVIOUS

LEMMA NumberedStep == Base /\ [Next]_vars => DocsAreNumbered'
  <1>. SUFFICES ASSUME Base, [Next]_vars PROVE DocsAreNumbered'
    OBVIOUS
  <1>1. nextDoc \in Nat \ {0} /\ Docs \subseteq 1..(nextDoc - 1)
    BY DEF Base, Typed, FilesTyped, JobsAreCurrent
  <1>2. ASSUME NEW t \in Threads, CommitUpload(t) PROVE DocsAreNumbered'
    <2>1. Docs' = Docs \cup {nextDoc} /\ nextDoc' = nextDoc + 1
      BY <1>2, Adds DEF Base
    <2>. QED
      BY <1>1, <2>1 DEF DocsAreNumbered
  <1>3. CASE Docs' = Docs /\ nextDoc' \in {nextDoc, nextDoc + 1}
    <2>. SUFFICES ASSUME NEW d \in Docs' PROVE d \in 1..(nextDoc' - 1)
      BY DEF DocsAreNumbered
    <2>1. d \in 1..(nextDoc - 1)
      BY <1>1, <1>3
    <2>2. CASE nextDoc' = nextDoc
      BY <2>1, <2>2
    <2>3. CASE nextDoc' = nextDoc + 1
      BY <1>1, <2>1, <2>3
    <2>. QED
      BY <1>3, <2>2, <2>3
  <1>. QED
    BY <1>2, <1>3, DocsStep

RequestsAreNumbered ==
  /\ \A t \in Threads : Running(t) => job[t].request \in 1..requests
  /\ \A s, t \in Threads :
       Running(s) /\ Running(t) /\ job[s].request = job[t].request => s = t

LEMMA RequestsStep == Base /\ [Next]_vars => RequestsAreNumbered'
  <1>. SUFFICES ASSUME Base, [Next]_vars PROVE RequestsAreNumbered'
    OBVIOUS
  <1>1. requests \in Nat /\ RequestsAreNumbered
    BY DEF Base, Typed, RestTyped, JobsAreCurrent, RequestsAreNumbered
  <1>2. ASSUME NEW t \in Threads, Running(t)' PROVE job'[t].request \in 1..requests'
    BY <1>1, <1>2, JobsStep DEF RequestsAreNumbered, Running, Begins
  <1>3. ASSUME NEW s \in Threads, NEW t \in Threads, Running(s)', Running(t)',
               job'[s].request = job'[t].request
        PROVE  s = t
    <2>1. CASE Begins(s)
      <3>1. CASE Begins(t)
        BY <1>3, <2>1, <3>1 DEF Begins
      <3>2. CASE at[t] # "idle" /\ job'[t] = job[t]
        <4>1. job[t].request \in 1..requests /\ job'[t].request = job[t].request
          BY <1>1, <3>2 DEF RequestsAreNumbered, Running
        <4>2. job'[t].request = requests + 1
          BY <1>3, <2>1 DEF Begins
        <4>. QED
          BY <1>1, <4>1, <4>2
      <3>. QED
        BY <1>3, <3>1, <3>2, JobsStep DEF Running
    <2>2. CASE at[s] # "idle" /\ job'[s] = job[s]
      <3>1. CASE Begins(t)
        BY <1>1, <1>3, <2>2, <3>1 DEF Begins, RequestsAreNumbered, Running
      <3>2. CASE at[t] # "idle" /\ job'[t] = job[t]
        BY <1>1, <1>3, <2>2, <3>2 DEF RequestsAreNumbered, Running
      <3>. QED
        BY <1>3, <3>1, <3>2, JobsStep DEF Running
    <2>. QED
      BY <1>3, <2>1, <2>2, JobsStep DEF Running
  <1>. QED
    BY <1>2, <1>3 DEF RequestsAreNumbered, Running

-----------------------------------------------------------------------------
(* Room for what is being uploaded.                                        *)

Uploading == {t \in Threads : at[t] \in {"body", "insert"}}

RoomLeft == nextDoc + Cardinality(Uploading) <= MaxDocs + 1

LEMMA UploadingCounted ==
  IsFiniteSet(Uploading) /\ Cardinality(Uploading) \in Nat
  <1>1. Uploading \in SUBSET Threads
    BY DEF Uploading
  <1>. QED
    BY <1>1, DocumentAssumption, FS_Subset, FS_CardinalityType

LEMMA RoomKept ==
  ASSUME Typed, RoomLeft, nextDoc' = nextDoc, Uploading' \subseteq Uploading
  PROVE  RoomLeft'
  <1>1. Cardinality(Uploading') \in Nat /\ Cardinality(Uploading') <= Cardinality(Uploading)
    BY UploadingCounted, FS_Subset, FS_CardinalityType
  <1>. QED
    BY <1>1, UploadingCounted, DocumentAssumption DEF RoomLeft, Typed, FilesTyped

LEMMA RoomTaken ==
  ASSUME Typed, RoomLeft, NEW t \in Uploading, nextDoc' = nextDoc + 1,
         Uploading' = Uploading \ {t}
  PROVE  RoomLeft'
  <1>1. Cardinality(Uploading') = Cardinality(Uploading) - 1
    BY UploadingCounted, FS_RemoveElement
  <1>. QED
    BY <1>1, UploadingCounted, DocumentAssumption DEF RoomLeft, Typed, FilesTyped

LEMMA RoomStep == Base /\ RoomLeft /\ [Next]_vars => RoomLeft'
  <1>. SUFFICES ASSUME Base, RoomLeft, [Next]_vars PROVE RoomLeft'
    OBVIOUS
  <1>0. at \in [Threads -> Steps] /\ Typed
    BY DEF Base, Typed, ThreadsTyped
  <1>1. CASE Refused
    BY <1>0, <1>1, RoomKept DEF Refused, files, Uploading
  <1>2. ASSUME NEW t \in Threads, Ended(t) PROVE RoomLeft'
    <2>1. at' = [at EXCEPT ![t] = "idle"]
      BY <1>2 DEF Ended, Answer
    <2>2. Uploading' = Uploading \ {t}
      BY <1>0, <2>1 DEF Uploading
    <2>3. CASE at[t] = "insert"
      <3>1. t \in Uploading /\ nextDoc' = nextDoc + 1
        BY <1>2, <2>3 DEF Uploading, Ended
      <3>. QED
        BY <1>0, <2>2, <3>1, RoomTaken
    <2>4. CASE at[t] # "insert"
      <3>1. nextDoc' = nextDoc
        BY <1>2, <2>4 DEF Ended
      <3>. QED
        BY <1>0, <2>2, <3>1, RoomKept
    <2>. QED
      BY <2>3, <2>4
  <1>3. ASSUME NEW t \in Threads,
               LoadReview(t) \/ FlushVerdict(t) \/ FlushVerdictFails(t) \/ MailVerdict(t)
               \/ CommitVerdict(t)
        PROVE  RoomLeft'
    <2>1. nextDoc' = nextDoc
      BY <1>3 DEF LoadReview, FlushVerdict, FlushVerdictFails, MailVerdict, CommitVerdict, files
    <2>2. \E step \in Reviewing : at' = [at EXCEPT ![t] = step]
      BY <1>3 DEF LoadReview, FlushVerdict, FlushVerdictFails, MailVerdict, CommitVerdict, Goto,
        Reviewing
    <2>3. Uploading' \subseteq Uploading
      BY <1>0, <2>2 DEF Uploading, Reviewing
    <2>. QED
      BY <1>0, <2>1, <2>3, RoomKept
  <1>4. ASSUME NEW t \in Threads, BeginUpload(t) PROVE RoomLeft'
    <2>1. /\ nextDoc + Cardinality({s \in Threads : at[s] = "body"}) <= MaxDocs
          /\ \A s \in Threads : at[s] # "insert"
          /\ at' = [at EXCEPT ![t] = "body"] /\ at[t] = "idle" /\ nextDoc' = nextDoc
      BY <1>4 DEF BeginUpload, Receive, LoopFree, Goto, files
    <2>2. Uploading = {s \in Threads : at[s] = "body"}
      BY <2>1 DEF Uploading
    <2>3. Uploading' = Uploading \cup {t} /\ t \notin Uploading
      BY <1>0, <2>1 DEF Uploading
    <2>4. Cardinality(Uploading') = Cardinality(Uploading) + 1
      BY <2>3, UploadingCounted, FS_AddElement
    <2>5. nextDoc + Cardinality(Uploading) <= MaxDocs
      BY <2>1, <2>2
    <2>. QED
      BY <1>0, <2>1, <2>4, <2>5, UploadingCounted, DocumentAssumption
      DEF RoomLeft, Typed, FilesTyped
  <1>5. ASSUME NEW t \in Threads, Store(t) PROVE RoomLeft'
    <2>1. at[t] = "body" /\ at' = [at EXCEPT ![t] = "insert"] /\ nextDoc' = nextDoc
      BY <1>5 DEF Store, Goto
    <2>2. Uploading' \subseteq Uploading
      BY <1>0, <2>1 DEF Uploading
    <2>. QED
      BY <1>0, <2>1, <2>2, RoomKept
  <1>6. ASSUME NEW t \in Threads, CommitUpload(t) PROVE RoomLeft'
    <2>1. /\ at[t] = "insert" /\ at' = [at EXCEPT ![t] = "upload_refresh"]
          /\ nextDoc' = nextDoc + 1
      BY <1>6 DEF CommitUpload, Goto
    <2>2. t \in Uploading /\ Uploading' = Uploading \ {t}
      BY <1>0, <2>1 DEF Uploading
    <2>. QED
      BY <1>0, <2>1, <2>2, RoomTaken
  <1>7. CASE Crash
    <2>1. nextDoc' = nextDoc /\ Uploading' \subseteq Uploading
      BY <1>7 DEF Crash, files, Uploading
    <2>. QED
      BY <1>0, <2>1, RoomKept
  <1>8. CASE UNCHANGED vars
    BY <1>0, <1>8, RoomKept DEF vars, files, Uploading
  <1>. QED
    BY <1>1, <1>2, <1>3, <1>4, <1>5, <1>6, <1>7, <1>8, StepKinds DEF Progress

-----------------------------------------------------------------------------
(* What the requests in flight have in hand.                               *)

LEMMA ReviewsNameStep == Base /\ [Next]_vars => ReviewsNameDocuments'
  <1>. SUFFICES ASSUME Base, [Next]_vars,
                       NEW t \in Threads, at'[t] \in Reviewing
                PROVE  /\ job'[t].doc \in Docs' /\ job'[t].by # Nobody
                       /\ job'[t].decision \in Decisions
    BY DEF ReviewsNameDocuments, Reviewing
  <1>0. /\ at \in [Threads -> Steps] /\ job \in [Threads -> Job] /\ Typed
        /\ ReviewsNameDocuments
    BY DEF Base, Typed, ThreadsTyped, JobsAreCurrent, ReviewsNameDocuments, Reviewing
  <1>1. Docs \subseteq Docs'
    BY DocsStep, Adds DEF Base
  <1>2. CASE at[t] \in Reviewing /\ job'[t] = job[t]
    BY <1>0, <1>1, <1>2 DEF ReviewsNameDocuments
  <1>3. CASE LoadReview(t)
    <2>1. PICK d \in DocIds, v \in Verifiers, decision \in Decisions, comment \in BOOLEAN :
            /\ ReviewCode(d) = 200
            /\ job' = [job EXCEPT ![t] =
                 [request |-> requests', doc |-> d, by |-> v, decision |-> decision,
                  comment |-> comment, template |-> NoTemplate, prev |-> 0]]
      BY <1>3 DEF LoadReview
    <2>2. d \in Docs
      BY <2>1 DEF ReviewCode, Docs
    <2>3. job'[t].doc = d /\ job'[t].by = v /\ job'[t].decision = decision
      BY <1>0, <2>1
    <2>. QED
      BY <1>1, <2>1, <2>2, <2>3, DocumentAssumption
  <1>4. CASE ~(at[t] \in Reviewing /\ job'[t] = job[t])
    <2>. SUFFICES LoadReview(t)
      BY <1>3
    <2>1. ~Refused /\ ~(UNCHANGED vars) /\ ~Crash
      BY <1>4 DEF Refused, desk, vars, Crash, Reviewing
    <2>2. ASSUME NEW s \in Threads, Ended(s) PROVE FALSE
      <3>1. at' = [at EXCEPT ![s] = "idle"] /\ job' = [job EXCEPT ![s] = NoJob]
        BY <2>2 DEF Ended, Answer
      <3>. QED
        BY <1>0, <1>4, <3>1 DEF Reviewing
    <2>3. ASSUME NEW s \in Threads,
                 FlushVerdict(s) \/ FlushVerdictFails(s) \/ MailVerdict(s) \/ CommitVerdict(s)
          PROVE  FALSE
      <3>1. /\ at[s] \in Reviewing /\ job' = job
            /\ \E step \in Steps : at' = [at EXCEPT ![s] = step]
        BY <2>3 DEF FlushVerdict, FlushVerdictFails, MailVerdict, CommitVerdict, Goto, desk,
          Reviewing, Steps
      <3>. QED
        BY <1>0, <1>4, <3>1 DEF Reviewing
    <2>4. ASSUME NEW s \in Threads, BeginUpload(s) \/ Store(s) \/ CommitUpload(s)
          PROVE  FALSE
      <3>1. /\ \E step \in Steps \ Reviewing : at' = [at EXCEPT ![s] = step]
            /\ \A u \in Threads \ {s} : job'[u] = job[u]
        BY <1>0, <2>4 DEF BeginUpload, Store, CommitUpload, Goto, desk, Reviewing, Steps
      <3>. QED
        BY <1>0, <1>4, <3>1
    <2>5. ASSUME NEW s \in Threads, LoadReview(s) PROVE s = t
      <3>1. /\ at' = [at EXCEPT ![s] = "verdict_row"]
            /\ \A u \in Threads \ {s} : job'[u] = job[u]
        BY <1>0, <2>5 DEF LoadReview, Goto
      <3>. QED
        BY <1>0, <1>4, <3>1
    <2>. QED
      BY <2>1, <2>2, <2>3, <2>4, <2>5, StepKinds DEF Progress
  <1>. QED
    BY <1>2, <1>4

InsertsHaveTheirBlob ==
  \A t \in Threads : at[t] = "insert" => job[t].request \in blobs

LEMMA InsertsStep == Base /\ [Next]_vars => InsertsHaveTheirBlob'
  <1>. SUFFICES ASSUME Base, [Next]_vars,
                       NEW t \in Threads, at'[t] = "insert"
                PROVE  job'[t].request \in blobs'
    BY DEF InsertsHaveTheirBlob
  <1>0. /\ at \in [Threads -> Steps] /\ job'[t] = job[t]
        /\ at[t] = "insert" => job[t].request \in blobs
    BY JobsStep DEF Base, Typed, ThreadsTyped, JobsAreCurrent, Begins
  <1>1. CASE Store(t)
    BY <1>0, <1>1 DEF Store
  <1>2. CASE at[t] = "insert"
    <2>1. blobs \subseteq blobs'
      <3>1. CASE Refused
        BY <3>1 DEF Refused, files
      <3>2. ASSUME NEW s \in Threads, Ended(s) PROVE blobs \subseteq blobs'
        BY <3>2 DEF Ended
      <3>3. ASSUME NEW s \in Threads, Progress(s) PROVE blobs \subseteq blobs'
        BY <3>3 DEF Progress, LoadReview, FlushVerdict, FlushVerdictFails, MailVerdict,
          CommitVerdict, BeginUpload, Store, CommitUpload, files
      <3>4. CASE Crash
        BY <3>4 DEF Crash, files
      <3>5. CASE UNCHANGED vars
        BY <3>5 DEF vars, files
      <3>. QED
        BY <3>1, <3>2, <3>3, <3>4, <3>5, StepKinds
    <2>. QED
      BY <1>0, <1>2, <2>1
  <1>3. CASE at[t] # "insert"
    <2>. SUFFICES Store(t)
      BY <1>1
    <2>1. ~Refused /\ ~(UNCHANGED vars) /\ ~Crash
      BY <1>3 DEF Refused, desk, vars, Crash
    <2>2. ASSUME NEW s \in Threads, Ended(s) PROVE FALSE
      BY <1>0, <1>3, <2>2 DEF Ended, Answer
    <2>3. ASSUME NEW s \in Threads, Progress(s) PROVE s = t /\ Store(s)
      BY <1>0, <1>3, <2>3 DEF Progress, LoadReview, FlushVerdict, FlushVerdictFails,
        MailVerdict, CommitVerdict, BeginUpload, Store, CommitUpload, Goto
    <2>. QED
      BY <2>1, <2>2, <2>3, StepKinds
  <1>. QED
    BY <1>2, <1>3

LEMMA JobsAreCurrentStep == Base /\ RoomLeft /\ [Next]_vars => JobsAreCurrent'
  <1>. SUFFICES ASSUME Base, RoomLeft, [Next]_vars PROVE JobsAreCurrent'
    OBVIOUS
  <1>1. /\ ReviewsNameDocuments' /\ InsertsHaveTheirBlob' /\ RequestsAreNumbered'
        /\ DocsAreNumbered' /\ RoomLeft' /\ Typed'
    BY ReviewsNameStep, InsertsStep, RequestsStep, NumberedStep, RoomStep, TypedStep
  <1>2. ASSUME NEW t \in Threads, at'[t] = "insert" PROVE nextDoc' \in DocIds \ Docs'
    <2>1. t \in Uploading'
      BY <1>2 DEF Uploading
    <2>2. Uploading' \in SUBSET Threads
      BY DEF Uploading
    <2>3. IsFiniteSet(Uploading') /\ Cardinality(Uploading') \in Nat
      BY <2>2, DocumentAssumption, FS_Subset, FS_CardinalityType
    <2>4. Cardinality(Uploading') # 0
      BY <2>1, <2>3, FS_EmptySet
    <2>5. nextDoc' \in Nat \ {0}
      BY <1>1 DEF Typed, FilesTyped
    <2>6. nextDoc' <= MaxDocs
      BY <1>1, <2>3, <2>4, <2>5, DocumentAssumption DEF RoomLeft
    <2>7. nextDoc' \notin Docs'
      <3>. SUFFICES ASSUME nextDoc' \in Docs' PROVE FALSE
        OBVIOUS
      <3>1. nextDoc' \in 1..(nextDoc' - 1)
        BY <1>1 DEF DocsAreNumbered
      <3>. QED
        BY <2>5, <3>1, BelowItself
    <2>. QED
      BY <2>5, <2>6, <2>7, DocumentAssumption DEF DocIds
  <1>. QED
    BY <1>1, <1>2 DEF JobsAreCurrent, ReviewsNameDocuments, Reviewing, InsertsHaveTheirBlob,
      RequestsAreNumbered, DocsAreNumbered, Running

LEMMA InitBase == Init => Base /\ RoomLeft
  <1>. SUFFICES ASSUME Init PROVE Base /\ RoomLeft
    OBVIOUS
  <1>1. Typed
    BY InitTyped
  <1>2. LocksFollowVerdicts
    BY DocumentAssumption DEF Init, LocksFollowVerdicts
  <1>3. Docs \subseteq 1..(nextDoc - 1)
    <2>. SUFFICES ASSUME NEW d \in Docs PROVE d \in 1..InitialDocs
      BY DocumentAssumption DEF Init
    <2>1. d \in DocIds /\ verdict[d].status # "none"
      BY DEF Docs, Status
    <2>2. verdict[d] = NoVerdict(IF d <= InitialDocs THEN "pending" ELSE "none")
      BY <2>1 DEF Init
    <2>3. d <= InitialDocs
      BY <2>1, <2>2 DEF NoVerdict
    <2>. QED
      BY <2>1, <2>3, DocumentAssumption DEF DocIds
  <1>4. JobsAreCurrent
    BY <1>3 DEF Init, JobsAreCurrent, Running
  <1>5. RoomLeft
    <2>1. Uploading = {}
      BY DEF Init, Uploading
    <2>2. Cardinality(Uploading) = 0 /\ nextDoc = InitialDocs + 1
      BY <2>1, FS_EmptySet DEF Init
    <2>. QED
      BY <2>2, DocumentAssumption DEF RoomLeft
  <1>. QED
    BY <1>1, <1>2, <1>4, <1>5 DEF Base

LEMMA BaseStep == Base /\ RoomLeft /\ [Next]_vars => (Base /\ RoomLeft)'
  BY TypedStep, LocksStep, JobsAreCurrentStep, RoomStep DEF Base

LEMMA BaseAlways == Spec => [](Base /\ RoomLeft)
  BY InitBase, BaseStep, PTL DEF Spec

-----------------------------------------------------------------------------
(* The traces a request leaves.                                            *)

(* Numbers in the tables are those of requests received.                   *)
TracesAreNumbered ==
  /\ \A ans \in answers : ans[1] <= requests
  /\ \A v \in verdicts : v.request <= requests
  /\ blobs \subseteq 0..requests

(* A request in flight is unanswered, and visible only once it has         *)
(* committed.                                                              *)
InFlight(t) ==
  /\ \A ans \in answers : ans[1] # job[t].request
  /\ at[t] # "verdict_refresh" => \A v \in verdicts : v.request # job[t].request
  /\ at[t] # "upload_refresh" => \A d \in Docs : upload[d].blob # job[t].request
  /\ at[t] = "upload_refresh" => \E d \in Docs : upload[d].blob = job[t].request

Traces ==
  /\ TracesAreNumbered
  /\ RowsHaveTheirBlob
  /\ \A t \in Threads : at[t] # "idle" => InFlight(t)

Told == Base /\ RoomLeft /\ Traces

(* A new request has left no trace yet.                                    *)
LEMMA NewRequest ==
  ASSUME Told, NEW n, n = requests + 1
  PROVE  /\ \A ans \in answers : ans[1] # n
         /\ \A v \in verdicts : v.request # n
         /\ \A d \in Docs : upload[d].blob # n
  <1>1. requests \in Nat
    BY DEF Told, Base, Typed, RestTyped
  <1>2. \A ans \in answers : ans[1] \in Nat
    BY DEF Told, Base, Typed, RestTyped
  <1>3. \A v \in verdicts : v.request \in Nat
    BY DEF Told, Base, Typed, ReviewsTyped, VerdictRecord
  <1>4. \A d \in Docs : upload[d].blob \in 0..requests
    BY DEF Told, Traces, TracesAreNumbered, RowsHaveTheirBlob
  <1>. QED
    BY <1>1, <1>2, <1>3, <1>4 DEF Told, Traces, TracesAreNumbered

LEMMA InitTold == Init => Told
  <1>. SUFFICES ASSUME Init PROVE Told
    OBVIOUS
  <1>1. Base /\ RoomLeft
    BY InitBase
  <1>2. TracesAreNumbered
    BY DocumentAssumption DEF Init, TracesAreNumbered
  <1>3. ASSUME NEW d \in Docs PROVE upload[d].blob = d /\ d \in 1..InitialDocs
    <2>1. d \in DocIds /\ verdict[d].status # "none"
      BY DEF Docs, Status
    <2>2. verdict[d] = NoVerdict(IF d <= InitialDocs THEN "pending" ELSE "none")
      BY <2>1 DEF Init
    <2>3. d <= InitialDocs
      BY <2>1, <2>2 DEF NoVerdict
    <2>. QED
      BY <2>1, <2>3, DocumentAssumption DEF Init, DocIds
  <1>4. RowsHaveTheirBlob
    BY <1>3 DEF Init, RowsHaveTheirBlob
  <1>. QED
    BY <1>1, <1>2, <1>4 DEF Init, Told, Traces

LEMMA NumberedTracesStep == Told /\ [Next]_vars => TracesAreNumbered'
  <1>. SUFFICES ASSUME Told, [Next]_vars PROVE TracesAreNumbered'
    OBVIOUS
  <1>0. /\ TracesAreNumbered /\ requests \in Nat /\ requests' \in {requests, requests + 1}
        /\ \A ans \in answers : ans[1] \in Nat
        /\ \A v \in verdicts : v.request \in Nat
    BY JobsStep DEF Told, Traces, Base, Typed, RestTyped, ReviewsTyped, VerdictRecord
  <1>1. \A t \in Threads : Running(t) => job[t].request \in 1..requests
    BY DEF Told, Base, JobsAreCurrent
  <1>2. ASSUME NEW ans \in answers' PROVE ans[1] <= requests'
    <2>1. CASE ans \in answers
      BY <1>0, <2>1 DEF TracesAreNumbered
    <2>2. CASE Refused
      BY <1>0, <1>2, <2>1, <2>2 DEF Refused
    <2>3. ASSUME NEW t \in Threads, Ended(t) PROVE ans[1] <= requests'
      <3>1. CASE ans[1] = job[t].request
        BY <1>0, <1>1, <2>3, <3>1 DEF Ended, Running
      <3>. QED
        BY <1>2, <2>1, <2>3, <3>1 DEF Ended, Answer
    <2>4. ASSUME NEW t \in Threads, Progress(t) PROVE answers' = answers
      BY <2>4 DEF Progress, LoadReview, FlushVerdict, FlushVerdictFails, MailVerdict,
        CommitVerdict, BeginUpload, Store, CommitUpload
    <2>5. CASE Crash
      <3>1. CASE \E t \in Threads : Running(t) /\ ans[1] = job[t].request
        BY <1>0, <1>1, <2>5, <3>1 DEF Crash
      <3>. QED
        BY <1>2, <2>1, <2>5, <3>1 DEF Crash
    <2>6. CASE UNCHANGED vars
      BY <1>2, <2>1, <2>6 DEF vars
    <2>. QED
      BY <1>2, <2>1, <2>2, <2>3, <2>4, <2>5, <2>6, StepKinds
  <1>3. ASSUME NEW v \in verdicts' PROVE v.request <= requests'
    <2>1. CASE v \in verdicts
      BY <1>0, <2>1 DEF TracesAreNumbered
    <2>2. CASE Refused \/ Crash \/ UNCHANGED vars
      BY <1>3, <2>1, <2>2 DEF Refused, Crash, vars, reviews
    <2>3. ASSUME NEW t \in Threads, Ended(t) PROVE v.request <= requests'
      BY <1>3, <2>1, <2>3 DEF Ended, reviews
    <2>4. ASSUME NEW t \in Threads, CommitVerdict(t) PROVE v.request <= requests'
      <3>1. at[t] \in Reviewing /\ Typed /\ ReviewsNameDocuments
        BY <2>4 DEF CommitVerdict, Goto, Reviewing, Told, Base, JobsAreCurrent,
          ReviewsNameDocuments
      <3>2. CASE v = VerdictOf(t)
        BY <1>0, <1>1, <3>1, <3>2, Verdicts DEF Running, Reviewing
      <3>. QED
        BY <1>3, <2>1, <2>4, <3>1, <3>2, Decides DEF reviews
    <2>5. ASSUME NEW t \in Threads, Progress(t), ~CommitVerdict(t) PROVE verdicts' = verdicts
      BY <2>5 DEF Progress, LoadReview, FlushVerdict, FlushVerdictFails, MailVerdict,
        BeginUpload, Store, CommitUpload, reviews
    <2>. QED
      BY <1>3, <2>1, <2>2, <2>3, <2>4, <2>5, StepKinds
  <1>4. blobs' \subseteq 0..requests'
    <2>1. blobs \subseteq 0..requests'
      <3>. SUFFICES ASSUME NEW b \in blobs PROVE b \in 0..requests'
        OBVIOUS
      <3>1. b \in 0..requests
        BY <1>0 DEF TracesAreNumbered
      <3>. QED
        BY <1>0, <3>1
    <2>2. CASE Refused \/ Crash \/ UNCHANGED vars
      BY <2>1, <2>2 DEF Refused, Crash, vars, files
    <2>3. ASSUME NEW t \in Threads, Ended(t) PROVE blobs' = blobs
      BY <2>3 DEF Ended
    <2>4. ASSUME NEW t \in Threads, Store(t) PROVE blobs' \subseteq 0..requests'
      <3>1. blobs' = blobs \cup {job[t].request} /\ at[t] = "body" /\ requests' = requests
        BY <2>4 DEF Store, Goto
      <3>2. job[t].request \in 0..requests'
        BY <1>0, <1>1, <3>1 DEF Running
      <3>. QED
        BY <2>1, <3>1, <3>2
    <2>5. ASSUME NEW t \in Threads, Progress(t), ~Store(t) PROVE blobs' = blobs
      BY <2>5 DEF Progress, LoadReview, FlushVerdict, FlushVerdictFails, MailVerdict,
        CommitVerdict, BeginUpload, CommitUpload, files
    <2>. QED
      BY <2>1, <2>2, <2>3, <2>4, <2>5, StepKinds
  <1>. QED
    BY <1>2, <1>3, <1>4 DEF TracesAreNumbered

LEMMA BlobsStep == Told /\ [Next]_vars => RowsHaveTheirBlob'
  <1>. SUFFICES ASSUME Told, [Next]_vars PROVE RowsHaveTheirBlob'
    OBVIOUS
  <1>0. Base /\ RowsHaveTheirBlob /\ Typed /\ JobsAreCurrent
    BY DEF Told, Traces, Base
  <1>1. blobs \subseteq blobs'
    <2>1. CASE Refused \/ Crash \/ UNCHANGED vars
      BY <2>1 DEF Refused, Crash, vars, files
    <2>2. ASSUME NEW t \in Threads, Ended(t) PROVE blobs \subseteq blobs'
      BY <2>2 DEF Ended
    <2>3. ASSUME NEW t \in Threads, Progress(t) PROVE blobs \subseteq blobs'
      BY <2>3 DEF Progress, LoadReview, FlushVerdict, FlushVerdictFails, MailVerdict,
        CommitVerdict, BeginUpload, Store, CommitUpload, files
    <2>. QED
      BY <2>1, <2>2, <2>3, StepKinds
  <1>2. CASE Docs' = Docs /\ upload' = upload
    BY <1>0, <1>1, <1>2 DEF RowsHaveTheirBlob
  <1>3. ASSUME NEW t \in Threads, CommitUpload(t) PROVE RowsHaveTheirBlob'
    <2>1. /\ Docs' = Docs \cup {nextDoc} /\ nextDoc \notin Docs
          /\ upload'[nextDoc].blob = job[t].request
          /\ \A d \in Docs : upload'[d] = upload[d]
      <3>1. nextDoc \in DocIds \ Docs /\ Docs \subseteq DocIds
        BY <1>0, <1>3, Adds DEF Docs
      <3>. QED
        BY <1>0, <1>3, <3>1, Adds
    <2>2. /\ at[t] = "insert" /\ job[t].request \in blobs
          /\ \A d \in Docs : upload[d].blob # job[t].request
      BY <1>0, <1>3 DEF CommitUpload, Goto, JobsAreCurrent, Told, Traces, InFlight
    <2>. QED
      BY <1>0, <1>1, <2>1, <2>2 DEF RowsHaveTheirBlob
  <1>. QED
    BY <1>0, <1>2, <1>3, DocsStep

(* A request that goes on, and whose step neither answers nor commits      *)
(* anything of its own, is as invisible as before.                         *)
LEMMA InFlightStep ==
  ASSUME Told, [Next]_vars, NEW t \in Threads, at'[t] # "idle"
  PROVE  InFlight(t)'
  <1>0. /\ Base /\ Typed /\ JobsAreCurrent /\ at \in [Threads -> Steps]
        /\ job \in [Threads -> Job] /\ ReviewsNameDocuments
        /\ \A s \in Threads : at[s] # "idle" => InFlight(s)
        /\ Begins(t) \/ (at[t] # "idle" /\ job'[t] = job[t])
    BY JobsStep DEF Told, Traces, Base, Typed, ThreadsTyped, JobsAreCurrent,
      ReviewsNameDocuments, Reviewing
  <1>1. CASE Begins(t)
    <2>. DEFINE n == job'[t].request
    <2>1. n = requests + 1
      BY <1>1 DEF Begins
    <2>2. /\ \A ans \in answers : ans[1] # n
          /\ \A v \in verdicts : v.request # n
          /\ \A d \in Docs : upload[d].blob # n
      BY <2>1, NewRequest
    <2>3. answers' = answers /\ verdicts' = verdicts /\ Docs' = Docs /\ upload' = upload
      <3>1. ~Refused /\ ~(UNCHANGED vars) /\ ~Crash
        BY <1>1 DEF Begins, Refused, desk, vars, Crash
      <3>2. ASSUME NEW s \in Threads, Ended(s) PROVE FALSE
        BY <1>0, <1>1, <3>2 DEF Begins, Ended, Answer
      <3>3. ASSUME NEW s \in Threads, Progress(s), ~LoadReview(s), ~BeginUpload(s) PROVE FALSE
        BY <1>0, <1>1, <3>3 DEF Begins, Progress, FlushVerdict, FlushVerdictFails, MailVerdict,
          CommitVerdict, Store, CommitUpload, Goto
      <3>4. PICK s \in Threads : LoadReview(s) \/ BeginUpload(s)
        BY <3>1, <3>2, <3>3, StepKinds
      <3>. QED
        BY <3>4 DEF LoadReview, BeginUpload, files, reviews, Docs, Status
    <2>4. at'[t] # "upload_refresh"
      BY <1>1 DEF Begins
    <2>. QED
      BY <2>2, <2>3, <2>4 DEF InFlight
  <1>2. CASE at[t] # "idle" /\ job'[t] = job[t]
    <2>. DEFINE n == job[t].request
    <2>0. /\ InFlight(t) /\ n \in 1..requests /\ requests \in Nat
          /\ \A s \in Threads : Running(s) /\ job[s].request = n => s = t
      BY <1>0, <1>2 DEF JobsAreCurrent, Running, Typed, RestTyped
    <2>1. \A ans \in answers' : ans[1] # n
      <3>1. CASE Refused
        <4>1. PICK code : answers' = answers \cup {<<requests + 1, code>>}
          BY <3>1 DEF Refused
        <4>2. requests + 1 # n
          BY <2>0
        <4>. QED
          BY <2>0, <4>1, <4>2 DEF InFlight
      <3>2. ASSUME NEW s \in Threads, Ended(s) PROVE \A ans \in answers' : ans[1] # n
        <4>1. PICK code \in Codes : Answer(s, code)
          BY <3>2 DEF Ended
        <4>2. answers' = answers \cup {<<job[s].request, code>>} /\ at' = [at EXCEPT ![s] = "idle"]
          BY <4>1 DEF Answer
        <4>3. s # t /\ at[s] # "idle"
          BY <1>0, <3>2, <4>2 DEF Ended
        <4>4. job[s].request # n
          BY <2>0, <4>3 DEF Running
        <4>. QED
          BY <2>0, <4>2, <4>4 DEF InFlight
      <3>3. ASSUME NEW s \in Threads, Progress(s) PROVE answers' = answers
        BY <3>3 DEF Progress, LoadReview, FlushVerdict, FlushVerdictFails, MailVerdict,
          CommitVerdict, BeginUpload, Store, CommitUpload
      <3>4. ~Crash
        BY DEF Crash
      <3>5. CASE UNCHANGED vars
        BY <2>0, <3>5 DEF vars, InFlight
      <3>. QED
        BY <2>0, <3>1, <3>2, <3>3, <3>4, <3>5, StepKinds DEF InFlight
    <2>2. ASSUME at'[t] # "verdict_refresh" PROVE \A v \in verdicts' : v.request # n
      <3>1. CASE Refused \/ UNCHANGED vars
        BY <2>0, <2>2, <3>1 DEF Refused, vars, reviews, desk, InFlight
      <3>2. ASSUME at[t] = "verdict_refresh" PROVE FALSE
        <4>1. ~Refused /\ ~(UNCHANGED vars) /\ ~Crash
          BY <2>2, <3>2 DEF Refused, vars, Crash
        <4>2. ASSUME NEW s \in Threads, Ended(s) PROVE FALSE
          BY <1>0, <2>2, <3>2, <4>2 DEF Ended, Answer
        <4>3. ASSUME NEW s \in Threads, Progress(s) PROVE FALSE
          BY <1>0, <2>2, <3>2, <4>3 DEF Progress, LoadReview, FlushVerdict, FlushVerdictFails,
            MailVerdict, CommitVerdict, BeginUpload, Store, CommitUpload, Goto
        <4>. QED
          BY <4>1, <4>2, <4>3, StepKinds
      <3>3. \A v \in verdicts : v.request # n
        BY <2>0, <3>2 DEF InFlight
      <3>4. ASSUME NEW s \in Threads, CommitVerdict(s) PROVE \A v \in verdicts' : v.request # n
        <4>1. at[s] = "verdict_commit" /\ at' = [at EXCEPT ![s] = "verdict_refresh"]
          BY <3>4 DEF CommitVerdict, Goto
        <4>2. s # t
          BY <1>0, <2>2, <4>1
        <4>3. VerdictOf(s).request # n
          BY <2>0, <4>1, <4>2 DEF VerdictOf, Running
        <4>. QED
          BY <1>0, <3>3, <3>4, <4>3, Decides DEF reviews
      <3>5. ASSUME NEW s \in Threads, Ended(s) PROVE verdicts' = verdicts
        BY <3>5 DEF Ended, reviews
      <3>6. ASSUME NEW s \in Threads, Progress(s), ~CommitVerdict(s) PROVE verdicts' = verdicts
        BY <3>6 DEF Progress, LoadReview, FlushVerdict, FlushVerdictFails, MailVerdict,
          BeginUpload, Store, CommitUpload, reviews
      <3>7. ~Crash
        BY DEF Crash
      <3>. QED
        BY <3>1, <3>3, <3>4, <3>5, <3>6, <3>7, StepKinds DEF vars, reviews
    <2>3. ASSUME at'[t] # "upload_refresh", NEW d \in Docs' PROVE upload'[d].blob # n
      <3>1. ASSUME at[t] = "upload_refresh" PROVE FALSE
        <4>1. ~Refused /\ ~(UNCHANGED vars) /\ ~Crash
          BY <2>3, <3>1 DEF Refused, vars, Crash
        <4>2. ASSUME NEW s \in Threads, Ended(s) PROVE FALSE
          BY <1>0, <2>3, <3>1, <4>2 DEF Ended, Answer
        <4>3. ASSUME NEW s \in Threads, Progress(s) PROVE FALSE
          BY <1>0, <2>3, <3>1, <4>3 DEF Progress, LoadReview, FlushVerdict, FlushVerdictFails,
            MailVerdict, CommitVerdict, BeginUpload, Store, CommitUpload, Goto
        <4>. QED
          BY <4>1, <4>2, <4>3, StepKinds
      <3>2. \A e \in Docs : upload[e].blob # n
        BY <2>0, <3>1 DEF InFlight
      <3>3. ASSUME NEW s \in Threads, CommitUpload(s) PROVE upload'[d].blob # n
        <4>1. at[s] = "insert" /\ at' = [at EXCEPT ![s] = "upload_refresh"]
          BY <3>3 DEF CommitUpload, Goto
        <4>2. s # t
          BY <1>0, <2>3, <4>1
        <4>3. job[s].request # n
          BY <2>0, <4>1, <4>2 DEF Running
        <4>4. /\ Docs' = Docs \cup {nextDoc} /\ nextDoc \notin Docs
              /\ upload'[nextDoc].blob = job[s].request
              /\ \A e \in Docs : upload'[e] = upload[e]
          <5>1. nextDoc \in DocIds \ Docs /\ Docs \subseteq DocIds
            BY <1>0, <3>3, Adds DEF Docs
          <5>. QED
            BY <1>0, <3>3, <5>1, Adds
        <4>. QED
          BY <2>3, <3>2, <4>3, <4>4
      <3>4. CASE Docs' = Docs /\ upload' = upload
        BY <2>3, <3>2, <3>4
      <3>. QED
        BY <1>0, <3>3, <3>4, DocsStep
    <2>4. ASSUME at'[t] = "upload_refresh" PROVE \E d \in Docs' : upload'[d].blob = n
      <3>1. CASE at[t] = "upload_refresh"
        <4>1. PICK d \in Docs : upload[d].blob = n
          BY <2>0, <3>1 DEF InFlight
        <4>2. d \in Docs' /\ upload'[d] = upload[d]
          BY <1>0, DocsStep, Adds DEF Docs
        <4>. QED
          BY <4>1, <4>2
      <3>2. CASE CommitUpload(t)
        BY <1>0, <3>2, Adds
      <3>3. ASSUME at[t] # "upload_refresh", ~CommitUpload(t) PROVE FALSE
        <4>1. ~Refused /\ ~(UNCHANGED vars) /\ ~Crash
          BY <2>4, <3>3 DEF Refused, vars, Crash
        <4>2. ASSUME NEW s \in Threads, Ended(s) PROVE FALSE
          BY <1>0, <2>4, <3>3, <4>2 DEF Ended, Answer
        <4>3. ASSUME NEW s \in Threads, Progress(s) PROVE FALSE
          BY <1>0, <2>4, <3>3, <4>3 DEF Progress, LoadReview, FlushVerdict, FlushVerdictFails,
            MailVerdict, CommitVerdict, BeginUpload, Store, CommitUpload, Goto
        <4>. QED
          BY <4>1, <4>2, <4>3, StepKinds
      <3>. QED
        BY <3>1, <3>2, <3>3
    <2>. QED
      BY <1>2, <2>1, <2>2, <2>3, <2>4 DEF InFlight
  <1>. QED
    BY <1>0, <1>1, <1>2

LEMMA ToldStep == Told /\ [Next]_vars => Told'
  BY BaseStep, NumberedTracesStep, BlobsStep, InFlightStep DEF Told, Traces

LEMMA ToldAlways == Spec => []Told
  BY InitTold, ToldStep, PTL DEF Spec

-----------------------------------------------------------------------------
(* What is answered, and what the student is told.                         *)

(* Only two steps write what reviews write.                                *)
LEMMA ReviewsStep ==
  [Next]_vars =>
    \/ \E t \in Threads : CommitVerdict(t) \/ CommitUpload(t)
    \/ UNCHANGED reviews
  <1>. SUFFICES ASSUME [Next]_vars, ~\E t \in Threads : CommitVerdict(t) \/ CommitUpload(t)
                PROVE  UNCHANGED reviews
    OBVIOUS
  <1>1. CASE Refused \/ Crash \/ UNCHANGED vars
    BY <1>1 DEF Refused, Crash, vars
  <1>2. ASSUME NEW t \in Threads, Ended(t) PROVE UNCHANGED reviews
    BY <1>2 DEF Ended
  <1>3. ASSUME NEW t \in Threads, Progress(t) PROVE UNCHANGED reviews
    BY <1>3 DEF Progress, LoadReview, FlushVerdict, FlushVerdictFails, MailVerdict,
      BeginUpload, Store
  <1>. QED
    BY <1>1, <1>2, <1>3, StepKinds

(* And only an ending or a refusal answers.                                *)
LEMMA AnswersStep ==
  [Next]_vars =>
    \/ Refused
    \/ \E t \in Threads : Ended(t)
    \/ Crash
    \/ UNCHANGED answers
  <1>1. ASSUME NEW t \in Threads, Progress(t) PROVE UNCHANGED answers
    BY <1>1 DEF Progress, LoadReview, FlushVerdict, FlushVerdictFails, MailVerdict,
      CommitVerdict, BeginUpload, Store, CommitUpload
  <1>2. UNCHANGED vars => UNCHANGED answers
    BY DEF vars
  <1>. QED
    BY <1>1, <1>2, StepKinds

Refusal == {404, 413, 422, 503}

Honest(ans) ==
  /\ ans[2] \in Refusal =>
       /\ \A v \in verdicts : v.request # ans[1]
       /\ \A d \in Docs : upload[d].blob # ans[1]
  /\ ans[2] = 201 => \E d \in Docs : upload[d].blob = ans[1]

LEMMA HonestIsHonest == AnswersAreHonest <=> \A ans \in answers : Honest(ans)
  BY DEF AnswersAreHonest, Honest, Refusal

LEMMA HonestStep == Told /\ AnswersAreHonest /\ [Next]_vars => AnswersAreHonest'
  <1>. SUFFICES ASSUME Told, AnswersAreHonest, [Next]_vars, NEW ans \in answers'
                PROVE  Honest(ans)'
    BY DEF AnswersAreHonest, Honest, Refusal
  <1>0. /\ Base /\ Typed /\ JobsAreCurrent /\ ReviewsNameDocuments
        /\ \A s \in Threads : at[s] # "idle" => InFlight(s)
    BY DEF Told, Traces, Base, JobsAreCurrent, ReviewsNameDocuments, Reviewing
  <1>1. CASE ans \in answers
    <2>1. Honest(ans)
      BY <1>1, HonestIsHonest
    <2>2. ASSUME ans[2] \in Refusal, NEW v \in verdicts' PROVE v.request # ans[1]
      <3>1. ASSUME NEW t \in Threads, CommitVerdict(t) PROVE v.request # ans[1]
        <4>1. VerdictOf(t).request # ans[1]
          BY <1>0, <1>1, <3>1 DEF CommitVerdict, Goto, InFlight, VerdictOf
        <4>. QED
          BY <1>0, <2>1, <2>2, <3>1, <4>1, Decides DEF Honest, reviews
      <3>2. ASSUME NEW t \in Threads, CommitUpload(t) PROVE v.request # ans[1]
        BY <2>1, <2>2, <3>2 DEF CommitUpload, Honest
      <3>. QED
        BY <2>1, <2>2, <3>1, <3>2, ReviewsStep DEF reviews, Honest
    <2>3. ASSUME NEW t \in Threads, CommitUpload(t)
          PROVE  /\ Docs' = Docs \cup {nextDoc} /\ upload'[nextDoc].blob = job[t].request
                 /\ job[t].request # ans[1]
                 /\ \A d \in Docs : upload'[d] = upload[d]
      <3>1. at[t] = "insert"
        BY <2>3 DEF CommitUpload, Goto
      <3>2. job[t].request # ans[1]
        BY <1>0, <1>1, <3>1 DEF InFlight
      <3>3. nextDoc \in DocIds \ Docs /\ Docs \subseteq DocIds
        BY <1>0, <2>3, Adds DEF Docs
      <3>. QED
        BY <1>0, <2>3, <3>2, <3>3, Adds
    <2>4. ASSUME ans[2] \in Refusal, NEW d \in Docs' PROVE upload'[d].blob # ans[1]
      BY <1>0, <2>1, <2>3, <2>4, DocsStep DEF Honest
    <2>5. ASSUME ans[2] = 201 PROVE \E d \in Docs' : upload'[d].blob = ans[1]
      BY <1>0, <2>1, <2>3, <2>5, DocsStep DEF Honest
    <2>. QED
      BY <2>2, <2>4, <2>5 DEF Honest
  <1>2. CASE ans \notin answers
    <2>1. CASE Refused
      <3>1. PICK code \in {404, 422, 503} : answers' = answers \cup {<<requests + 1, code>>}
        BY <2>1 DEF Refused
      <3>2. ans[1] = requests + 1 /\ ans[2] # 201
        BY <1>2, <3>1
      <3>3. verdicts' = verdicts /\ Docs' = Docs /\ upload' = upload
        BY <2>1 DEF Refused, files, reviews, Docs, Status
      <3>. QED
        BY <3>2, <3>3, NewRequest DEF Honest
    <2>2. ASSUME NEW t \in Threads, Ended(t) PROVE Honest(ans)'
      <3>1. PICK code \in Codes :
              /\ Answer(t, code)
              /\ code \in Refusal => at[t] \notin {"verdict_refresh", "upload_refresh"}
              /\ code = 201 => at[t] = "upload_refresh"
        BY <2>2 DEF Ended, Refusal
      <3>2. ans[1] = job[t].request /\ ans[2] = code
        BY <1>2, <3>1 DEF Answer
      <3>3. verdicts' = verdicts /\ Docs' = Docs /\ upload' = upload /\ InFlight(t)
        BY <1>0, <2>2 DEF Ended, reviews, Docs, Status
      <3>. QED
        BY <3>1, <3>2, <3>3 DEF Honest, InFlight
    <2>3. CASE Crash
      <3>1. ans[2] = 0
        BY <1>2, <2>3 DEF Crash
      <3>. QED
        BY <3>1 DEF Honest, Refusal
    <2>. QED
      BY <1>2, <2>1, <2>2, <2>3, AnswersStep
  <1>. QED
    BY <1>1, <1>2

LEMMA InboxStep == Told /\ StudentKnowsVerdicts /\ [Next]_vars => StudentKnowsVerdicts'
  <1>. SUFFICES ASSUME Told, StudentKnowsVerdicts, [Next]_vars PROVE StudentKnowsVerdicts'
    OBVIOUS
  <1>1. ASSUME NEW t \in Threads, CommitVerdict(t) PROVE StudentKnowsVerdicts'
    <2>1. Typed /\ ReviewsNameDocuments
      BY DEF Told, Base, JobsAreCurrent, ReviewsNameDocuments, Reviewing
    <2>2. CASE held[t]
      <3>1. /\ verdicts' = verdicts \cup {VerdictOf(t)}
            /\ inbox' = inbox \cup {<<VerdictOf(t).request, VerdictOf(t).decision>>}
        BY <1>1, <2>1, <2>2, Decides DEF VerdictOf
      <3>. QED
        BY <3>1 DEF StudentKnowsVerdicts
    <2>3. CASE ~held[t]
      BY <1>1, <2>1, <2>3, Decides DEF StudentKnowsVerdicts, reviews
    <2>. QED
      BY <2>2, <2>3
  <1>2. ASSUME NEW t \in Threads, CommitUpload(t) PROVE StudentKnowsVerdicts'
    BY <1>2 DEF CommitUpload, StudentKnowsVerdicts
  <1>3. CASE UNCHANGED reviews
    BY <1>3 DEF StudentKnowsVerdicts, reviews
  <1>. QED
    BY <1>1, <1>2, <1>3, ReviewsStep

-----------------------------------------------------------------------------
(* Who decides a document.                                                 *)

Judging == {"verdict_row", "verdict_mail", "verdict_commit"}

Blank(d) == verdict[d] = NoVerdict("pending")

(* A pending document bears no mark of a review.                           *)
PendingIsBlank == \A d \in DocIds : Status(d) = "pending" => Blank(d)

(* Where two reviews meet, the document is contested.                      *)
MeetingsAreContested ==
  \A s, t \in Threads :
    at[s] \in Judging /\ at[t] \in Judging /\ job[s].doc = job[t].doc =>
      s = t \/ job[s].doc \in contested

(* Everywhere else what a review loaded is what it overwrites.             *)
ReviewsAreFresh ==
  \A t \in Threads :
    at[t] \in Judging /\ job[t].doc \notin contested => Blank(job[t].doc)

VerdictsNameDocuments == \A v \in verdicts : v.doc \in Docs

Decided == /\ PendingIsBlank
           /\ MeetingsAreContested
           /\ ReviewsAreFresh
           /\ VerdictsNameDocuments
           /\ RowIsOneVerdict
           /\ CommentsMatchStatus

LEMMA InitDecided == Init => Decided
  <1>. SUFFICES ASSUME Init PROVE Decided
    OBVIOUS
  <1>1. \A d \in DocIds :
          verdict[d] = NoVerdict("pending") \/ verdict[d] = NoVerdict("none")
    BY DEF Init
  <1>2. PendingIsBlank
    <2>1. NoVerdict("none").status # "pending"
      BY DEF NoVerdict
    <2>. QED
      BY <1>1, <2>1 DEF PendingIsBlank, Status, Blank
  <1>3. RowIsOneVerdict
    BY <1>1 DEF Init, RowIsOneVerdict, Docs, Status, NoVerdict
  <1>4. CommentsMatchStatus
    BY <1>1 DEF CommentsMatchStatus, Docs, NoVerdict
  <1>5. MeetingsAreContested /\ ReviewsAreFresh /\ VerdictsNameDocuments
    BY DEF Init, MeetingsAreContested, ReviewsAreFresh, VerdictsNameDocuments, Judging
  <1>. QED
    BY <1>2, <1>3, <1>4, <1>5 DEF Decided

(* Who judges after a step judged the same before it, or has just loaded.  *)
LEMMA JudgingStep ==
  ASSUME Base, [Next]_vars, NEW t \in Threads, at'[t] \in Judging
  PROVE  LoadReview(t) \/ (at[t] \in Judging /\ job'[t] = job[t])
  <1>0. at \in [Threads -> Steps] /\ job \in [Threads -> Job]
    BY DEF Base, Typed, ThreadsTyped
  <1>. USE DEF Judging
  <1>1. CASE Refused \/ UNCHANGED vars
    BY <1>1 DEF Refused, vars, desk
  <1>2. ~Crash
    BY DEF Crash
  <1>3. ASSUME NEW s \in Threads, Ended(s) PROVE at[t] \in Judging /\ job'[t] = job[t]
    <2>1. at' = [at EXCEPT ![s] = "idle"] /\ job' = [job EXCEPT ![s] = NoJob]
      BY <1>3 DEF Ended, Answer
    <2>. QED
      BY <1>0, <2>1
  <1>4. ASSUME NEW s \in Threads,
               FlushVerdict(s) \/ FlushVerdictFails(s) \/ MailVerdict(s) \/ CommitVerdict(s)
        PROVE  at[t] \in Judging /\ job'[t] = job[t]
    <2>1. /\ at[s] \in Judging /\ job' = job
          /\ \E step \in Steps : at' = [at EXCEPT ![s] = step]
      BY <1>4 DEF FlushVerdict, FlushVerdictFails, MailVerdict, CommitVerdict, Goto, desk, Steps
    <2>. QED
      BY <1>0, <2>1
  <1>5. ASSUME NEW s \in Threads, BeginUpload(s) \/ Store(s) \/ CommitUpload(s)
        PROVE  at[t] \in Judging /\ job'[t] = job[t]
    <2>1. /\ \E step \in Steps \ Judging : at' = [at EXCEPT ![s] = step]
          /\ \A u \in Threads \ {s} : job'[u] = job[u]
      BY <1>0, <1>5 DEF BeginUpload, Store, CommitUpload, Goto, desk, Steps
    <2>. QED
      BY <1>0, <2>1
  <1>6. ASSUME NEW s \in Threads, LoadReview(s)
        PROVE  s = t \/ (at[t] \in Judging /\ job'[t] = job[t])
    <2>1. /\ at' = [at EXCEPT ![s] = "verdict_row"]
          /\ \A u \in Threads \ {s} : job'[u] = job[u]
      BY <1>0, <1>6 DEF LoadReview, Goto
    <2>. QED
      BY <1>0, <2>1
  <1>. QED
    BY <1>1, <1>2, <1>3, <1>4, <1>5, <1>6, StepKinds DEF Progress

LEMMA Loaded ==
  ASSUME Base, PendingIsBlank, NEW t \in Threads, LoadReview(t)
  PROVE  /\ at[t] = "idle"
         /\ \A s \in Threads \ {t} : at'[s] = at[s] /\ job'[s] = job[s]
         /\ job'[t].doc \in DocIds /\ Blank(job'[t].doc)
         /\ UNCHANGED reviews
         /\ contested' = IF UnderReview(job'[t].doc) THEN contested \cup {job'[t].doc}
                                                      ELSE contested
  <1>0. at \in [Threads -> Steps] /\ job \in [Threads -> Job] /\ verdict \in [DocIds -> Verdict]
    BY DEF Base, Typed, ThreadsTyped, ReviewsTyped
  <1>1. PICK d \in DocIds, v \in Verifiers, decision \in Decisions, comment \in BOOLEAN :
          /\ ReviewCode(d) = 200
          /\ contested' = IF UnderReview(d) THEN contested \cup {d} ELSE contested
          /\ job' = [job EXCEPT ![t] =
               [request |-> requests', doc |-> d, by |-> v, decision |-> decision,
                comment |-> comment, template |-> NoTemplate, prev |-> 0]]
    BY DEF LoadReview
  <1>2. job'[t].doc = d /\ \A s \in Threads \ {t} : job'[s] = job[s]
    BY <1>0, <1>1
  <1>3. Status(d) = "pending"
    <2>1. Status(d) \in Decisions \cup {"pending", "none"}
      BY <1>0 DEF Status, Verdict
    <2>2. Status(d) # "none" /\ Status(d) \notin Decisions
      BY <1>1 DEF ReviewCode
    <2>. QED
      BY <2>1, <2>2
  <1>4. /\ at[t] = "idle" /\ UNCHANGED reviews
        /\ \A s \in Threads \ {t} : at'[s] = at[s]
    BY <1>0 DEF LoadReview, Goto
  <1>. QED
    BY <1>1, <1>2, <1>3, <1>4 DEF PendingIsBlank

LEMMA ContestedGrows ==
  Base /\ [Next]_vars =>
    \/ \E t \in Threads : LoadReview(t)
    \/ contested' = contested
  <1>1. ASSUME NEW t \in Threads, Ended(t) PROVE contested' = contested
    BY <1>1 DEF Ended, Answer
  <1>2. ASSUME NEW t \in Threads, Progress(t), ~LoadReview(t) PROVE contested' = contested
    BY <1>2 DEF Progress, FlushVerdict, FlushVerdictFails, MailVerdict, CommitVerdict,
      BeginUpload, Store, CommitUpload, desk
  <1>3. Refused \/ Crash \/ UNCHANGED vars => contested' = contested
    BY DEF Refused, Crash, vars, desk
  <1>. QED
    BY <1>1, <1>2, <1>3, StepKinds

LEMMA ContestedKept == Base /\ [Next]_vars => contested \subseteq contested'
  <1>1. ASSUME NEW t \in Threads, LoadReview(t) PROVE contested \subseteq contested'
    BY <1>1 DEF LoadReview
  <1>. QED
    BY <1>1, ContestedGrows

(* How a step changes the verdicts: a review decides its document, an      *)
(* upload adds a blank one, or nothing changes.                            *)
Decision(t) ==
  /\ at[t] = "verdict_commit" /\ at' = [at EXCEPT ![t] = "verdict_refresh"]
  /\ job' = job /\ contested' = contested
  /\ job[t].doc \in Docs /\ job[t].decision \in Decisions
  /\ verdict'[job[t].doc] = Reviewed(t)
  /\ Reviewed(t).status = job[t].decision /\ Reviewed(t).by = job[t].by
  /\ \A d \in DocIds : d # job[t].doc => verdict'[d] = verdict[d]
  /\ verdicts' = verdicts \cup {VerdictOf(t)}
  /\ VerdictOf(t).doc = job[t].doc /\ VerdictOf(t).decision = job[t].decision
  /\ VerdictOf(t).by = job[t].by
  /\ Docs' = Docs /\ upload' = upload

Addition ==
  /\ nextDoc \in DocIds \ Docs
  /\ Docs' = Docs \cup {nextDoc}
  /\ verdict'[nextDoc] = NoVerdict("pending")
  /\ \A d \in DocIds : d # nextDoc => verdict'[d] = verdict[d]
  /\ verdicts' = verdicts /\ job' = job /\ contested' = contested

LEMMA VerdictsStep ==
  Base /\ [Next]_vars =>
    \/ \E t \in Threads : Decision(t)
    \/ Addition
    \/ UNCHANGED reviews /\ Docs' = Docs
  <1>. SUFFICES ASSUME Base, [Next]_vars
                PROVE  \/ \E t \in Threads : Decision(t)
                       \/ Addition
                       \/ UNCHANGED reviews /\ Docs' = Docs
    OBVIOUS
  <1>0. Typed /\ ReviewsNameDocuments /\ JobsAreCurrent
    BY DEF Base, JobsAreCurrent, ReviewsNameDocuments, Reviewing
  <1>1. ASSUME NEW t \in Threads, CommitVerdict(t)
        PROVE  Decision(t) \/ (UNCHANGED reviews /\ Docs' = Docs)
    <2>1. /\ at[t] = "verdict_commit" /\ at' = [at EXCEPT ![t] = "verdict_refresh"]
          /\ job' = job /\ contested' = contested /\ upload' = upload
      BY <1>1 DEF CommitVerdict, Goto, desk, files
    <2>2. CASE held[t]
      BY <1>0, <1>1, <2>1, <2>2, Decides, Verdicts DEF Decision, Reviewing
    <2>3. CASE ~held[t]
      BY <1>0, <1>1, <2>3, Decides
    <2>. QED
      BY <2>2, <2>3
  <1>2. ASSUME NEW t \in Threads, CommitUpload(t) PROVE Addition
    <2>1. verdicts' = verdicts /\ job' = job /\ contested' = contested
      BY <1>2 DEF CommitUpload, desk
    <2>. QED
      BY <1>0, <1>2, <2>1, Adds DEF Addition
  <1>3. CASE UNCHANGED reviews
    BY <1>3 DEF reviews, Docs, Status
  <1>. QED
    BY <1>1, <1>2, <1>3, ReviewsStep

(* The rows after a step, one by one.                                      *)
LEMMA BlankIsPending == \A d \in DocIds : Blank(d) => Status(d) = "pending"
  BY DEF Blank, Status, NoVerdict

LEMMA PendingStep == Base /\ PendingIsBlank /\ [Next]_vars => PendingIsBlank'
  <1>. SUFFICES ASSUME Base, PendingIsBlank, [Next]_vars,
                       NEW d \in DocIds, Status(d)' = "pending"
                PROVE  Blank(d)'
    BY DEF PendingIsBlank
  <1>1. ASSUME NEW t \in Threads, Decision(t) PROVE Blank(d)'
    <2>1. d # job[t].doc
      BY <1>1 DEF Decision, Status, Decisions
    <2>. QED
      BY <1>1, <2>1 DEF Decision, Status, Blank, PendingIsBlank
  <1>2. CASE Addition
    BY <1>2 DEF Addition, Status, Blank, PendingIsBlank
  <1>3. CASE UNCHANGED reviews
    BY <1>3 DEF reviews, Status, Blank, PendingIsBlank
  <1>. QED
    BY <1>1, <1>2, <1>3, VerdictsStep

LEMMA MeetingsStep ==
  Base /\ PendingIsBlank /\ MeetingsAreContested /\ [Next]_vars => MeetingsAreContested'
  <1>. SUFFICES ASSUME Base, PendingIsBlank, MeetingsAreContested, [Next]_vars,
                       NEW s \in Threads, NEW t \in Threads,
                       at'[s] \in Judging, at'[t] \in Judging,
                       job'[s].doc = job'[t].doc, s # t
                PROVE  job'[s].doc \in contested'
    BY DEF MeetingsAreContested
  <1>0. contested \subseteq contested'
    BY ContestedKept
  <1>1. ASSUME NEW u \in Threads, NEW v \in Threads, u # v, LoadReview(u),
               at'[v] \in Judging, job'[u].doc = job'[v].doc
        PROVE  job'[u].doc \in contested'
    <2>1. at[v] \in Judging /\ job[v].doc = job'[u].doc
      BY <1>1, Loaded
    <2>2. UnderReview(job'[u].doc)
      BY <2>1 DEF UnderReview, Judging
    <2>. QED
      BY <1>1, <2>2, Loaded
  <1>2. CASE LoadReview(s)
    BY <1>1, <1>2
  <1>3. CASE LoadReview(t)
    BY <1>1, <1>3
  <1>4. CASE ~LoadReview(s) /\ ~LoadReview(t)
    <2>1. at[s] \in Judging /\ at[t] \in Judging /\ job'[s] = job[s] /\ job'[t] = job[t]
      BY <1>4, JudgingStep
    <2>. QED
      BY <1>0, <2>1 DEF MeetingsAreContested
  <1>. QED
    BY <1>2, <1>3, <1>4

LEMMA FreshStep ==
  Base /\ PendingIsBlank /\ MeetingsAreContested /\ ReviewsAreFresh /\ [Next]_vars
    => ReviewsAreFresh'
  <1>. SUFFICES ASSUME Base, PendingIsBlank, MeetingsAreContested, ReviewsAreFresh,
                       [Next]_vars, NEW s \in Threads, at'[s] \in Judging,
                       job'[s].doc \notin contested'
                PROVE  verdict'[job'[s].doc] = NoVerdict("pending")
    BY DEF ReviewsAreFresh, Blank
  <1>0. /\ contested \subseteq contested' /\ ReviewsNameDocuments
        /\ at \in [Threads -> Steps]
    BY ContestedKept
    DEF Base, JobsAreCurrent, ReviewsNameDocuments, Reviewing, Typed, ThreadsTyped
  <1>1. CASE LoadReview(s)
    BY <1>1, Loaded DEF Blank, reviews
  <1>2. CASE ~LoadReview(s)
    <2>. DEFINE d == job[s].doc
    <2>1. at[s] \in Judging /\ job'[s] = job[s]
      BY <1>2, JudgingStep
    <2>2. Blank(d) /\ d \notin contested /\ d \in Docs /\ d \in DocIds
      BY <1>0, <2>1 DEF ReviewsAreFresh, ReviewsNameDocuments, Judging, Reviewing, Docs
    <2>3. ASSUME NEW t \in Threads, Decision(t) PROVE verdict'[d] = NoVerdict("pending")
      <3>1. s # t
        BY <1>0, <2>3 DEF Decision, Judging
      <3>2. job[t].doc # d
        BY <2>1, <2>2, <2>3, <3>1 DEF MeetingsAreContested, Decision, Judging
      <3>. QED
        BY <2>2, <2>3, <3>2 DEF Decision, Blank
    <2>4. CASE Addition
      BY <2>2, <2>4 DEF Addition, Blank
    <2>5. CASE UNCHANGED reviews
      <3>1. verdict' = verdict
        BY <2>5 DEF reviews
      <3>. QED
        BY <2>1, <2>2, <3>1 DEF Blank
    <2>. QED
      BY <2>1, <2>3, <2>4, <2>5, VerdictsStep
  <1>. QED
    BY <1>1, <1>2

LEMMA VerdictsNameStep == Base /\ VerdictsNameDocuments /\ [Next]_vars => VerdictsNameDocuments'
  <1>. SUFFICES ASSUME Base, VerdictsNameDocuments, [Next]_vars PROVE VerdictsNameDocuments'
    OBVIOUS
  <1>1. ASSUME NEW t \in Threads, Decision(t) PROVE VerdictsNameDocuments'
    BY <1>1 DEF Decision, VerdictsNameDocuments
  <1>2. CASE Addition
    BY <1>2 DEF Addition, VerdictsNameDocuments
  <1>3. CASE UNCHANGED reviews /\ Docs' = Docs
    BY <1>3 DEF reviews, VerdictsNameDocuments
  <1>. QED
    BY <1>1, <1>2, <1>3, VerdictsStep

RowIsTold(d) ==
  IF Status(d) = "pending"
  THEN verdict[d].by = Nobody /\ \A v \in verdicts : v.doc # d
  ELSE \E v \in verdicts : v.doc = d /\ v.decision = Status(d) /\ v.by = verdict[d].by

LEMMA RowStep ==
  Base /\ VerdictsNameDocuments /\ RowIsOneVerdict /\ [Next]_vars => RowIsOneVerdict'
  <1>. SUFFICES ASSUME Base, VerdictsNameDocuments, RowIsOneVerdict, [Next]_vars,
                       NEW d \in Docs'
                PROVE  RowIsTold(d)'
    BY DEF RowIsOneVerdict, RowIsTold
  <1>0. \A e \in Docs : RowIsTold(e)
    BY DEF RowIsOneVerdict, RowIsTold
  <1>1. ASSUME NEW t \in Threads, Decision(t) PROVE RowIsTold(d)'
    <2>1. CASE d = job[t].doc
      <3>1. Status(d)' = job[t].decision /\ verdict'[d].by = job[t].by
        BY <1>1, <2>1 DEF Decision, Status
      <3>2. Status(d)' # "pending"
        BY <1>1, <3>1 DEF Decision, Decisions
      <3>. QED
        BY <1>1, <2>1, <3>1, <3>2 DEF Decision, RowIsTold
    <2>2. CASE d # job[t].doc
      <3>1. d \in Docs /\ verdict'[d] = verdict[d]
        BY <1>1, <2>2 DEF Decision, Docs
      <3>2. RowIsTold(d) /\ Status(d)' = Status(d)
        BY <1>0, <3>1 DEF Status
      <3>3. \A v \in verdicts' : v \in verdicts \/ v.doc # d
        BY <1>1, <2>2 DEF Decision
      <3>. QED
        BY <1>1, <3>1, <3>2, <3>3 DEF Decision, RowIsTold
    <2>. QED
      BY <2>1, <2>2
  <1>2. CASE Addition
    <2>1. CASE d = nextDoc
      <3>1. Status(d)' = "pending" /\ verdict'[d].by = Nobody
        BY <1>2, <2>1 DEF Addition, Status, NoVerdict
      <3>. QED
        BY <1>2, <2>1, <3>1 DEF Addition, RowIsTold, VerdictsNameDocuments
    <2>2. CASE d # nextDoc
      <3>1. d \in Docs /\ verdict'[d] = verdict[d] /\ verdicts' = verdicts
        BY <1>2, <2>2 DEF Addition, Docs
      <3>. QED
        BY <1>0, <3>1 DEF RowIsTold, Status
    <2>. QED
      BY <2>1, <2>2
  <1>3. CASE UNCHANGED reviews /\ Docs' = Docs
    BY <1>0, <1>3 DEF RowIsTold, Status, reviews
  <1>. QED
    BY <1>1, <1>2, <1>3, VerdictsStep

CommentsFit(d) ==
  /\ verdict[d].reason => Status(d) = "rejected"
  /\ verdict[d].approval => Status(d) = "approved"

LEMMA CommentsStep ==
  Base /\ ReviewsAreFresh /\ CommentsMatchStatus /\ [Next]_vars => CommentsMatchStatus'
  <1>. SUFFICES ASSUME Base, ReviewsAreFresh, CommentsMatchStatus, [Next]_vars,
                       NEW d \in Docs', d \notin contested'
                PROVE  CommentsFit(d)'
    BY DEF CommentsMatchStatus, CommentsFit
  <1>0. d \in DocIds /\ \A e \in Docs \ contested : CommentsFit(e)
    BY DEF CommentsMatchStatus, CommentsFit, Docs
  <1>1. d \notin contested
    BY ContestedKept
  <1>2. ASSUME NEW t \in Threads, Decision(t) PROVE CommentsFit(d)'
    <2>1. CASE d = job[t].doc
      <3>1. Blank(d)
        BY <1>1, <1>2, <2>1 DEF ReviewsAreFresh, Decision, Judging
      <3>2. ~verdict[d].approval /\ ~verdict[d].reason
        BY <3>1 DEF Blank, NoVerdict
      <3>3. /\ verdict'[d] = Reviewed(t) /\ Status(d)' = job[t].decision
            /\ Reviewed(t) = Updated(verdict[d], job[t].by, job[t].decision, job[t].comment)
        BY <1>2, <2>1 DEF Decision, Status, Reviewed
      <3>4. /\ Reviewed(t).approval => job[t].decision = "approved"
            /\ Reviewed(t).reason => job[t].decision = "rejected"
        <4>1. /\ Reviewed(t).approval =
                   (verdict[d].approval \/ (job[t].decision = "approved" /\ job[t].comment))
              /\ Reviewed(t).reason = (verdict[d].reason \/ job[t].decision = "rejected")
          BY <3>3 DEF Updated
        <4>. QED
          BY <3>2, <4>1, Zenon
      <3>. QED
        BY <3>3, <3>4 DEF CommentsFit
    <2>2. CASE d # job[t].doc
      <3>1. d \in Docs /\ verdict'[d] = verdict[d]
        BY <1>0, <1>2, <2>2 DEF Decision
      <3>. QED
        BY <1>0, <1>1, <3>1 DEF CommentsFit, Status
    <2>. QED
      BY <2>1, <2>2
  <1>3. CASE Addition
    <2>1. CASE d = nextDoc
      BY <1>3, <2>1 DEF Addition, CommentsFit, NoVerdict
    <2>2. CASE d # nextDoc
      <3>1. d \in Docs /\ verdict'[d] = verdict[d]
        BY <1>0, <1>3, <2>2 DEF Addition
      <3>. QED
        BY <1>0, <1>1, <3>1 DEF CommentsFit, Status
    <2>. QED
      BY <2>1, <2>2
  <1>4. CASE UNCHANGED reviews /\ Docs' = Docs
    BY <1>0, <1>1, <1>4 DEF CommentsFit, Status, reviews
  <1>. QED
    BY <1>2, <1>3, <1>4, VerdictsStep

LEMMA DecidedStep == Base /\ Decided /\ [Next]_vars => Decided'
  BY PendingStep, MeetingsStep, FreshStep, VerdictsNameStep, RowStep, CommentsStep DEF Decided

LEMMA DecidedAlways == Spec => [](Told /\ Decided)
  <1>1. Init => Told /\ Decided
    BY InitTold, InitDecided
  <1>2. Told /\ Decided /\ [Next]_vars => (Told /\ Decided)'
    BY ToldStep, DecidedStep DEF Told
  <1>. QED
    BY <1>1, <1>2, PTL DEF Spec

-----------------------------------------------------------------------------
(* What a step may not take back.                                          *)

LEMMA FirstVerdictStep ==
  ASSUME Base, Decided, [Next]_vars, NEW d \in DocIds \ contested, Status(d) \in Decisions
  PROVE  verdict'[d] = verdict[d]
  <1>1. ASSUME NEW t \in Threads, Decision(t) PROVE d # job[t].doc
    <2>1. d = job[t].doc => Blank(d)
      BY <1>1 DEF Decided, ReviewsAreFresh, Decision, Judging
    <2>. QED
      BY <2>1, BlankIsPending DEF Decisions
  <1>2. CASE Addition
    <2>1. d # nextDoc
      BY <1>2 DEF Addition, Docs, Decisions
    <2>. QED
      BY <1>2, <2>1 DEF Addition
  <1>3. CASE UNCHANGED reviews
    BY <1>3 DEF reviews
  <1>. QED
    BY <1>1, <1>2, <1>3, VerdictsStep DEF Decision

LEMMA DecidedStaysStep ==
  ASSUME Base, [Next]_vars, NEW d \in DocIds, Status(d) \in Decisions
  PROVE  Status(d)' \in Decisions
  <1>1. ASSUME NEW t \in Threads, Decision(t) PROVE Status(d)' \in Decisions
    BY <1>1 DEF Decision, Status
  <1>2. CASE Addition
    <2>1. d # nextDoc
      BY <1>2 DEF Addition, Docs, Decisions
    <2>. QED
      BY <1>2, <2>1 DEF Addition, Status
  <1>3. CASE UNCHANGED reviews
    BY <1>3 DEF reviews, Status
  <1>. QED
    BY <1>1, <1>2, <1>3, VerdictsStep

(* While nothing is uploaded the checklist shows the same documents, and   *)
(* an uncontested one keeps its verdict.                                   *)
LEMMA CompleteStep ==
  ASSUME Base, Decided, [Next]_vars, IsComplete, Docs' = Docs, Shown \cap contested = {}
  PROVE  IsComplete'
  <1>. DEFINE Asked == Applicable \cap Required
              Had == {tpl \in Asked : Item(tpl, "approved")}
              Has == {tpl \in Asked : Item(tpl, "approved")'}
  <1>1. upload' = upload
    <2>1. ASSUME NEW t \in Threads, CommitUpload(t) PROVE FALSE
      BY <2>1, Adds DEF Base
    <2>. QED
      BY <2>1, DocsStep
  <1>2. /\ Shown' = Shown
        /\ \A d \in DocIds, tpl \in Templates : IsLatest(d, tpl)' <=> IsLatest(d, tpl)
    <2>1. \A tpl \in Templates : UploadsFor(tpl)' = UploadsFor(tpl)
      BY <1>1 DEF UploadsFor
    <2>2. \A d \in DocIds, tpl \in Templates : IsLatest(d, tpl)' <=> IsLatest(d, tpl)
      BY <1>1, <2>1 DEF IsLatest
    <2>3. Shown' = Shown
      BY <2>2 DEF Shown, Applicable, Docs
    <2>. QED
      BY <2>2, <2>3
  <1>3. Had \subseteq Has
    <2>. SUFFICES ASSUME NEW tpl \in Asked, Item(tpl, "approved") PROVE Item(tpl, "approved")'
      OBVIOUS
    <2>1. PICK d \in Shown : IsLatest(d, tpl) /\ Status(d) = "approved"
      BY DEF Item
    <2>2. d \in DocIds \ contested /\ tpl \in Templates
      BY <2>1 DEF Shown, Docs, Applicable
    <2>3. Status(d)' = "approved"
      BY <2>1, <2>2, FirstVerdictStep DEF Status, Decisions
    <2>. QED
      BY <1>2, <2>1, <2>2, <2>3 DEF Item
  <1>4. IsFiniteSet(Asked) /\ Has \subseteq Asked
    BY DocumentAssumption, FS_Subset DEF Applicable
  <1>5. /\ IsFiniteSet(Has) /\ Cardinality(Has) <= Cardinality(Asked)
        /\ Cardinality(Had) <= Cardinality(Has)
        /\ Cardinality(Had) \in Nat /\ Cardinality(Has) \in Nat /\ Cardinality(Asked) \in Nat
    BY <1>3, <1>4, FS_Subset, FS_CardinalityType
  <1>6. Cardinality(Had) = Cardinality(Asked)
    BY DEF IsComplete
  <1>7. Cardinality(Has) = Cardinality(Asked)
    BY <1>5, <1>6
  <1>. QED
    BY <1>7 DEF IsComplete, Applicable

-----------------------------------------------------------------------------
(* Replacements.                                                           *)

Sending == {"body", "insert"}

IsRejected(d) == d \in Docs /\ (d \notin contested => Status(d) = "rejected")

(* What an upload in flight replaces is still rejected.                    *)
UploadsReplaceRejected ==
  \A t \in Threads : at[t] \in Sending => job[t].prev = 0 \/ IsRejected(job[t].prev)

(* And so is what a document replaces, which was there before it.          *)
ReplacedAreOlder ==
  \A e \in Docs :
    /\ upload[e].uploaded <= clock
    /\ upload[e].prev # 0 =>
         /\ IsRejected(upload[e].prev)
         /\ upload[e].prev < e
         /\ upload[upload[e].prev].uploaded <= upload[e].uploaded

Replacing == UploadsReplaceRejected /\ ReplacedAreOlder

LEMMA RejectedStaysRejected ==
  ASSUME Base, Decided, [Next]_vars, NEW d \in DocIds, IsRejected(d)
  PROVE  IsRejected(d)'
  <1>1. contested \subseteq contested'
    BY ContestedKept
  <1>2. d \in Docs'
    BY DocsStep, Adds DEF Base, IsRejected
  <1>3. d \notin contested => Status(d)' = "rejected"
    BY FirstVerdictStep DEF IsRejected, Status, Decisions
  <1>. QED
    BY <1>1, <1>2, <1>3 DEF IsRejected

LEMMA SendingStep ==
  ASSUME Base, [Next]_vars, NEW t \in Threads, at'[t] \in Sending
  PROVE  BeginUpload(t) \/ (at[t] \in Sending /\ job'[t] = job[t])
  <1>0. at \in [Threads -> Steps] /\ job \in [Threads -> Job]
    BY DEF Base, Typed, ThreadsTyped
  <1>. USE DEF Sending
  <1>1. CASE Refused \/ UNCHANGED vars
    BY <1>1 DEF Refused, vars, desk
  <1>2. ~Crash
    BY DEF Crash
  <1>3. ASSUME NEW s \in Threads, Ended(s) PROVE at[t] \in Sending /\ job'[t] = job[t]
    <2>1. at' = [at EXCEPT ![s] = "idle"] /\ job' = [job EXCEPT ![s] = NoJob]
      BY <1>3 DEF Ended, Answer
    <2>. QED
      BY <1>0, <2>1
  <1>4. ASSUME NEW s \in Threads, Store(s) \/ CommitUpload(s)
        PROVE  at[t] \in Sending /\ job'[t] = job[t]
    <2>1. /\ at[s] \in Sending /\ job' = job
          /\ \E step \in Steps : at' = [at EXCEPT ![s] = step]
      BY <1>4 DEF Store, CommitUpload, Goto, desk, Steps
    <2>. QED
      BY <1>0, <2>1
  <1>5. ASSUME NEW s \in Threads,
               \/ LoadReview(s) \/ FlushVerdict(s) \/ FlushVerdictFails(s)
               \/ MailVerdict(s) \/ CommitVerdict(s)
        PROVE  at[t] \in Sending /\ job'[t] = job[t]
    <2>1. /\ \E step \in Steps \ Sending : at' = [at EXCEPT ![s] = step]
          /\ \A u \in Threads \ {s} : job'[u] = job[u]
      BY <1>0, <1>5 DEF LoadReview, FlushVerdict, FlushVerdictFails, MailVerdict,
        CommitVerdict, Goto, desk, Steps
    <2>. QED
      BY <1>0, <2>1
  <1>6. ASSUME NEW s \in Threads, BeginUpload(s)
        PROVE  s = t \/ (at[t] \in Sending /\ job'[t] = job[t])
    <2>1. /\ at' = [at EXCEPT ![s] = "body"]
          /\ \A u \in Threads \ {s} : job'[u] = job[u]
      BY <1>0, <1>6 DEF BeginUpload, Goto
    <2>. QED
      BY <1>0, <2>1
  <1>. QED
    BY <1>1, <1>2, <1>3, <1>4, <1>5, <1>6, StepKinds DEF Progress

LEMMA Begun ==
  ASSUME Base, NEW t \in Threads, BeginUpload(t)
  PROVE  /\ job'[t].prev = 0 \/ (job'[t].prev \in Docs /\ Status(job'[t].prev) = "rejected")
         /\ UNCHANGED <<contested, reviews>>
  <1>0. job \in [Threads -> Job]
    BY DEF Base, Typed, ThreadsTyped
  <1>1. PICK tpl \in AskedTemplates, prev \in 0..MaxDocs :
          /\ UploadCode(tpl, prev) = 201
          /\ job' = [job EXCEPT ![t] =
               [request |-> requests', doc |-> 0, by |-> Nobody, decision |-> "none",
                comment |-> FALSE, template |-> tpl, prev |-> prev]]
    BY DEF BeginUpload
  <1>2. job'[t].prev = prev
    BY <1>0, <1>1
  <1>3. prev = 0 \/ (prev \in Docs /\ Status(prev) = "rejected")
    BY <1>1 DEF UploadCode
  <1>. QED
    BY <1>2, <1>3 DEF BeginUpload

LEMMA UploadsReplaceStep ==
  Base /\ Decided /\ UploadsReplaceRejected /\ [Next]_vars => UploadsReplaceRejected'
  <1>. SUFFICES ASSUME Base, Decided, UploadsReplaceRejected, [Next]_vars,
                       NEW t \in Threads, at'[t] \in Sending, job'[t].prev # 0
                PROVE  \E d \in DocIds : d = job'[t].prev /\ IsRejected(d)'
    BY DEF UploadsReplaceRejected, IsRejected
  <1>1. CASE BeginUpload(t)
    <2>1. PICK d \in Docs : d = job'[t].prev /\ Status(d) = "rejected"
      BY <1>1, Begun
    <2>2. d \in DocIds /\ IsRejected(d)
      BY <2>1 DEF Docs, IsRejected
    <2>. QED
      BY <2>1, <2>2, RejectedStaysRejected
  <1>2. CASE ~BeginUpload(t)
    <2>1. at[t] \in Sending /\ job'[t] = job[t]
      BY <1>2, SendingStep
    <2>2. IsRejected(job[t].prev) /\ job[t].prev \in DocIds
      BY <2>1 DEF UploadsReplaceRejected, IsRejected, Docs
    <2>. QED
      BY <2>1, <2>2, RejectedStaysRejected
  <1>. QED
    BY <1>1, <1>2

(* Time does not run backwards.                                            *)
LEMMA ClockStep == Base /\ [Next]_vars => clock \in Nat /\ clock' \in {clock, clock + 1}
  <1>. SUFFICES ASSUME Base, [Next]_vars PROVE clock' \in {clock, clock + 1}
    BY DEF Base, Typed, FilesTyped
  <1>1. CASE Refused \/ Crash \/ UNCHANGED vars
    BY <1>1 DEF Refused, Crash, vars, files
  <1>2. ASSUME NEW t \in Threads, Ended(t) PROVE clock' = clock
    BY <1>2 DEF Ended
  <1>3. ASSUME NEW t \in Threads, Progress(t) PROVE clock' \in {clock, clock + 1}
    BY <1>3 DEF Progress, LoadReview, FlushVerdict, FlushVerdictFails, MailVerdict,
      CommitVerdict, BeginUpload, Store, CommitUpload, files
  <1>. QED
    BY <1>1, <1>2, <1>3, StepKinds

LEMMA ReplacedStep ==
  Base /\ Decided /\ Replacing /\ [Next]_vars => ReplacedAreOlder'
  <1>. SUFFICES ASSUME Base, Decided, Replacing, [Next]_vars, NEW e \in Docs'
                PROVE  /\ upload'[e].uploaded <= clock'
                       /\ upload'[e].prev # 0 =>
                            \E d \in DocIds :
                              /\ d = upload'[e].prev
                              /\ IsRejected(d)'
                              /\ d < e
                              /\ upload'[d].uploaded <= upload'[e].uploaded
    BY DEF ReplacedAreOlder
  <1>0. /\ clock \in Nat /\ clock' \in {clock, clock + 1}
        /\ Typed /\ JobsAreCurrent /\ ReplacedAreOlder /\ Docs \subseteq DocIds
        /\ \A d \in DocIds : upload[d] \in Upload
    BY ClockStep DEF Base, Replacing, Docs, Typed, FilesTyped
  <1>1. CASE Docs' = Docs /\ upload' = upload
    <2>1. upload[e].uploaded \in Nat /\ upload[e].uploaded <= clock
      BY <1>0, <1>1 DEF ReplacedAreOlder, Upload
    <2>2. ASSUME upload[e].prev # 0
          PROVE  \E d \in DocIds : /\ d = upload[e].prev
                                   /\ IsRejected(d)'
                                   /\ d < e
                                   /\ upload[d].uploaded <= upload[e].uploaded
      <3>1. PICK d : /\ d = upload[e].prev /\ IsRejected(d) /\ d < e
                     /\ upload[d].uploaded <= upload[e].uploaded
        BY <1>0, <1>1, <2>2 DEF ReplacedAreOlder
      <3>2. d \in DocIds
        BY <3>1 DEF IsRejected, Docs
      <3>. QED
        BY <3>1, <3>2, RejectedStaysRejected
    <2>. QED
      BY <1>0, <1>1, <2>1, <2>2
  <1>2. ASSUME NEW t \in Threads, CommitUpload(t)
        PROVE  /\ upload'[e].uploaded <= clock'
               /\ upload'[e].prev # 0 =>
                    \E d \in DocIds :
                      /\ d = upload'[e].prev
                      /\ IsRejected(d)'
                      /\ d < e
                      /\ upload'[d].uploaded <= upload'[e].uploaded
    <2>1. /\ nextDoc \in DocIds \ Docs /\ Docs' = Docs \cup {nextDoc}
          /\ upload'[nextDoc] = Inserted(t)
          /\ \A d \in DocIds : d # nextDoc => upload'[d] = upload[d]
          /\ clock' = clock /\ at[t] = "insert"
      BY <1>0, <1>2, Adds DEF CommitUpload, Goto
    <2>2. CASE e = nextDoc
      <3>1. upload'[e].prev = job[t].prev /\ upload'[e].uploaded = clock
        BY <2>1, <2>2 DEF Inserted
      <3>2. ASSUME job[t].prev # 0
            PROVE  \E d \in DocIds : /\ d = job[t].prev
                                     /\ IsRejected(d)'
                                     /\ d < e
                                     /\ upload'[d].uploaded <= clock
        <4>1. PICK d \in Docs : d = job[t].prev /\ IsRejected(d)
          BY <2>1, <3>2 DEF Replacing, UploadsReplaceRejected, Sending, IsRejected
        <4>2. d \in DocIds /\ d # nextDoc /\ d \in 1..(nextDoc - 1)
          BY <1>0, <2>1 DEF JobsAreCurrent
        <4>3. d < e
          BY <2>1, <2>2, <4>2 DEF DocIds
        <4>4. upload'[d].uploaded <= clock
          BY <1>0, <2>1, <4>2 DEF ReplacedAreOlder
        <4>. QED
          BY <4>1, <4>2, <4>3, <4>4, RejectedStaysRejected
      <3>. QED
        BY <1>0, <2>1, <3>1, <3>2
    <2>3. CASE e # nextDoc
      <3>1. e \in Docs /\ e \in DocIds /\ upload'[e] = upload[e]
        BY <1>0, <2>1, <2>3
      <3>2. upload[e].uploaded <= clock
        BY <1>0, <3>1 DEF ReplacedAreOlder
      <3>3. ASSUME upload[e].prev # 0
            PROVE  \E d \in DocIds : /\ d = upload[e].prev
                                     /\ IsRejected(d)'
                                     /\ d < e
                                     /\ upload'[d].uploaded <= upload[e].uploaded
        <4>1. PICK d : /\ d = upload[e].prev /\ IsRejected(d) /\ d < e
                       /\ upload[d].uploaded <= upload[e].uploaded
          BY <1>0, <3>1, <3>3 DEF ReplacedAreOlder
        <4>2. d \in Docs /\ d \in DocIds /\ upload'[d] = upload[d]
          BY <1>0, <2>1, <4>1 DEF IsRejected
        <4>. QED
          BY <4>1, <4>2, RejectedStaysRejected
      <3>. QED
        BY <2>1, <3>1, <3>2, <3>3
    <2>. QED
      BY <2>2, <2>3
  <1>. QED
    BY <1>1, <1>2, DocsStep

LEMMA ReplacingAlways == Spec => [](Base /\ Decided /\ Replacing)
  <1>1. Init => Replacing
    <2>. SUFFICES ASSUME Init PROVE Replacing
      OBVIOUS
    <2>1. UploadsReplaceRejected
      BY DEF Init, UploadsReplaceRejected, Sending
    <2>2. clock = 1 /\ \A d \in DocIds : upload[d].prev = 0 /\ upload[d].uploaded \in {0, 1}
      BY DEF Init, NoUpload
    <2>. QED
      BY <2>1, <2>2 DEF Replacing, ReplacedAreOlder, Docs
  <1>2. Base /\ Decided /\ Replacing /\ [Next]_vars => Replacing'
    BY UploadsReplaceStep, ReplacedStep DEF Replacing
  <1>3. Told /\ Decided => Base /\ Decided
    BY DEF Told
  <1>. QED
    BY <1>1, <1>2, <1>3, DecidedAlways, PTL DEF Spec

-----------------------------------------------------------------------------
(* The types hold, row locks are held exactly by the transactions that     *)
(* hold a verdict, the jobs in flight name what they should, and every row *)
(* has a blob of its own, wherever a request stopped (verifier.py,         *)
(* student_documents.py).                                                  *)
THEOREM DocumentsAreSound == Spec => []DocumentInv
  <1>1. Told => DocumentInv
    BY TypedIsTypeOK DEF Told, Traces, Base, DocumentInv
  <1>. QED
    BY <1>1, ToldAlways, PTL

(* The student's inbox is exactly what was committed, and no answer says   *)
(* otherwise than the tables: neither a refusal nor a 503 leaves a verdict *)
(* or a document, and a 201 leaves one (create_notification, verifier.py). *)
THEOREM TruthIsTold == Spec => []VerdictsAreTold
  <1>1. Init => VerdictsAreTold
    BY DEF Init, VerdictsAreTold, StudentKnowsVerdicts, AnswersAreHonest
  <1>2. Told /\ VerdictsAreTold /\ [Next]_vars => VerdictsAreTold'
    BY HonestStep, InboxStep DEF VerdictsAreTold
  <1>. QED
    BY <1>1, <1>2, ToldAlways, PTL DEF Spec

(* However reviews meet, a document's columns are one committed verdict's, *)
(* and its comments fit its status unless two reviews met on it            *)
(* (approve_document, reject_document).                                    *)
THEOREM OneVerdictPerRow == Spec => []RowsAreVerdicts
  <1>1. Decided => RowsAreVerdicts
    BY DEF Decided, RowsAreVerdicts
  <1>. QED
    BY <1>1, DecidedAlways, PTL

(* A decided document stays decided; its first verdict stands unless two   *)
(* reviews both loaded it while it was pending; and a complete checklist   *)
(* stays complete until an upload (verifier.py, checklist.py).             *)
THEOREM FirstVerdictsStand == Spec => VerdictsStand
  <1>1. Told /\ Decided /\ [Next]_vars =>
          [\A d \in DocIds : Status(d) \in Decisions => Status(d)' \in Decisions]_verdict
    BY DecidedStaysStep DEF Told
  <1>2. Told /\ Decided /\ [Next]_vars =>
          [\A d \in DocIds \ contested :
             Status(d) \in Decisions => verdict'[d] = verdict[d]]_verdict
    BY FirstVerdictStep DEF Told
  <1>3. Told /\ Decided /\ [Next]_vars =>
          [(IsComplete /\ Docs' = Docs /\ Shown \cap contested = {}) => IsComplete']_<<upload, verdict>>
    BY CompleteStep DEF Told
  <1>. QED
    BY <1>1, <1>2, <1>3, DecidedAlways, PTL DEF Spec, VerdictsStand, DecidedStaysDecided,
      FirstVerdictStands, CompleteStaysComplete

(* What a replacement supersedes stays rejected, although the upload       *)
(* looked at it before it awaited the file, and the checklist never shows  *)
(* it for the item the replacement was filed under, even when their        *)
(* uploaded_at tie (_resolve_superseded_document,                          *)
(* _latest_upload_per_template).                                           *)
THEOREM ReplacementsStand == Spec => []ReplacementsAreSound
  <1>1. Replacing => SupersededStaysRejected
    BY DEF SupersededStaysRejected, Replacing, ReplacedAreOlder, IsRejected
  <1>2. Base /\ Replacing => ChecklistShowsReplacement
    <2>. SUFFICES ASSUME Base, Replacing, NEW d \in Shown, NEW e \in Docs,
                         upload[e].prev = d, upload[e].template = upload[d].template
                  PROVE  FALSE
      BY DEF ChecklistShowsReplacement
    <2>1. PICK tpl \in Applicable : IsLatest(d, tpl)
      BY DEF Shown
    <2>2. d \in DocIds /\ e \in DocIds /\ d \in Nat \ {0} /\ e \in Nat
      BY DEF Shown, Docs, DocIds
    <2>3. e \in UploadsFor(tpl)
      BY <2>1 DEF IsLatest, UploadsFor
    <2>4. d < e /\ upload[d].uploaded <= upload[e].uploaded
      BY <2>2 DEF Replacing, ReplacedAreOlder
    <2>5. upload[d].uploaded \in Nat /\ upload[e].uploaded \in Nat
      BY <2>2 DEF Base, Typed, FilesTyped, Upload
    <2>. QED
      BY <2>1, <2>2, <2>3, <2>4, <2>5 DEF IsLatest
  <1>3. Base /\ Decided /\ Replacing => ReplacementsAreSound
    BY <1>1, <1>2 DEF ReplacementsAreSound
  <1>. QED
    BY <1>3, ReplacingAlways, PTL

=============================================================================
