------------------------- MODULE CaseCommunication -------------------------
(***************************************************************************)
(* What is said around one application: meetings with its student          *)
(* (backend/app/routers/meetings.py), the notifications and e-mails that   *)
(* announce them (backend/app/services/notifications.py), the student's    *)
(* inbox (backend/app/routers/notifications.py) and the internal notes of  *)
(* the staff (backend/app/routers/notes.py), while the application is      *)
(* reassigned from counselor to counselor.                                 *)
(*                                                                         *)
(* A request loads and checks, then commits.  Booking a meeting commits    *)
(* twice: the meeting, then its notification.                              *)
(***************************************************************************)
EXTENDS Naturals, Sequences, SequencesExt

CONSTANTS
  Threads,       \* threads of the server's pool
  Staff,         \* staff accounts that take part
  Role,          \* [Staff -> role]
  BranchOf,      \* [Staff -> branch]
  Branches,      \* branches the student and the application may be in
  MaxRequests,   \* bound: requests in a behavior
  MaxFaults      \* bound: faults in a behavior

Roles == {"consultancy_owner", "branch_manager", "counselor"}

ASSUME CommunicationAssumption ==
  /\ IsFiniteSet(Threads) /\ Threads # {}
  /\ Role \in [Staff -> Roles] /\ BranchOf \in [Staff -> Branches]
  /\ MaxRequests \in Nat /\ MaxFaults \in Nat

VARIABLES
  where,      \* branch of the student and of the application
  assigned,   \* the application's counselor
  meetings,   \* committed meetings: who booked them, for whom, their time
  inbox,      \* committed notifications of the student: of which meeting, read or not
  mails,      \* e-mails handed to the transport: of which meeting, for what time
  notes,      \* committed notes: author, and whether deleted since
  at,         \* the step of its request each thread is at
  job,        \* the request each thread runs, and what it loaded for it
  late,       \* history: case writes by a counselor since the application was taken from him
  requests,   \* requests received so far
  faults      \* faults so far

data == <<where, assigned, meetings, inbox, mails, notes>>
vars == <<data, at, job, late, requests, faults>>

Counselors == {u \in Staff : Role[u] = "counselor"}
Home(what, u) == where[what] = BranchOf[u]

Unread(box) == {k \in DOMAIN box : ~box[k].read}

-----------------------------------------------------------------------------
(* Who may do what: the checks of the handlers and the filters of the lists *)

\* meetings.py _load_application
OpensCase(u) ==
  \/ Role[u] = "consultancy_owner"
  \/ Role[u] = "branch_manager" /\ Home("application", u)
  \/ Role[u] = "counselor" /\ Home("application", u) /\ assigned = u

\* schedule_meeting and _validate_people
BooksFor(u, c) ==
  /\ c \in Counselors
  /\ Role[u] = "counselor" => c = u
  /\ Role[u] = "branch_manager" => BranchOf[c] = BranchOf[u]

\* _enforce_meeting_branch_scope
OpensMeeting(u, m) ==
  \/ Role[u] = "consultancy_owner"
  \/ Role[u] = "branch_manager" /\ Home("application", u)
  \/ Role[u] = "counselor" /\ m.counselor = u

\* list_meetings
ListsMeeting(u, m) ==
  \/ Role[u] = "consultancy_owner"
  \/ Role[u] = "branch_manager" /\ Home("application", u)
  \/ Role[u] = "counselor" /\ m.counselor = u /\ Home("application", u)

\* Mutant: an assignment in another branch counts too.
ReachesAssigned(u) ==
  \/ Role[u] = "consultancy_owner"
  \/ Role[u] = "branch_manager" /\ Home("student", u)
  \/ Role[u] = "counselor" /\ Home("student", u) /\ assigned = u

\* notes.py _enforce_branch_scope_on_student
ReachesStudent(u) ==
  \/ Role[u] = "consultancy_owner"
  \/ Role[u] = "branch_manager" /\ Home("student", u)
  \/ /\ Role[u] = "counselor" /\ Home("student", u)
     /\ assigned = u /\ Home("application", u)

\* _scoped_notes_query
ListsNotes(u) ==
  \/ Role[u] = "consultancy_owner"
  \/ Role[u] = "branch_manager" /\ Home("student", u)
  \/ Role[u] = "counselor" /\ Home("student", u)
       /\ assigned = u /\ Home("application", u)

\* list_notes with a student_id: the student is checked like for a new note.
ListsNotesOfStudent(u) ==
  /\ Role[u] \in {"branch_manager", "counselor"} => ReachesStudent(u)
  /\ ListsNotes(u)

\* applications.py _assigned_query_for_role
ListsApplication(u) ==
  \/ Role[u] = "consultancy_owner"
  \/ Role[u] = "branch_manager" /\ Home("application", u)
  \/ Role[u] = "counselor" /\ assigned = u /\ Home("application", u)

\* checklist.py _get_tenant_application and _authorize_checklist_read
ReadsChecklist(u) ==
  /\ Role[u] \in {"branch_manager", "counselor"} => Home("application", u)
  /\ Role[u] = "counselor" => assigned = u

-----------------------------------------------------------------------------
NoJob == [user |-> "none", kind |-> "none", which |-> 0, unread |-> {}, seen |-> <<>>]

TypeOK ==
  /\ where \in [{"student", "application"} -> Branches]
  /\ assigned \in Counselors
  /\ \A k \in DOMAIN meetings :
       meetings[k] \in [by : Staff, counselor : Counselors, time : {"set", "moved"}]
  /\ \A k \in DOMAIN inbox : inbox[k] \in [meeting : DOMAIN meetings, read : BOOLEAN]
  /\ \A n \in DOMAIN notes : notes[n] \in [author : Staff, deleted : BOOLEAN]
  /\ late \in Nat /\ requests \in Nat /\ faults \in Nat

Init ==
  /\ where \in [{"student", "application"} -> Branches]
  /\ assigned \in Counselors
  /\ meetings = <<>> /\ inbox = <<>> /\ mails = {} /\ notes = <<>>
  /\ at = [t \in Threads |-> "idle"]
  /\ job = [t \in Threads |-> NoJob]
  /\ late = 0 /\ requests = 0 /\ faults = 0

Begin(t, step, user, kind, which) ==
  /\ at[t] = "idle" /\ requests < MaxRequests
  /\ at' = [at EXCEPT ![t] = step]
  /\ job' = [job EXCEPT ![t] = [user |-> user, kind |-> kind, which |-> which,
                                unread |-> Unread(inbox), seen |-> inbox]]
  /\ requests' = requests + 1
  /\ UNCHANGED <<data, late, faults>>

End(t) ==
  /\ at' = [at EXCEPT ![t] = "idle"]
  /\ job' = [job EXCEPT ![t] = NoJob]

Continue(t, step, which) ==
  /\ at' = [at EXCEPT ![t] = step]
  /\ job' = [job EXCEPT ![t].which = which]

Strike == faults < MaxFaults /\ faults' = faults + 1

LateBy(u) == late' = IF Role[u] = "counselor" /\ assigned # u THEN late + 1 ELSE late

\* The database fails a commit, or the process dies before it.
CommitFails(t) ==
  /\ at[t] \in {"book", "move", "write", "edit", "delete", "mark", "mark-all"}
  /\ Strike /\ End(t)
  /\ UNCHANGED <<data, late, requests>>

-----------------------------------------------------------------------------
(* Meetings                                                                 *)

\* schedule_meeting up to its first commit
BeginMeeting(t) ==
  \E u \in Staff : \E c \in Counselors :
    OpensCase(u) /\ BooksFor(u, c) /\ Begin(t, "book", u, c, 0)

\* Mutant: the student is told before the meeting is committed.
BookAnnounced(t) ==
  /\ at[t] = "book"
  /\ mails' = mails \cup {[meeting |-> Len(meetings) + 1, time |-> "set"]}
  /\ \/ /\ meetings' = Append(meetings, [by |-> job[t].user, counselor |-> job[t].kind,
                                         time |-> "set"])
        /\ UNCHANGED faults
     \/ Strike /\ UNCHANGED meetings
  /\ End(t)
  /\ UNCHANGED <<where, assigned, inbox, notes, late, requests>>

Book(t) ==
  /\ at[t] = "book"
  /\ meetings' = Append(meetings, [by |-> job[t].user, counselor |-> job[t].kind,
                                   time |-> "set"])
  /\ LateBy(job[t].user)
  /\ Continue(t, "notify", Len(meetings'))
  /\ UNCHANGED <<where, assigned, inbox, mails, notes, requests, faults>>

\* The notification is flushed; a failed flush drops it and is not reported.
Notify(t) ==
  /\ at[t] = "notify"
  /\ \/ Continue(t, "mail", job[t].which) /\ UNCHANGED faults
     \/ Continue(t, "mail-only", job[t].which) /\ Strike
  /\ UNCHANGED <<data, late, requests>>

\* The e-mail tells the time the request was made for.
Mail(t) ==
  /\ at[t] \in {"mail", "mail-only"}
  /\ \/ mails' = mails \cup {[meeting |-> job[t].which, time |-> "set"]} /\ UNCHANGED faults
     \/ Strike /\ UNCHANGED mails
  /\ IF at[t] = "mail" THEN Continue(t, "confirm", job[t].which) ELSE End(t)
  /\ UNCHANGED <<where, assigned, meetings, inbox, notes, late, requests>>

\* The second commit stores the notification; where it fails, the meeting stays.
Confirm(t) ==
  /\ at[t] = "confirm"
  /\ \/ inbox' = Append(inbox, [meeting |-> job[t].which, read |-> FALSE]) /\ UNCHANGED faults
     \/ Strike /\ UNCHANGED inbox
  /\ End(t)
  /\ UNCHANGED <<where, assigned, meetings, mails, notes, late, requests>>

\* update_meeting; nobody is told of the new time.
BeginMove(t) ==
  \E u \in Staff : \E k \in DOMAIN meetings :
    OpensMeeting(u, meetings[k]) /\ Begin(t, "move", u, "move", k)

Move(t) ==
  /\ at[t] = "move"
  /\ meetings' = [meetings EXCEPT ![job[t].which].time = "moved"]
  /\ End(t)
  /\ UNCHANGED <<where, assigned, inbox, mails, notes, late, requests, faults>>

-----------------------------------------------------------------------------
(* The student's inbox                                                      *)

\* mark_notification_read: loads one notification, and writes it if it was unread.
BeginMark(t) ==
  \E k \in Unread(inbox) : Begin(t, "mark", "student", "mark", k)

Mark(t) ==
  /\ at[t] = "mark"
  /\ inbox' = [inbox EXCEPT ![job[t].which].read = TRUE]
  /\ End(t)
  /\ UNCHANGED <<where, assigned, meetings, mails, notes, late, requests, faults>>

\* mark_all_notifications_read selects the unread rows,
BeginMarkAll(t) == Begin(t, "mark-all", "student", "mark-all", 0)

\* Mutant: only the newest of the selected rows is written.
MarkNewest(t) ==
  /\ at[t] = "mark-all"
  /\ inbox' = [k \in DOMAIN inbox |->
                 IF k \in job[t].unread /\ \A i \in job[t].unread : i <= k
                 THEN [inbox[k] EXCEPT !.read = TRUE] ELSE inbox[k]]
  /\ Continue(t, "answer", 0)
  /\ UNCHANGED <<where, assigned, meetings, mails, notes, late, requests, faults>>

\* writes them,
MarkAll(t) ==
  /\ at[t] = "mark-all"
  /\ inbox' = [k \in DOMAIN inbox |->
                 IF k \in job[t].unread THEN [inbox[k] EXCEPT !.read = TRUE] ELSE inbox[k]]
  /\ Continue(t, "answer", 0)
  /\ UNCHANGED <<where, assigned, meetings, mails, notes, late, requests, faults>>

\* and answers with every row there is now and an unread count of zero.
AnswerMarkAll(t) ==
  /\ at[t] = "answer"
  /\ End(t)
  /\ UNCHANGED <<data, late, requests, faults>>

\* list_notifications counts the unread rows, then selects all of them.
BeginList(t) == Begin(t, "list", "student", "list", 0)

AnswerList(t) ==
  /\ at[t] = "list"
  /\ End(t)
  /\ UNCHANGED <<data, late, requests, faults>>

-----------------------------------------------------------------------------
(* Notes                                                                    *)

BeginNote(t) ==
  \E u \in Staff : ReachesStudent(u) /\ Begin(t, "write", u, "note", 0)

WriteNote(t) ==
  /\ at[t] = "write"
  /\ notes' = Append(notes, [author |-> job[t].user, deleted |-> FALSE])
  /\ LateBy(job[t].user)
  /\ End(t)
  /\ UNCHANGED <<where, assigned, meetings, inbox, mails, requests, faults>>

\* _load_note, then the author's check of update_note and delete_note
OpenOwnNote(t, step) ==
  \E u \in Staff : \E n \in DOMAIN notes :
    /\ ReachesStudent(u)
    /\ notes[n].author = u /\ ~notes[n].deleted
    /\ Begin(t, step, u, step, n)

BeginEdit(t) == OpenOwnNote(t, "edit")
BeginDelete(t) == OpenOwnNote(t, "delete")

\* Mutant: the note is written whether or not its row is still there.
EditOrInsert(t) ==
  /\ at[t] = "edit"
  /\ notes' = [notes EXCEPT ![job[t].which].deleted = FALSE]
  /\ LateBy(job[t].user)
  /\ End(t)
  /\ UNCHANGED <<where, assigned, meetings, inbox, mails, requests, faults>>

\* An update of a row that is gone matches nothing and ends in an uncaught error.
Edit(t) ==
  /\ at[t] = "edit"
  /\ IF notes[job[t].which].deleted THEN UNCHANGED late ELSE LateBy(job[t].user)
  /\ End(t)
  /\ UNCHANGED <<data, requests, faults>>

Delete(t) ==
  /\ at[t] = "delete"
  /\ notes' = [notes EXCEPT ![job[t].which].deleted = TRUE]
  /\ LateBy(job[t].user)
  /\ End(t)
  /\ UNCHANGED <<where, assigned, meetings, inbox, mails, requests, faults>>

-----------------------------------------------------------------------------
\* reassign_application_counselor
Reassign ==
  /\ requests < MaxRequests /\ requests' = requests + 1
  /\ assigned' \in Counselors \ {assigned}
  /\ late' = 0
  /\ UNCHANGED <<where, meetings, inbox, mails, notes, at, job, faults>>

Step(t) ==
  \/ CommitFails(t)
  \/ BeginMeeting(t) \/ Book(t) \/ Notify(t) \/ Mail(t) \/ Confirm(t)
  \/ BeginMove(t) \/ Move(t)
  \/ BeginMark(t) \/ Mark(t)
  \/ BeginMarkAll(t) \/ MarkAll(t) \/ AnswerMarkAll(t)
  \/ BeginList(t) \/ AnswerList(t)
  \/ BeginNote(t) \/ WriteNote(t)
  \/ BeginEdit(t) \/ Edit(t) \/ BeginDelete(t) \/ Delete(t)

Next == Reassign \/ \E t \in Threads : Step(t)

Spec == Init /\ [][Next]_vars

-----------------------------------------------------------------------------
Announcing(k) ==
  \E t \in Threads : at[t] \in {"notify", "mail", "mail-only", "confirm"} /\ job[t].which = k

(* The student hears of committed meetings only, at most once of each in    *)
(* the inbox, and of every one by mail and inbox unless something failed on *)
(* the way; a mail names another time than the meeting's only once that was *)
(* moved (meetings.py:309-327, services/notifications.py:424).              *)
MeetingsAreAnnounced ==
  /\ TypeOK
  /\ \A e \in mails : e.meeting \in DOMAIN meetings
  /\ \A i, k \in DOMAIN inbox : inbox[i].meeting = inbox[k].meeting => i = k
  /\ \A k \in DOMAIN meetings :
       Announcing(k) \/ faults > 0
         \/ /\ \E e \in mails : e.meeting = k
            /\ \E i \in DOMAIN inbox : inbox[i].meeting = k

(* What mark-all answers as unread came after its select, whatever zero it  *)
(* counts, and the two selects of a list disagree only if the inbox changed *)
(* between them (notifications.py:199-226, :85-95).                         *)
InboxAnswersAreHonest ==
  [][\A t \in Threads :
       /\ at[t] = "answer" /\ at'[t] = "idle"
            => \A k \in Unread(inbox) : k \notin DOMAIN job[t].seen
       /\ at[t] = "list" /\ at'[t] = "idle" /\ inbox = job[t].seen
            => job[t].unread = Unread(inbox)]_vars

(* A deleted note does not come back, even when its author was editing it   *)
(* while it was deleted (notes.py:609, :656).                               *)
DeletedNotesStayDeleted ==
  [][\A n \in DOMAIN notes : notes[n].deleted => notes'[n].deleted]_vars

(* The filters of the lists and the checks of the single rows agree: who    *)
(* lists a note may open it and the other way round, and asking for the     *)
(* notes of one student refuses nobody who gets them unasked; meetings are  *)
(* booked, and checklists read, for the applications on one's own list and  *)
(* for no others; every meeting on a list may be opened (notes.py:215,      *)
(* :291, :531; applications.py:247; checklist.py:118; meetings.py:64, :178, *)
(* :330).  A meeting that a manager or counselor booked is on its           *)
(* counselor's list.  (One the owner booked with a counselor of another     *)
(* branch is not.)                                                          *)
ListsAgreeWithChecks ==
  /\ \A u \in Staff :
       /\ ListsNotes(u) <=> ReachesStudent(u)
       /\ ListsNotesOfStudent(u) <=> ListsNotes(u)
       /\ ListsApplication(u) <=> OpensCase(u)
       /\ ListsApplication(u) <=> ReadsChecklist(u)
  /\ \A u \in Staff : \A k \in DOMAIN meetings :
       ListsMeeting(u, meetings[k]) => OpensMeeting(u, meetings[k])
  /\ \A k \in DOMAIN meetings :
       Role[meetings[k].by] # "consultancy_owner"
         => ListsMeeting(meetings[k].counselor, meetings[k])

(* A counselor from whom the application was taken writes to it only with   *)
(* what he had begun by then: no more meetings and notes than there are     *)
(* threads (meetings.py:113, notes.py:265).                                 *)
LateWritesAreBounded == late <= Cardinality(Threads)

(* Staff write and see what their assignments allow, or allowed.            *)
AccessFollowsAssignment == ListsAgreeWithChecks /\ LateWritesAreBounded
=============================================================================
