----------------------- MODULE CaseCommunicationProofs -----------------------
(***************************************************************************)
(* Proofs about CaseCommunication, for every pool of threads, any staff    *)
(* and any branches.                                                       *)
(*                                                                         *)
(* The properties speak of meetings, of the inbox and of notes; each needs *)
(* to know what the requests in flight carry: the meeting they are about   *)
(* to announce, which nobody else announces (Distinct), and what they saw  *)
(* of an inbox that has only grown since (JobOK).                          *)
(***************************************************************************)
EXTENDS CaseCommunication, FiniteSetTheorems, SequenceTheorems, TLAPS

Steps == {"idle", "book", "notify", "mail", "mail-only", "confirm", "move", "mark", "mark-all",
          "answer", "list", "write", "edit", "delete"}
Meeting == [by : Staff, counselor : Counselors, time : {"set", "moved"}]
Notice == [meeting : Nat, read : BOOLEAN]
Note == [author : Staff, deleted : BOOLEAN]
Users == Staff \cup {"none", "student"}
Kinds == Staff \cup {"none", "move", "mark", "mark-all", "list", "note", "edit", "delete"}
Boxes == Seq(Notice)
Indices == SUBSET Nat
Job == [user : Users, kind : Kinds, which : Nat, unread : Indices, seen : Boxes]

TablesTyped ==
  /\ where \in [{"student", "application"} -> Branches]
  /\ assigned \in Counselors
  /\ meetings \in Seq(Meeting) /\ inbox \in Boxes /\ notes \in Seq(Note)
  /\ \A k \in DOMAIN inbox : inbox[k].meeting \in DOMAIN meetings
  /\ \A e \in mails : e.meeting \in DOMAIN meetings

JobsTyped ==
  /\ at \in [Threads -> Steps] /\ job \in [Threads -> Job]
  /\ late \in Nat /\ requests \in Nat /\ faults \in Nat

Typed == TablesTyped /\ JobsTyped

(* What the request of t carries at the step it is at.                     *)
Announcers == {"notify", "mail", "confirm"}

Writes(t) ==
  /\ at[t] \in {"book", "write", "edit", "delete"} => job[t].user \in Staff
  /\ at[t] = "book" =>
       /\ job[t].kind \in Counselors
       /\ Role[job[t].user] # "consultancy_owner" => Home("application", job[t].kind)

Announces(t) ==
  /\ at[t] \in Announcers \cup {"mail-only", "move"} => job[t].which \in DOMAIN meetings
  /\ at[t] \in Announcers => \A k \in DOMAIN inbox : inbox[k].meeting # job[t].which
  /\ at[t] = "confirm" => faults > 0 \/ \E e \in mails : e.meeting = job[t].which
  /\ at[t] = "mail-only" => faults > 0

ReadSince(t) ==
  \A k \in DOMAIN job[t].seen : k \in DOMAIN inbox /\ (job[t].seen[k].read => inbox[k].read)

Reads(t) ==
  /\ at[t] = "mark" => job[t].which \in DOMAIN inbox
  /\ at[t] \in {"mark-all", "list"} => job[t].unread = Unread(job[t].seen)
  /\ at[t] = "mark-all" => ReadSince(t)
  /\ at[t] = "answer" => \A k \in DOMAIN job[t].seen : k \in DOMAIN inbox /\ inbox[k].read

JobOK(t) == Writes(t) /\ Announces(t) /\ Reads(t)
JobsOK == \A t \in Threads : JobOK(t)

Distinct ==
  \A t, u \in Threads :
    at[t] \in Announcers /\ at[u] \in Announcers /\ t # u => job[t].which # job[u].which

(* What every step leaves as it was.                                       *)
Grown ==
  /\ UNCHANGED where
  /\ DOMAIN meetings \subseteq DOMAIN meetings'
  /\ \A k \in DOMAIN inbox : /\ k \in DOMAIN inbox'
                             /\ inbox'[k].meeting = inbox[k].meeting
                             /\ inbox[k].read => inbox'[k].read
  /\ mails \subseteq mails' /\ (faults > 0 => faults' > 0)
  /\ \A n \in DOMAIN notes : n \in DOMAIN notes' /\ (notes[n].deleted => notes'[n].deleted)

-----------------------------------------------------------------------------
(* Sequences as functions                                                  *)

LEMMA SeqIsFunction ==
  ASSUME NEW S, NEW s \in Seq(S)
  PROVE  /\ s \in [1..Len(s) -> S] /\ Len(s) \in Nat /\ DOMAIN s = 1..Len(s)
         /\ \A k \in DOMAIN s : s[k] \in S
  BY LenProperties, ElementOfSeq

LEMMA FunctionIsSeq ==
  ASSUME NEW S, NEW n \in Nat, NEW f \in [1..n -> S]
  PROVE  f \in Seq(S) /\ Len(f) = n
  BY SeqDef, LenProperties

LEMMA AppendGrows ==
  ASSUME NEW S, NEW s \in Seq(S), NEW x \in S, NEW r, r = Append(s, x)
  PROVE  /\ r \in Seq(S) /\ Len(s) \in Nat /\ Len(r) = Len(s) + 1
         /\ DOMAIN s = 1..Len(s) /\ DOMAIN r = 1..(Len(s) + 1)
         /\ \A k \in DOMAIN s : k \in DOMAIN r /\ r[k] = s[k]
         /\ \A k \in DOMAIN r : k \in DOMAIN s \/ k = Len(s) + 1
         /\ r[Len(s) + 1] = x /\ Len(s) + 1 \in DOMAIN r /\ Len(s) + 1 \notin DOMAIN s
  <1>1. /\ r \in Seq(S) /\ Len(s) \in Nat /\ Len(r) = Len(s) + 1 /\ r[Len(s) + 1] = x
        /\ \A k \in 1..Len(s) : r[k] = s[k]
    BY AppendProperties, LenProperties
  <1>2. DOMAIN s = 1..Len(s) /\ DOMAIN r = 1..(Len(s) + 1)
    BY <1>1, LenProperties
  <1>. QED
    BY <1>1, <1>2

-----------------------------------------------------------------------------
(* Threads                                                                 *)

LEMMA Counted == IsFiniteSet(Threads) /\ Cardinality(Threads) \in Nat /\ MaxFaults \in Nat
  BY CommunicationAssumption, FS_CardinalityType DEF CommunicationAssumption

LEMMA StaffHaveRoles ==
  /\ \A u \in Staff : Role[u] \in Roles
  /\ Counselors \subseteq Staff /\ \A u \in Counselors : Role[u] = "counselor"
  BY CommunicationAssumption DEF CommunicationAssumption, Counselors

LEMMA NoJobTyped == NoJob \in Job
  <1>1. /\ NoJob.user \in Users /\ NoJob.kind \in Kinds /\ NoJob.which \in Nat
        /\ NoJob.unread \in Indices /\ NoJob.seen \in Boxes
    BY DEF NoJob, Users, Kinds, Indices, Boxes
  <1>2. NoJob = [user |-> NoJob.user, kind |-> NoJob.kind, which |-> NoJob.which,
                 unread |-> NoJob.unread, seen |-> NoJob.seen]
    BY DEF NoJob
  <1>. QED
    BY <1>1, <1>2 DEF Job

LEMMA Ended ==
  ASSUME JobsTyped, NEW t \in Threads, End(t)
  PROVE  /\ at' \in [Threads -> Steps] /\ job' \in [Threads -> Job] /\ at'[t] = "idle"
         /\ \A u \in Threads \ {t} : at'[u] = at[u] /\ job'[u] = job[u]
  BY NoJobTyped DEF JobsTyped, End, Steps

LEMMA Continued ==
  ASSUME JobsTyped, NEW t \in Threads, NEW step \in Steps, NEW which \in Nat,
         Continue(t, step, which)
  PROVE  /\ at' \in [Threads -> Steps] /\ job' \in [Threads -> Job] /\ at'[t] = step
         /\ job'[t].which = which /\ job'[t].seen = job[t].seen
         /\ \A u \in Threads \ {t} : at'[u] = at[u] /\ job'[u] = job[u]
  <1>1. /\ at \in [Threads -> Steps] /\ job \in [Threads -> Job]
        /\ at' = [at EXCEPT ![t] = step]
        /\ job' = [job EXCEPT ![t] = [job[t] EXCEPT !.which = which]]
    BY DEF JobsTyped, Continue
  <1>2. /\ [job[t] EXCEPT !.which = which] \in Job
        /\ [job[t] EXCEPT !.which = which].which = which
        /\ [job[t] EXCEPT !.which = which].seen = job[t].seen
    BY <1>1 DEF Job
  <1>. QED
    BY <1>1, <1>2

LEMMA FaultsCounted ==
  ASSUME JobsTyped, UNCHANGED faults \/ Strike
  PROVE  faults' \in Nat /\ (faults > 0 => faults' > 0) /\ (Strike => faults' > 0)
  BY DEF JobsTyped, Strike

LEMMA OthersKeep ==
  ASSUME Typed, JobsOK, NEW u \in Threads, at'[u] = at[u], job'[u] = job[u], Grown,
         at[u] \in Announcers =>
           \A k \in DOMAIN inbox' : k \in DOMAIN inbox \/ inbox'[k].meeting # job[u].which
  PROVE  JobOK(u)'
  <1>1. JobOK(u)
    BY DEF JobsOK
  <1>2. Writes(u)'
    BY <1>1 DEF JobOK, Writes, Grown, Home
  <1>3. Announces(u)'
    BY <1>1 DEF JobOK, Announces, Grown
  <1>4. Reads(u)'
    BY <1>1 DEF JobOK, Reads, ReadSince, Grown, Unread
  <1>. QED
    BY <1>2, <1>3, <1>4 DEF JobOK

(* ... and their announcements stay distinct, unless t takes one up.       *)
LEMMA DistinctKept ==
  ASSUME Distinct, NEW t \in Threads,
         \A u \in Threads \ {t} : at'[u] = at[u] /\ job'[u] = job[u],
         at'[t] \in Announcers => at[t] \in Announcers /\ job'[t].which = job[t].which
  PROVE  Distinct'
  BY DEF Distinct

-----------------------------------------------------------------------------
(* One lemma for each action                                               *)

Kept == Typed' /\ Grown /\ JobsOK' /\ Distinct'

(* The others notice at most a notice of the meeting that t announces.     *)
OnlyOwnNews(t) ==
  \A k \in DOMAIN inbox' :
    k \in DOMAIN inbox \/ (at[t] \in Announcers /\ inbox'[k].meeting = job[t].which)

LEMMA OthersKeepAll ==
  ASSUME Typed, JobsOK, Distinct, NEW t \in Threads, Grown, OnlyOwnNews(t),
         \A u \in Threads \ {t} : at'[u] = at[u] /\ job'[u] = job[u]
  PROVE  \A u \in Threads \ {t} : JobOK(u)'
  <1>. SUFFICES ASSUME NEW u \in Threads \ {t} PROVE JobOK(u)'
    OBVIOUS
  <1>1. at[u] \in Announcers =>
          \A k \in DOMAIN inbox' : k \in DOMAIN inbox \/ inbox'[k].meeting # job[u].which
    BY DEF OnlyOwnNews, Distinct
  <1>. QED
    BY <1>1, OthersKeep

LEMMA EndKeeps ==
  ASSUME Typed, JobsOK, Distinct, NEW t \in Threads, End(t), Grown, OnlyOwnNews(t)
  PROVE  JobsOK' /\ Distinct'
  <1>1. at'[t] = "idle" /\ \A u \in Threads \ {t} : at'[u] = at[u] /\ job'[u] = job[u]
    BY Ended DEF Typed
  <1>2. JobOK(t)'
    BY <1>1 DEF JobOK, Writes, Announces, Reads, Announcers
  <1>3. \A u \in Threads \ {t} : JobOK(u)'
    BY <1>1, OthersKeepAll
  <1>4. Distinct'
    BY <1>1, DistinctKept DEF Announcers
  <1>. QED
    BY <1>2, <1>3, <1>4 DEF JobsOK

LEMMA DataStays ==
  ASSUME Typed, UNCHANGED data, UNCHANGED faults \/ Strike
  PROVE  TablesTyped' /\ Grown /\ \A t \in Threads : OnlyOwnNews(t)
  BY FaultsCounted DEF Typed, TablesTyped, Grown, OnlyOwnNews, data

LEMMA NothingWritten ==
  ASSUME Typed, JobsOK, Distinct, NEW t \in Threads, End(t), UNCHANGED data,
         UNCHANGED faults \/ Strike, late' \in Nat, requests' \in Nat
  PROVE  Kept
  <1>1. TablesTyped' /\ Grown /\ OnlyOwnNews(t)
    BY DataStays
  <1>2. JobsTyped'
    BY Ended, FaultsCounted DEF Typed, JobsTyped
  <1>. QED
    BY <1>1, <1>2, EndKeeps DEF Kept, Typed

LEMMA LateTyped ==
  ASSUME Typed, NEW u, LateBy(u) \/ UNCHANGED late PROVE late' \in Nat
  BY DEF Typed, JobsTyped, LateBy

LEMMA QuietStep ==
  ASSUME Typed, JobsOK, Distinct, NEW t \in Threads,
         CommitFails(t) \/ AnswerMarkAll(t) \/ AnswerList(t) \/ Edit(t)
  PROVE  Kept
  <1>1. End(t) /\ UNCHANGED <<data, requests>> /\ (UNCHANGED faults \/ Strike)
    BY DEF CommitFails, AnswerMarkAll, AnswerList, Edit
  <1>2. UNCHANGED late \/ LateBy(job[t].user)
    BY DEF CommitFails, AnswerMarkAll, AnswerList, Edit
  <1>. QED
    BY <1>1, <1>2, LateTyped, NothingWritten DEF Typed, JobsTyped

LEMMA Begun ==
  ASSUME Typed, JobsOK, Distinct, NEW t \in Threads, NEW step \in Steps \ Announcers,
         NEW user \in Users, NEW kind \in Kinds, NEW which \in Nat,
         Begin(t, step, user, kind, which)
  PROVE  /\ Typed' /\ Grown /\ Distinct' /\ \A u \in Threads \ {t} : JobOK(u)'
         /\ at'[t] = step /\ UNCHANGED <<data, late, faults>>
         /\ job'[t].user = user /\ job'[t].kind = kind /\ job'[t].which = which
         /\ job'[t].unread = Unread(inbox) /\ job'[t].seen = inbox
  <1>1. /\ at \in [Threads -> Steps] /\ job \in [Threads -> Job] /\ requests \in Nat
        /\ UNCHANGED <<data, late, faults>>
    BY DEF Typed, JobsTyped, Begin
  <1>. DEFINE new == [user |-> user, kind |-> kind, which |-> which,
                      unread |-> Unread(inbox), seen |-> inbox]
  <1>2. new \in Job
    <2>1. Unread(inbox) \in Indices /\ inbox \in Boxes
      BY SeqIsFunction DEF Typed, TablesTyped, Unread, Indices, Boxes
    <2>. QED
      BY <2>1 DEF Job
  <1>3. /\ at' \in [Threads -> Steps] /\ job' \in [Threads -> Job] /\ requests' \in Nat
        /\ at'[t] = step /\ job'[t] = new
        /\ \A u \in Threads \ {t} : at'[u] = at[u] /\ job'[u] = job[u]
    BY <1>1, <1>2 DEF Begin
  <1>4. TablesTyped' /\ Grown /\ OnlyOwnNews(t)
    BY <1>1, DataStays
  <1>5. Typed'
    BY <1>1, <1>3, <1>4 DEF Typed, JobsTyped
  <1>6. Distinct'
    BY <1>3, DistinctKept DEF Announcers
  <1>7. /\ job'[t].user = user /\ job'[t].kind = kind /\ job'[t].which = which
        /\ job'[t].unread = Unread(inbox) /\ job'[t].seen = inbox
    BY <1>3
  <1>. QED
    BY <1>1, <1>3, <1>4, <1>5, <1>6, <1>7, OthersKeepAll

LEMMA BeginMeetingStep ==
  ASSUME Typed, JobsOK, Distinct, NEW t \in Threads, BeginMeeting(t) PROVE Kept
  <1>1. PICK u \in Staff, c \in Counselors :
          OpensCase(u) /\ BooksFor(u, c) /\ Begin(t, "book", u, c, 0)
    BY DEF BeginMeeting
  <1>2. u \in Users /\ c \in Kinds /\ "book" \in Steps \ Announcers
    BY StaffHaveRoles DEF Users, Kinds, Steps, Announcers
  <1>3. /\ Typed' /\ Grown /\ Distinct' /\ \A v \in Threads \ {t} : JobOK(v)'
        /\ at'[t] = "book" /\ job'[t].user = u /\ job'[t].kind = c /\ UNCHANGED data
    BY <1>1, <1>2, Begun
  <1>4. Role[u] # "consultancy_owner" => Home("application", c)
    BY <1>1, StaffHaveRoles DEF OpensCase, BooksFor, Home, Roles
  <1>5. JobOK(t)'
    BY <1>3, <1>4 DEF JobOK, Writes, Announces, Reads, Announcers, Home, data
  <1>. QED
    BY <1>3, <1>5 DEF Kept, JobsOK

LEMMA BeginMoveStep ==
  ASSUME Typed, JobsOK, Distinct, NEW t \in Threads, BeginMove(t) PROVE Kept
  <1>1. PICK u \in Staff, k \in DOMAIN meetings :
          OpensMeeting(u, meetings[k]) /\ Begin(t, "move", u, "move", k)
    BY DEF BeginMove
  <1>2. u \in Users /\ "move" \in Kinds /\ "move" \in Steps \ Announcers /\ k \in Nat
    BY SeqIsFunction DEF Users, Kinds, Steps, Announcers, Typed, TablesTyped
  <1>3. /\ Typed' /\ Grown /\ Distinct' /\ \A v \in Threads \ {t} : JobOK(v)'
        /\ at'[t] = "move" /\ job'[t].which = k /\ UNCHANGED data
    BY <1>1, <1>2, Begun
  <1>4. JobOK(t)'
    BY <1>3 DEF JobOK, Writes, Announces, Reads, Announcers, data
  <1>. QED
    BY <1>3, <1>4 DEF Kept, JobsOK

LEMMA BeginInboxStep ==
  ASSUME Typed, JobsOK, Distinct, NEW t \in Threads, BeginMark(t) \/ BeginMarkAll(t) \/ BeginList(t)
  PROVE  Kept
  <1>1. PICK step \in {"mark", "mark-all", "list"}, k \in Nat :
          Begin(t, step, "student", step, k) /\ (step = "mark" => k \in DOMAIN inbox)
    <2>1. CASE BeginMark(t)
      <3>1. PICK k \in Unread(inbox) : Begin(t, "mark", "student", "mark", k)
        BY <2>1 DEF BeginMark
      <3>2. k \in DOMAIN inbox /\ DOMAIN inbox \subseteq Nat
        BY SeqIsFunction DEF Unread, Typed, TablesTyped, Boxes
      <3>. QED
        BY <3>1, <3>2
    <2>2. CASE BeginMarkAll(t)
      BY <2>2 DEF BeginMarkAll
    <2>3. CASE BeginList(t)
      BY <2>3 DEF BeginList
    <2>. QED
      BY <2>1, <2>2, <2>3
  <1>2. "student" \in Users /\ step \in Kinds /\ step \in Steps \ Announcers
    BY DEF Users, Kinds, Steps, Announcers
  <1>3. /\ Typed' /\ Grown /\ Distinct' /\ \A v \in Threads \ {t} : JobOK(v)'
        /\ at'[t] = step /\ job'[t].which = k /\ UNCHANGED data
        /\ job'[t].unread = Unread(inbox) /\ job'[t].seen = inbox
    BY <1>1, <1>2, Begun
  <1>4. JobOK(t)'
    BY <1>1, <1>3 DEF JobOK, Writes, Announces, Reads, ReadSince, Announcers, Unread, data
  <1>. QED
    BY <1>3, <1>4 DEF Kept, JobsOK

LEMMA BeginNotesStep ==
  ASSUME Typed, JobsOK, Distinct, NEW t \in Threads, BeginNote(t) \/ BeginEdit(t) \/ BeginDelete(t)
  PROVE  Kept
  <1>0. /\ DOMAIN notes \subseteq Nat
        /\ "note" \in Kinds /\ "edit" \in Kinds /\ "delete" \in Kinds
    BY SeqIsFunction DEF Typed, TablesTyped, Kinds
  <1>1. PICK step \in {"write", "edit", "delete"}, u \in Staff, kind \in Kinds, n \in Nat :
          Begin(t, step, u, kind, n)
    <2>1. CASE BeginNote(t)
      BY <1>0, <2>1 DEF BeginNote
    <2>2. CASE BeginEdit(t) \/ BeginDelete(t)
      BY <1>0, <2>2 DEF BeginEdit, BeginDelete, OpenOwnNote
    <2>. QED
      BY <2>1, <2>2
  <1>2. u \in Users /\ step \in Steps \ Announcers
    BY DEF Users, Steps, Announcers
  <1>3. /\ Typed' /\ Grown /\ Distinct' /\ \A v \in Threads \ {t} : JobOK(v)'
        /\ at'[t] = step /\ job'[t].user = u
    BY <1>1, <1>2, Begun
  <1>4. JobOK(t)'
    BY <1>3 DEF JobOK, Writes, Announces, Reads, Announcers
  <1>. QED
    BY <1>3, <1>4 DEF Kept, JobsOK

LEMMA BookStep ==
  ASSUME Typed, JobsOK, Distinct, NEW t \in Threads, Book(t) PROVE Kept
  <1>. DEFINE new == [by |-> job[t].user, counselor |-> job[t].kind, time |-> "set"]
  <1>1. /\ at[t] = "book" /\ meetings' = Append(meetings, new) /\ LateBy(job[t].user)
        /\ Continue(t, "notify", Len(meetings'))
        /\ UNCHANGED <<where, assigned, inbox, mails, notes, requests, faults>>
    BY DEF Book
  <1>2. new \in Meeting
    BY <1>1 DEF JobsOK, JobOK, Writes, Meeting
  <1>3. /\ meetings \in Seq(Meeting) /\ meetings' \in Seq(Meeting)
        /\ Len(meetings') \in Nat /\ DOMAIN meetings \subseteq DOMAIN meetings'
        /\ Len(meetings') \in DOMAIN meetings' /\ Len(meetings') \notin DOMAIN meetings
    BY <1>1, <1>2, AppendGrows DEF Typed, TablesTyped
  <1>4. /\ at' \in [Threads -> Steps] /\ job' \in [Threads -> Job] /\ at'[t] = "notify"
        /\ job'[t].which = Len(meetings')
        /\ \A u \in Threads \ {t} : at'[u] = at[u] /\ job'[u] = job[u]
    BY <1>1, <1>3, Continued DEF Typed, Steps
  <1>5. Grown /\ OnlyOwnNews(t)
    BY <1>1, <1>3 DEF Grown, OnlyOwnNews
  <1>6. Typed'
    <2>1. TablesTyped'
      BY <1>1, <1>3 DEF Typed, TablesTyped
    <2>. QED
      BY <1>1, <1>4, <2>1, LateTyped DEF Typed, JobsTyped
  <1>7. JobOK(t)'
    <2>1. \A k \in DOMAIN inbox : inbox[k].meeting # Len(meetings')
      BY <1>3 DEF Typed, TablesTyped
    <2>. QED
      BY <1>1, <1>3, <1>4, <2>1 DEF JobOK, Writes, Announces, Reads, Announcers
  <1>8. Distinct'
    <2>1. \A u \in Threads : at[u] \in Announcers => job[u].which \in DOMAIN meetings
      BY DEF JobsOK, JobOK, Announces
    <2>. QED
      BY <1>3, <1>4, <2>1 DEF Distinct
  <1>. QED
    BY <1>4, <1>5, <1>6, <1>7, <1>8, OthersKeepAll DEF Kept, JobsOK

(* An announcement goes on; only mails and faults may change.              *)
LEMMA AnnouncementGoesOn ==
  ASSUME Typed, JobsOK, Distinct, NEW t \in Threads, at[t] \in Announcers,
         NEW step \in {"mail", "confirm", "mail-only"}, Continue(t, step, job[t].which),
         UNCHANGED <<where, assigned, meetings, inbox, notes, late, requests>>,
         UNCHANGED faults \/ Strike, mails \subseteq mails',
         \A e \in mails' : e \in mails \/ e.meeting = job[t].which,
         step = "mail-only" => faults' > 0,
         step = "confirm" => faults' > 0 \/ \E e \in mails' : e.meeting = job[t].which
  PROVE  Kept
  <1>1. JobOK(t) /\ job[t].which \in DOMAIN meetings /\ job[t].which \in Nat
    BY SeqIsFunction DEF JobsOK, JobOK, Announces, Typed, TablesTyped
  <1>2. /\ at' \in [Threads -> Steps] /\ job' \in [Threads -> Job] /\ at'[t] = step
        /\ job'[t].which = job[t].which
        /\ \A u \in Threads \ {t} : at'[u] = at[u] /\ job'[u] = job[u]
    <2>1. step \in Steps
      BY DEF Steps
    <2>. QED
      BY <1>1, <2>1, Continued DEF Typed
  <1>3. faults' \in Nat /\ (faults > 0 => faults' > 0)
    BY FaultsCounted DEF Typed
  <1>4. Grown /\ OnlyOwnNews(t)
    BY <1>3 DEF Grown, OnlyOwnNews
  <1>5. Typed'
    BY <1>1, <1>2, <1>3 DEF Typed, TablesTyped, JobsTyped
  <1>6. JobOK(t)'
    BY <1>1, <1>2, <1>3 DEF JobOK, Writes, Announces, Reads, Announcers
  <1>7. Distinct'
    BY <1>2, DistinctKept
  <1>. QED
    BY <1>2, <1>4, <1>5, <1>6, <1>7, OthersKeepAll DEF Kept, JobsOK

LEMMA NotifyStep ==
  ASSUME Typed, JobsOK, Distinct, NEW t \in Threads, Notify(t) PROVE Kept
  <1>1. /\ at[t] \in Announcers /\ UNCHANGED <<data, late, requests>>
        /\ \/ Continue(t, "mail", job[t].which) /\ UNCHANGED faults
           \/ Continue(t, "mail-only", job[t].which) /\ Strike
    BY DEF Notify, Announcers
  <1>. QED
    BY <1>1, FaultsCounted, AnnouncementGoesOn DEF data, Typed

LEMMA MailStep ==
  ASSUME Typed, JobsOK, Distinct, NEW t \in Threads, Mail(t) PROVE Kept
  <1>1. /\ UNCHANGED <<where, assigned, meetings, inbox, notes, late, requests>>
        /\ \/ mails' = mails \cup {[meeting |-> job[t].which, time |-> "set"]} /\ UNCHANGED faults
           \/ Strike /\ UNCHANGED mails
    BY DEF Mail
  <1>2. /\ mails \subseteq mails' /\ (UNCHANGED faults \/ Strike)
        /\ \A e \in mails' : e \in mails \/ e.meeting = job[t].which
        /\ faults' > 0 \/ \E e \in mails' : e.meeting = job[t].which
    <2>. DEFINE new == [meeting |-> job[t].which, time |-> "set"]
    <2>1. CASE mails' = mails \cup {new} /\ UNCHANGED faults
      <3>1. new \in mails' /\ new.meeting = job[t].which
        BY <2>1
      <3>. QED
        BY <2>1, <3>1
    <2>2. CASE Strike /\ UNCHANGED mails
      BY <2>2, FaultsCounted DEF Typed
    <2>. QED
      BY <1>1, <2>1, <2>2
  <1>3. CASE at[t] = "mail"
    BY <1>1, <1>2, <1>3, AnnouncementGoesOn DEF Mail, Announcers
  <1>4. CASE at[t] = "mail-only" /\ End(t)
    <2>1. job[t].which \in DOMAIN meetings
      BY <1>4 DEF JobsOK, JobOK, Announces
    <2>2. faults' \in Nat /\ (faults > 0 => faults' > 0)
      BY <1>2, FaultsCounted DEF Typed
    <2>3. Grown /\ OnlyOwnNews(t)
      BY <1>1, <1>2, <2>2 DEF Grown, OnlyOwnNews
    <2>4. Typed'
      BY <1>1, <1>2, <1>4, <2>1, <2>2, Ended DEF Typed, TablesTyped, JobsTyped
    <2>. QED
      BY <1>4, <2>3, <2>4, EndKeeps DEF Kept
  <1>. QED
    BY <1>3, <1>4 DEF Mail

LEMMA ConfirmStep ==
  ASSUME Typed, JobsOK, Distinct, NEW t \in Threads, Confirm(t) PROVE Kept
  <1>. DEFINE new == [meeting |-> job[t].which, read |-> FALSE]
  <1>1. /\ at[t] = "confirm" /\ End(t)
        /\ UNCHANGED <<where, assigned, meetings, mails, notes, late, requests>>
        /\ (UNCHANGED faults \/ Strike)
        /\ inbox' = Append(inbox, new) \/ UNCHANGED inbox
    BY DEF Confirm
  <1>2. job[t].which \in DOMAIN meetings /\ new \in Notice
    BY <1>1, SeqIsFunction DEF JobsOK, JobOK, Announces, Announcers, Typed, TablesTyped, Notice
  <1>3. faults' \in Nat /\ (faults > 0 => faults' > 0)
    BY <1>1, FaultsCounted DEF Typed
  <1>4. /\ inbox' \in Boxes /\ \A k \in DOMAIN inbox : k \in DOMAIN inbox' /\ inbox'[k] = inbox[k]
        /\ \A k \in DOMAIN inbox' : k \in DOMAIN inbox \/ inbox'[k] = new
    <2>1. inbox \in Seq(Notice)
      BY DEF Typed, TablesTyped, Boxes
    <2>2. CASE inbox' = Append(inbox, new)
      BY <1>2, <2>1, <2>2, AppendGrows DEF Boxes
    <2>. QED
      BY <1>1, <2>1, <2>2 DEF Boxes
  <1>5. Grown /\ OnlyOwnNews(t)
    BY <1>1, <1>3, <1>4 DEF Grown, OnlyOwnNews, Announcers
  <1>6. \A k \in DOMAIN inbox' : inbox'[k].meeting \in DOMAIN meetings
    BY <1>2, <1>4 DEF Typed, TablesTyped
  <1>7. Typed'
    BY <1>1, <1>3, <1>4, <1>6, Ended DEF Typed, TablesTyped, JobsTyped
  <1>. QED
    BY <1>1, <1>5, <1>7, EndKeeps DEF Kept

(* A request ends with a write to the meetings, the inbox or the notes.    *)
LEMMA WriteEnds ==
  ASSUME Typed, JobsOK, Distinct, NEW t \in Threads, End(t),
         UNCHANGED <<where, assigned, mails, requests, faults>>, late' \in Nat,
         TablesTyped', Grown, DOMAIN inbox' = DOMAIN inbox
  PROVE  Kept
  <1>1. OnlyOwnNews(t)
    BY DEF OnlyOwnNews
  <1>2. JobsTyped'
    BY Ended DEF Typed, JobsTyped
  <1>. QED
    BY <1>1, <1>2, EndKeeps DEF Kept, Typed

LEMMA MoveStep ==
  ASSUME Typed, JobsOK, Distinct, NEW t \in Threads, Move(t) PROVE Kept
  <1>1. /\ meetings \in [1..Len(meetings) -> Meeting] /\ Len(meetings) \in Nat
        /\ DOMAIN meetings = 1..Len(meetings)
        /\ meetings' = [meetings EXCEPT ![job[t].which].time = "moved"]
        /\ UNCHANGED <<where, assigned, inbox, mails, notes, late, requests, faults>> /\ End(t)
    BY SeqIsFunction DEF Typed, TablesTyped, Move
  <1>2. meetings' \in [1..Len(meetings) -> Meeting]
    <2>1. \A m \in Meeting : [m EXCEPT !.time = "moved"] \in Meeting
      BY DEF Meeting
    <2>. QED
      BY <1>1, <2>1
  <1>3. meetings' \in Seq(Meeting) /\ DOMAIN meetings' = DOMAIN meetings
    BY <1>1, <1>2, FunctionIsSeq
  <1>4. TablesTyped' /\ Grown
    BY <1>1, <1>3 DEF Typed, TablesTyped, Grown
  <1>. QED
    BY <1>1, <1>4, WriteEnds DEF Typed, JobsTyped

(* Notices become read and nothing else.                                   *)
LEMMA MarkedBox ==
  ASSUME Typed, UNCHANGED <<where, assigned, meetings, mails, notes, faults>>, NEW chosen,
         inbox' = [k \in DOMAIN inbox |-> IF k \in chosen THEN [inbox[k] EXCEPT !.read = TRUE]
                                                          ELSE inbox[k]]
  PROVE  /\ TablesTyped' /\ Grown /\ DOMAIN inbox' = DOMAIN inbox
         /\ \A k \in DOMAIN inbox : k \in chosen => inbox'[k].read
  <1>1. /\ inbox \in [1..Len(inbox) -> Notice] /\ Len(inbox) \in Nat
        /\ DOMAIN inbox = 1..Len(inbox)
    BY SeqIsFunction DEF Typed, TablesTyped, Boxes
  <1>2. \A n \in Notice : /\ [n EXCEPT !.read = TRUE] \in Notice
                          /\ [n EXCEPT !.read = TRUE].read
                          /\ [n EXCEPT !.read = TRUE].meeting = n.meeting
    BY DEF Notice
  <1>3. /\ inbox' \in [1..Len(inbox) -> Notice] /\ DOMAIN inbox' = DOMAIN inbox
        /\ \A k \in DOMAIN inbox : /\ inbox'[k].meeting = inbox[k].meeting
                                   /\ inbox[k].read \/ k \in chosen => inbox'[k].read
    BY <1>1, <1>2
  <1>4. inbox' \in Boxes
    BY <1>1, <1>3, FunctionIsSeq DEF Boxes
  <1>5. TablesTyped'
    BY <1>3, <1>4 DEF Typed, TablesTyped
  <1>. QED
    BY <1>3, <1>5 DEF Grown

LEMMA MarkStep ==
  ASSUME Typed, JobsOK, Distinct, NEW t \in Threads, Mark(t) PROVE Kept
  <1>1. /\ UNCHANGED <<where, assigned, meetings, mails, notes, late, requests, faults>> /\ End(t)
        /\ inbox' = [inbox EXCEPT ![job[t].which].read = TRUE]
    BY DEF Mark
  <1>2. inbox' = [k \in DOMAIN inbox |-> IF k \in {job[t].which}
                                          THEN [inbox[k] EXCEPT !.read = TRUE] ELSE inbox[k]]
    BY <1>1
  <1>3. TablesTyped' /\ Grown /\ DOMAIN inbox' = DOMAIN inbox
    BY <1>1, <1>2, MarkedBox
  <1>. QED
    BY <1>1, <1>3, WriteEnds DEF Typed, JobsTyped

LEMMA MarkAllStep ==
  ASSUME Typed, JobsOK, Distinct, NEW t \in Threads, MarkAll(t) PROVE Kept
  <1>1. /\ UNCHANGED <<where, assigned, meetings, mails, notes, late, requests, faults>>
        /\ at[t] = "mark-all" /\ Continue(t, "answer", 0)
        /\ inbox' = [k \in DOMAIN inbox |-> IF k \in job[t].unread
                                             THEN [inbox[k] EXCEPT !.read = TRUE] ELSE inbox[k]]
    BY DEF MarkAll
  <1>2. /\ TablesTyped' /\ Grown /\ DOMAIN inbox' = DOMAIN inbox
        /\ \A k \in DOMAIN inbox : k \in job[t].unread => inbox'[k].read
    BY <1>1, MarkedBox
  <1>3. /\ at' \in [Threads -> Steps] /\ job' \in [Threads -> Job] /\ at'[t] = "answer"
        /\ job'[t].seen = job[t].seen
        /\ \A u \in Threads \ {t} : at'[u] = at[u] /\ job'[u] = job[u]
    <2>1. "answer" \in Steps
      BY DEF Steps
    <2>. QED
      BY <1>1, <2>1, Continued DEF Typed
  <1>4. Typed'
    BY <1>1, <1>2, <1>3 DEF Typed, JobsTyped
  <1>5. ASSUME NEW k \in DOMAIN job[t].seen PROVE k \in DOMAIN inbox' /\ inbox'[k].read
    <2>1. /\ job[t].unread = Unread(job[t].seen) /\ k \in DOMAIN inbox
          /\ job[t].seen[k].read => inbox[k].read
      BY <1>1 DEF JobsOK, JobOK, Reads, ReadSince
    <2>2. job[t].seen[k].read \/ k \in job[t].unread
      BY <2>1 DEF Unread
    <2>. QED
      BY <1>2, <2>1, <2>2 DEF Grown
  <1>6. JobOK(t)'
    BY <1>3, <1>5 DEF JobOK, Writes, Announces, Reads, Announcers
  <1>7. OnlyOwnNews(t) /\ Distinct'
    BY <1>2, <1>3, DistinctKept DEF OnlyOwnNews, Announcers
  <1>. QED
    BY <1>2, <1>3, <1>4, <1>6, <1>7, OthersKeepAll DEF Kept, JobsOK

LEMMA WriteNoteStep ==
  ASSUME Typed, JobsOK, Distinct, NEW t \in Threads, WriteNote(t) PROVE Kept
  <1>. DEFINE new == [author |-> job[t].user, deleted |-> FALSE]
  <1>1. /\ at[t] = "write" /\ notes' = Append(notes, new) /\ LateBy(job[t].user) /\ End(t)
        /\ UNCHANGED <<where, assigned, meetings, inbox, mails, requests, faults>>
    BY DEF WriteNote
  <1>2. new \in Note
    BY <1>1 DEF JobsOK, JobOK, Writes, Note
  <1>3. /\ notes' \in Seq(Note)
        /\ \A n \in DOMAIN notes : n \in DOMAIN notes' /\ notes'[n] = notes[n]
    BY <1>1, <1>2, AppendGrows DEF Typed, TablesTyped
  <1>4. TablesTyped' /\ Grown
    BY <1>1, <1>3 DEF Typed, TablesTyped, Grown
  <1>. QED
    BY <1>1, <1>4, LateTyped, WriteEnds

LEMMA DeleteStep ==
  ASSUME Typed, JobsOK, Distinct, NEW t \in Threads, Delete(t) PROVE Kept
  <1>1. /\ notes \in [1..Len(notes) -> Note] /\ Len(notes) \in Nat /\ DOMAIN notes = 1..Len(notes)
        /\ notes' = [notes EXCEPT ![job[t].which].deleted = TRUE] /\ LateBy(job[t].user)
        /\ UNCHANGED <<where, assigned, meetings, inbox, mails, requests, faults>> /\ End(t)
    BY SeqIsFunction DEF Typed, TablesTyped, Delete
  <1>2. \A n \in Note : [n EXCEPT !.deleted = TRUE] \in Note /\ [n EXCEPT !.deleted = TRUE].deleted
    BY DEF Note
  <1>3. /\ notes' \in [1..Len(notes) -> Note] /\ DOMAIN notes' = DOMAIN notes
        /\ \A n \in DOMAIN notes : notes[n].deleted => notes'[n].deleted
    BY <1>1, <1>2
  <1>4. notes' \in Seq(Note)
    BY <1>1, <1>3, FunctionIsSeq
  <1>5. TablesTyped' /\ Grown
    BY <1>1, <1>3, <1>4 DEF Typed, TablesTyped, Grown
  <1>. QED
    BY <1>1, <1>5, LateTyped, WriteEnds

LEMMA ReassignStep ==
  ASSUME Typed, JobsOK, Distinct, Reassign PROVE Kept
  <1>1. /\ UNCHANGED <<where, meetings, inbox, mails, notes, at, job, faults>>
        /\ assigned' \in Counselors /\ late' = 0 /\ requests' = requests + 1
    BY DEF Reassign
  <1>2. Grown /\ Distinct'
    BY <1>1 DEF Grown, Distinct
  <1>3. Typed'
    BY <1>1 DEF Typed, TablesTyped, JobsTyped
  <1>4. JobsOK'
    BY <1>1, <1>2, OthersKeep DEF JobsOK
  <1>. QED
    BY <1>2, <1>3, <1>4 DEF Kept

LEMMA StepKeeps ==
  ASSUME Typed, JobsOK, Distinct, [Next]_vars PROVE Kept
  <1>1. CASE UNCHANGED vars
    <2>1. UNCHANGED data /\ UNCHANGED <<at, job, late, requests, faults>>
      BY <1>1 DEF vars
    <2>2. TablesTyped' /\ Grown /\ Distinct'
      BY <2>1, DataStays DEF Distinct
    <2>3. Typed'
      BY <2>1, <2>2 DEF Typed, JobsTyped
    <2>4. JobsOK'
      BY <2>1, <2>2, OthersKeep DEF JobsOK, data
    <2>. QED
      BY <2>2, <2>3, <2>4 DEF Kept
  <1>2. ASSUME NEW t \in Threads, Step(t) PROVE Kept
    BY <1>2, QuietStep, BeginMeetingStep, BeginMoveStep, BeginInboxStep, BeginNotesStep, BookStep,
      NotifyStep, MailStep, ConfirmStep, MoveStep, MarkStep, MarkAllStep, WriteNoteStep,
      DeleteStep DEF Step
  <1>. QED
    BY <1>1, <1>2, ReassignStep DEF Next

LEMMA InitHolds == Init => Typed /\ JobsOK /\ Distinct
  <1>. SUFFICES ASSUME Init PROVE Typed /\ JobsOK /\ Distinct
    OBVIOUS
  <1>1. /\ meetings \in Seq(Meeting) /\ inbox \in Boxes /\ notes \in Seq(Note)
        /\ DOMAIN meetings = {} /\ DOMAIN inbox = {} /\ mails = {}
        /\ where \in [{"student", "application"} -> Branches] /\ assigned \in Counselors
    BY DEF Init, Boxes
  <1>2. /\ at \in [Threads -> Steps] /\ job \in [Threads -> Job]
        /\ late = 0 /\ requests = 0 /\ faults = 0
    BY NoJobTyped DEF Init, Steps
  <1>3. \A t \in Threads : at[t] = "idle"
    BY DEF Init
  <1>. QED
    BY <1>1, <1>2, <1>3 DEF Typed, TablesTyped, JobsTyped, JobsOK, JobOK, Writes, Announces,
      Reads, Announcers, Distinct

LEMMA OnlyOneThread ==
  ASSUME JobsTyped, NEW t \in Threads, Step(t)
  PROVE  \A u \in Threads \ {t} : at'[u] = at[u] /\ job'[u] = job[u]
  <1>1. \/ \E step, user, kind, which : Begin(t, step, user, kind, which)
        \/ End(t)
        \/ \E step, which : Continue(t, step, which)
    <2>1. CASE BeginMeeting(t) \/ BeginMove(t) \/ BeginMark(t) \/ BeginMarkAll(t) \/ BeginList(t)
                 \/ BeginNote(t) \/ BeginEdit(t) \/ BeginDelete(t)
      BY <2>1 DEF BeginMeeting, BeginMove, BeginMark, BeginMarkAll, BeginList, BeginNote,
        BeginEdit, BeginDelete, OpenOwnNote
    <2>2. CASE CommitFails(t) \/ Move(t) \/ Mark(t) \/ AnswerMarkAll(t) \/ AnswerList(t)
                 \/ WriteNote(t) \/ Edit(t) \/ Delete(t) \/ Confirm(t)
      BY <2>2 DEF CommitFails, Move, Mark, AnswerMarkAll, AnswerList, WriteNote, Edit, Delete,
        Confirm
    <2>3. CASE Book(t) \/ Notify(t) \/ Mail(t) \/ MarkAll(t)
      BY <2>3 DEF Book, Notify, Mail, MarkAll
    <2>. QED
      BY <2>1, <2>2, <2>3 DEF Step
  <1>2. at \in [Threads -> Steps] /\ job \in [Threads -> Job]
    BY DEF JobsTyped
  <1>. QED
    BY <1>1, <1>2 DEF Begin, End, Continue

-----------------------------------------------------------------------------
(* What the student hears                                                  *)

InboxOnce == \A i, k \in DOMAIN inbox : inbox[i].meeting = inbox[k].meeting => i = k

Heard(k) == faults > 0 \/ ((\E e \in mails : e.meeting = k)
                             /\ (\E i \in DOMAIN inbox : inbox[i].meeting = k))

Announced == \A k \in DOMAIN meetings : Announcing(k) \/ Heard(k)

LEMMA InboxOnceStep ==
  ASSUME Typed, JobsOK, Distinct, InboxOnce, [Next]_vars PROVE InboxOnce'
  <1>1. CASE UNCHANGED vars \/ Reassign
    BY <1>1 DEF vars, data, Reassign, InboxOnce
  <1>2. ASSUME NEW t \in Threads, Confirm(t) PROVE InboxOnce'
    <2>. DEFINE new == [meeting |-> job[t].which, read |-> FALSE]
    <2>1. /\ job[t].which \in Nat /\ \A k \in DOMAIN inbox : inbox[k].meeting # job[t].which
          /\ inbox' = Append(inbox, new) \/ UNCHANGED inbox
      BY <1>2, SeqIsFunction DEF Confirm, JobsOK, JobOK, Announces, Announcers, Typed, TablesTyped
    <2>2. CASE inbox' = Append(inbox, new)
      <3>1. new \in Notice /\ inbox \in Seq(Notice)
        BY <2>1 DEF Notice, Typed, TablesTyped, Boxes
      <3>2. /\ \A k \in DOMAIN inbox' : k \in DOMAIN inbox \/ k = Len(inbox) + 1
            /\ \A k \in DOMAIN inbox : inbox'[k] = inbox[k]
            /\ inbox'[Len(inbox) + 1] = new
        BY <2>2, <3>1, AppendGrows
      <3>3. inbox'[Len(inbox) + 1].meeting = job[t].which
        BY <3>2
      <3>. QED
        BY <2>1, <3>2, <3>3 DEF InboxOnce
    <2>3. CASE UNCHANGED inbox
      BY <2>3 DEF InboxOnce
    <2>. QED
      BY <2>1, <2>2, <2>3
  <1>3. ASSUME NEW t \in Threads, Step(t), ~Confirm(t) PROVE DOMAIN inbox' = DOMAIN inbox
    <2>1. CASE Mark(t) \/ MarkAll(t)
      BY <2>1 DEF Mark, MarkAll
    <2>2. CASE ~(Mark(t) \/ MarkAll(t))
      BY <1>3, <2>2 DEF Step, CommitFails, BeginMeeting, BeginMove, BeginMark, BeginMarkAll,
        BeginList, BeginNote, BeginEdit, BeginDelete, OpenOwnNote, Begin, Book, Notify, Mail, Move,
        AnswerMarkAll, AnswerList, WriteNote, Edit, Delete, data
    <2>. QED
      BY <2>1, <2>2
  <1>4. ASSUME NEW t \in Threads, Step(t), ~Confirm(t) PROVE InboxOnce'
    <2>1. \A k \in DOMAIN inbox' : k \in DOMAIN inbox /\ inbox'[k].meeting = inbox[k].meeting
      BY <1>3, <1>4, StepKeeps DEF Kept, Grown, Next
    <2>. QED
      BY <2>1 DEF InboxOnce
  <1>. QED
    BY <1>1, <1>2, <1>4 DEF Next

(* A meeting stays announced or heard of while no thread drops it.         *)
LEMMA AnnouncedKept ==
  ASSUME Typed, Announced, Grown, NEW t \in Threads,
         \A u \in Threads \ {t} : at'[u] = at[u] /\ job'[u] = job[u],
         NEW k \in DOMAIN meetings,
         at[t] \in Announcers \cup {"mail-only"} /\ job[t].which = k =>
           \/ at'[t] \in Announcers \cup {"mail-only"} /\ job'[t].which = k
           \/ Heard(k)'
  PROVE  Announcing(k)' \/ Heard(k)'
  <1>1. CASE Heard(k)
    BY <1>1 DEF Heard, Grown
  <1>2. CASE Announcing(k)
    BY <1>2 DEF Announcing, Announcers
  <1>. QED
    BY <1>1, <1>2 DEF Announced

LEMMA AnnouncedStep ==
  ASSUME Typed, JobsOK, Distinct, Announced, [Next]_vars PROVE Announced'
  <1>0. Grown /\ JobsOK' /\ Typed'
    BY StepKeeps DEF Kept
  <1>1. CASE UNCHANGED vars \/ Reassign
    <2>1. UNCHANGED <<meetings, inbox, mails, at, job, faults>>
      BY <1>1 DEF vars, data, Reassign
    <2>. QED
      BY <2>1 DEF Announced, Announcing, Heard
  <1>2. ASSUME NEW t \in Threads, Step(t) PROVE Announced'
    <2>0. \A u \in Threads \ {t} : at'[u] = at[u] /\ job'[u] = job[u]
      BY <1>2, OnlyOneThread DEF Typed
    <2>1. CASE Book(t)
      <3>1. /\ at'[t] = "notify" /\ job'[t].which = Len(meetings') /\ at[t] = "book"
            /\ \A k \in DOMAIN meetings' : k \in DOMAIN meetings \/ k = Len(meetings')
        <4>. DEFINE new == [by |-> job[t].user, counselor |-> job[t].kind, time |-> "set"]
        <4>1. /\ at[t] = "book" /\ meetings' = Append(meetings, new)
              /\ Continue(t, "notify", Len(meetings'))
          BY <2>1 DEF Book
        <4>2. new \in Meeting /\ meetings \in Seq(Meeting)
          BY <4>1 DEF JobsOK, JobOK, Writes, Meeting, Typed, TablesTyped
        <4>3. /\ \A k \in DOMAIN meetings' : k \in DOMAIN meetings \/ k = Len(meetings')
              /\ Len(meetings') \in Nat /\ "notify" \in Steps
          BY <4>1, <4>2, AppendGrows DEF Steps
        <4>. QED
          BY <4>1, <4>3, Continued DEF Typed
      <3>2. \A k \in DOMAIN meetings : Announcing(k)' \/ Heard(k)'
        BY <1>0, <2>0, <3>1, AnnouncedKept DEF Announcers
      <3>3. Announcing(Len(meetings))'
        BY <3>1 DEF Announcing
      <3>4. ASSUME NEW k \in DOMAIN meetings' PROVE Announcing(k)' \/ Heard(k)'
        BY <3>1, <3>2 DEF Announcing
      <3>. QED
        BY <3>4 DEF Announced
    <2>2. CASE ~Book(t)
      <3>1. DOMAIN meetings' = DOMAIN meetings
        <4>1. CASE Move(t)
          BY <4>1 DEF Move
        <4>2. CASE ~Move(t)
          BY <1>2, <2>2, <4>2 DEF Step, CommitFails, BeginMeeting, BeginMove, BeginMark,
            BeginMarkAll, BeginList, BeginNote, BeginEdit, BeginDelete, OpenOwnNote, Begin, Notify,
            Mail, Confirm, Mark, MarkAll, AnswerMarkAll, AnswerList, WriteNote, Edit, Delete, data
        <4>. QED
          BY <4>1, <4>2
      <3>2. ASSUME at[t] \in Announcers \cup {"mail-only"}
            PROVE  \/ at'[t] \in Announcers \cup {"mail-only"} /\ job'[t].which = job[t].which
                   \/ faults' > 0
                   \/ /\ \E e \in mails' : e.meeting = job[t].which
                      /\ \E i \in DOMAIN inbox' : inbox'[i].meeting = job[t].which
        <4>0. /\ (Notify(t) \/ Mail(t) \/ Confirm(t)) /\ job[t].which \in Nat
              /\ {"mail", "confirm", "mail-only"} \subseteq Steps /\ JobOK(t)
          BY <1>2, <2>2, <3>2, SeqIsFunction DEF Step, Announcers, JobsOK, JobOK, Announces, Steps,
            CommitFails, BeginMeeting, BeginMove, BeginMark, BeginMarkAll, BeginList, BeginNote,
            BeginEdit, BeginDelete, OpenOwnNote, Begin, Move, Mark, MarkAll, AnswerMarkAll,
            AnswerList, WriteNote, Edit, Delete, Typed, TablesTyped
        <4>1. CASE Notify(t)
          BY <4>0, <4>1, Continued DEF Notify, Announcers, Typed
        <4>2. CASE Mail(t) /\ at[t] = "mail"
          BY <4>0, <4>2, Continued DEF Mail, Announcers, Typed
        <4>3. CASE Mail(t) /\ at[t] = "mail-only"
          BY <1>0, <4>0, <4>3 DEF JobOK, Announces, Grown
        <4>4. CASE Confirm(t)
          <5>. DEFINE new == [meeting |-> job[t].which, read |-> FALSE]
          <5>1. CASE Strike
            BY <5>1, FaultsCounted DEF Typed
          <5>2. CASE inbox' = Append(inbox, new) /\ UNCHANGED faults
            <6>1. /\ new \in Notice /\ inbox \in Seq(Notice) /\ new.meeting = job[t].which
              BY <4>0 DEF Notice, Typed, TablesTyped, Boxes
            <6>2. \E i \in DOMAIN inbox' : inbox'[i].meeting = job[t].which
              BY <5>2, <6>1, AppendGrows
            <6>. QED
              BY <4>0, <4>4, <5>2, <6>2 DEF Confirm, JobOK, Announces
          <5>. QED
            BY <4>4, <5>1, <5>2 DEF Confirm
        <4>. QED
          BY <4>0, <4>1, <4>2, <4>3, <4>4 DEF Mail
      <3>3. ASSUME NEW k \in DOMAIN meetings PROVE Announcing(k)' \/ Heard(k)'
        BY <1>0, <2>0, <3>2, AnnouncedKept DEF Heard
      <3>. QED
        BY <3>1, <3>3 DEF Announced
    <2>. QED
      BY <2>1, <2>2
  <1>. QED
    BY <1>1, <1>2 DEF Next

LEMMA MeetingsHeard == Typed /\ InboxOnce /\ Announced => MeetingsAreAnnounced
  <1>. SUFFICES ASSUME Typed, InboxOnce, Announced PROVE MeetingsAreAnnounced
    OBVIOUS
  <1>1. /\ \A k \in DOMAIN meetings : meetings[k] \in Meeting
        /\ \A k \in DOMAIN inbox : inbox[k] \in Notice
        /\ \A n \in DOMAIN notes : notes[n] \in Note
    BY SeqIsFunction DEF Typed, TablesTyped, Boxes
  <1>2. \A k \in DOMAIN inbox : inbox[k] \in [meeting : DOMAIN meetings, read : BOOLEAN]
    BY <1>1 DEF Notice, Typed, TablesTyped
  <1>3. TypeOK
    BY <1>1, <1>2 DEF TypeOK, Typed, TablesTyped, JobsTyped, Meeting, Note
  <1>. QED
    BY <1>3 DEF MeetingsAreAnnounced, Typed, TablesTyped, InboxOnce, Announced, Heard

-----------------------------------------------------------------------------
(* What staff may list and write                                           *)

MeetingsNear ==
  \A k \in DOMAIN meetings :
    Role[meetings[k].by] # "consultancy_owner" => Home("application", meetings[k].counselor)

LEMMA MeetingsNearStep ==
  ASSUME Typed, JobsOK, Distinct, MeetingsNear, [Next]_vars PROVE MeetingsNear'
  <1>0. UNCHANGED where
    BY StepKeeps DEF Kept, Grown
  <1>1. ASSUME UNCHANGED meetings PROVE MeetingsNear'
    BY <1>0, <1>1 DEF MeetingsNear, Home
  <1>2. ASSUME NEW t \in Threads, Book(t) PROVE MeetingsNear'
    <2>. DEFINE new == [by |-> job[t].user, counselor |-> job[t].kind, time |-> "set"]
    <2>1. /\ meetings' = Append(meetings, new) /\ meetings \in Seq(Meeting)
          /\ job[t].user \in Staff /\ job[t].kind \in Counselors
          /\ Role[job[t].user] # "consultancy_owner" => Home("application", job[t].kind)
      BY <1>2 DEF Book, JobsOK, JobOK, Writes, Typed, TablesTyped
    <2>2. new \in Meeting /\ new.by = job[t].user /\ new.counselor = job[t].kind
      BY <2>1 DEF Meeting
    <2>3. /\ \A k \in DOMAIN meetings' : k \in DOMAIN meetings \/ k = Len(meetings) + 1
          /\ \A k \in DOMAIN meetings : meetings'[k] = meetings[k]
          /\ meetings'[Len(meetings) + 1] = new
      BY <2>1, <2>2, AppendGrows
    <2>4. ASSUME NEW k \in DOMAIN meetings', Role[meetings'[k].by] # "consultancy_owner"
          PROVE  Home("application", meetings'[k].counselor)
      BY <2>1, <2>2, <2>3, <2>4 DEF MeetingsNear
    <2>. QED
      BY <1>0, <2>4 DEF MeetingsNear, Home
  <1>3. ASSUME NEW t \in Threads, Move(t) PROVE MeetingsNear'
    <2>1. \A k \in DOMAIN meetings : meetings[k] \in Meeting
      BY SeqIsFunction DEF Typed, TablesTyped
    <2>2. /\ DOMAIN meetings' = DOMAIN meetings
          /\ \A k \in DOMAIN meetings : /\ meetings'[k].by = meetings[k].by
                                        /\ meetings'[k].counselor = meetings[k].counselor
      BY <1>3, <2>1 DEF Move, Meeting
    <2>. QED
      BY <1>0, <2>2 DEF MeetingsNear, Home
  <1>4. CASE UNCHANGED vars \/ Reassign
    BY <1>1, <1>4 DEF vars, data, Reassign
  <1>5. ASSUME NEW t \in Threads, Step(t), ~Book(t), ~Move(t) PROVE MeetingsNear'
    BY <1>1, <1>5 DEF Step, CommitFails, BeginMeeting, BeginMove, BeginMark, BeginMarkAll,
      BeginList, BeginNote, BeginEdit, BeginDelete, OpenOwnNote, Begin, Notify, Mail, Confirm,
      Mark, MarkAll, AnswerMarkAll, AnswerList, WriteNote, Edit, Delete, data
  <1>. QED
    BY <1>2, <1>3, <1>4, <1>5 DEF Next

LEMMA ListsAgree == Typed /\ MeetingsNear => ListsAgreeWithChecks
  <1>. SUFFICES ASSUME Typed, MeetingsNear PROVE ListsAgreeWithChecks
    OBVIOUS
  <1>1. ASSUME NEW u \in Staff
        PROVE  /\ ListsNotes(u) <=> ReachesStudent(u)
               /\ ListsNotesOfStudent(u) <=> ListsNotes(u)
               /\ ListsApplication(u) <=> OpensCase(u)
               /\ ListsApplication(u) <=> ReadsChecklist(u)
    BY StaffHaveRoles DEF ListsNotes, ReachesStudent, ListsNotesOfStudent, ListsApplication,
      OpensCase, ReadsChecklist, Roles
  <1>2. ASSUME NEW u \in Staff, NEW m, ListsMeeting(u, m) PROVE OpensMeeting(u, m)
    BY <1>2 DEF ListsMeeting, OpensMeeting
  <1>3. ASSUME NEW k \in DOMAIN meetings, Role[meetings[k].by] # "consultancy_owner"
        PROVE  ListsMeeting(meetings[k].counselor, meetings[k])
    <2>1. meetings \in Seq(Meeting)
      BY DEF Typed, TablesTyped
    <2>2. meetings[k] \in Meeting
      BY <2>1, SeqIsFunction
    <2>3. meetings[k].counselor \in Counselors
      BY <2>2 DEF Meeting
    <2>. QED
      BY <1>3, <2>3, StaffHaveRoles DEF MeetingsNear, ListsMeeting
  <1>. QED
    BY <1>1, <1>2, <1>3 DEF ListsAgreeWithChecks

(* Each write in flight by a counselor who lost the application may still  *)
(* come late, and none of the requests to come will.                       *)
CaseWrites == {"book", "write", "edit", "delete"}
LateSet ==
  {t \in Threads : /\ at[t] \in CaseWrites
                   /\ Role[job[t].user] = "counselor" /\ job[t].user # assigned}
LateInv == late + Cardinality(LateSet) <= Cardinality(Threads)

LEMMA LateSetCounted ==
  /\ IsFiniteSet(LateSet) /\ Cardinality(LateSet) \in Nat
  /\ Cardinality(LateSet) <= Cardinality(Threads)
  <1>1. LateSet \subseteq Threads
    BY DEF LateSet
  <1>. QED
    BY <1>1, Counted, FS_Subset, FS_CardinalityType

LEMMA NoMoreLate ==
  ASSUME Typed, LateInv, UNCHANGED late, LateSet' \subseteq LateSet PROVE LateInv'
  <1>1. Cardinality(LateSet') <= Cardinality(LateSet) /\ Cardinality(LateSet') \in Nat
    BY LateSetCounted, FS_Subset, FS_CardinalityType
  <1>. QED
    BY <1>1, LateSetCounted, Counted DEF LateInv, Typed, JobsTyped

LEMMA OneMoreLate ==
  ASSUME Typed, LateInv, NEW t \in LateSet, late' = late + 1, LateSet' \subseteq LateSet \ {t}
  PROVE  LateInv'
  <1>1. /\ IsFiniteSet(LateSet \ {t}) /\ Cardinality(LateSet \ {t}) = Cardinality(LateSet) - 1
    BY LateSetCounted, FS_RemoveElement
  <1>2. /\ Cardinality(LateSet') <= Cardinality(LateSet) - 1 /\ Cardinality(LateSet') \in Nat
    BY <1>1, FS_Subset, FS_CardinalityType
  <1>. QED
    BY <1>2, LateSetCounted, Counted DEF LateInv, Typed, JobsTyped

LEMMA WriteStep ==
  ASSUME Typed, LateInv, NEW t \in Threads, at[t] \in CaseWrites, at'[t] \notin CaseWrites,
         \A u \in Threads \ {t} : at'[u] = at[u] /\ job'[u] = job[u],
         UNCHANGED assigned, UNCHANGED late \/ LateBy(job[t].user)
  PROVE  LateInv'
  <1>1. LateSet' \subseteq LateSet \ {t}
    BY DEF LateSet
  <1>2. CASE UNCHANGED late
    BY <1>1, <1>2, NoMoreLate
  <1>3. CASE late' = late + 1 /\ t \in LateSet
    BY <1>1, <1>3, OneMoreLate
  <1>. QED
    BY <1>2, <1>3 DEF LateBy, LateSet

LEMMA BeginIsNotLate ==
  ASSUME JobsTyped, NEW t \in Threads,
         BeginMeeting(t) \/ BeginNote(t) \/ BeginEdit(t) \/ BeginDelete(t)
  PROVE  Role[job'[t].user] = "counselor" => job'[t].user = assigned
  <1>. DEFINE Started(u) == \E step, kind, which : Begin(t, step, u, kind, which)
  <1>1. ASSUME NEW u, Started(u) PROVE job'[t].user = u
    BY <1>1 DEF Begin, JobsTyped
  <1>2. CASE BeginMeeting(t)
    <2>1. PICK u \in Staff : OpensCase(u) /\ Started(u)
      BY <1>2 DEF BeginMeeting
    <2>. QED
      BY <1>1, <2>1 DEF OpensCase
  <1>3. CASE BeginNote(t) \/ BeginEdit(t) \/ BeginDelete(t)
    <2>1. PICK u \in Staff : ReachesStudent(u) /\ Started(u)
      BY <1>3 DEF BeginNote, BeginEdit, BeginDelete, OpenOwnNote
    <2>. QED
      BY <1>1, <2>1 DEF ReachesStudent
  <1>. QED
    BY <1>2, <1>3

LEMMA LateStep ==
  ASSUME Typed, JobsOK, Distinct, LateInv, [Next]_vars PROVE LateInv'
  <1>1. CASE UNCHANGED vars
    BY <1>1 DEF vars, data, LateInv, LateSet
  <1>2. CASE Reassign
    <2>1. late' = 0 /\ UNCHANGED <<at, job>>
      BY <1>2 DEF Reassign
    <2>2. LateSet' \subseteq Threads
      BY DEF LateSet
    <2>. QED
      BY <2>1, <2>2, Counted, FS_Subset, FS_CardinalityType DEF LateInv
  <1>3. ASSUME NEW t \in Threads, Step(t) PROVE LateInv'
    <2>0. /\ \A u \in Threads \ {t} : at'[u] = at[u] /\ job'[u] = job[u]
          /\ at'[t] \in Steps /\ JobsTyped
      BY <1>3, OnlyOneThread, StepKeeps DEF Typed, JobsTyped, Kept, Next
    <2>1. CASE Book(t) \/ WriteNote(t) \/ Edit(t) \/ Delete(t)
      <3>1. at[t] \in CaseWrites /\ UNCHANGED assigned /\ (UNCHANGED late \/ LateBy(job[t].user))
        BY <2>1 DEF Book, WriteNote, Edit, Delete, CaseWrites, data
      <3>2. at'[t] \in {"idle", "notify"}
        BY <2>0, <2>1 DEF Book, WriteNote, Edit, Delete, End, Continue, JobsTyped
      <3>. QED
        BY <2>0, <3>1, <3>2, WriteStep DEF CaseWrites
    <2>2. CASE BeginMeeting(t) \/ BeginNote(t) \/ BeginEdit(t) \/ BeginDelete(t)
      <3>1. UNCHANGED <<late, assigned>>
        BY <2>2 DEF BeginMeeting, BeginNote, BeginEdit, BeginDelete, OpenOwnNote, Begin, data
      <3>2. LateSet' \subseteq LateSet
        BY <2>0, <2>2, <3>1, BeginIsNotLate DEF LateSet
      <3>. QED
        BY <3>1, <3>2, NoMoreLate
    <2>3. CASE \/ CommitFails(t) \/ Notify(t) \/ Mail(t) \/ Confirm(t)
               \/ BeginMove(t) \/ Move(t) \/ BeginMark(t) \/ Mark(t) \/ BeginMarkAll(t)
               \/ MarkAll(t) \/ AnswerMarkAll(t) \/ BeginList(t) \/ AnswerList(t)
      <3>1. UNCHANGED <<late, assigned>>
        BY <2>3 DEF CommitFails, Notify, Mail, Confirm, BeginMove, Move, BeginMark, Mark,
          BeginMarkAll, MarkAll, AnswerMarkAll, BeginList, AnswerList, Begin, data
      <3>2. at'[t] \notin CaseWrites
        <4>1. CASE CommitFails(t) \/ Notify(t) \/ Mail(t) \/ Confirm(t) \/ Move(t)
          BY <2>0, <4>1 DEF CommitFails, Notify, Mail, Confirm, Move, End, Continue, JobsTyped,
            CaseWrites
        <4>2. CASE Mark(t) \/ MarkAll(t) \/ AnswerMarkAll(t) \/ AnswerList(t)
          BY <2>0, <4>2 DEF Mark, MarkAll, AnswerMarkAll, AnswerList, End, Continue, JobsTyped,
            CaseWrites
        <4>3. CASE BeginMove(t) \/ BeginMark(t) \/ BeginMarkAll(t) \/ BeginList(t)
          BY <2>0, <4>3 DEF BeginMove, BeginMark, BeginMarkAll, BeginList, Begin, JobsTyped,
            CaseWrites
        <4>. QED
          BY <2>3, <4>1, <4>2, <4>3
      <3>3. LateSet' \subseteq LateSet
        BY <2>0, <3>1, <3>2 DEF LateSet
      <3>. QED
        BY <3>1, <3>3, NoMoreLate
    <2>. QED
      BY <1>3, <2>1, <2>2, <2>3 DEF Step
  <1>. QED
    BY <1>1, <1>2, <1>3 DEF Next

LEMMA LateInit == Init => LateInv
  <1>. SUFFICES ASSUME Init PROVE LateInv
    OBVIOUS
  <1>1. late = 0
    BY DEF Init
  <1>. QED
    BY <1>1, LateSetCounted, Counted DEF LateInv

LEMMA LateBounded == Typed /\ LateInv => LateWritesAreBounded
  BY LateSetCounted, Counted DEF LateInv, LateWritesAreBounded, Typed, JobsTyped

-----------------------------------------------------------------------------
(* What the inbox answers                                                  *)

LEMMA AnswersHonest ==
  ASSUME JobsOK, NEW t \in Threads
  PROVE  /\ at[t] = "answer" => \A k \in Unread(inbox) : k \notin DOMAIN job[t].seen
         /\ at[t] = "list" /\ inbox = job[t].seen => job[t].unread = Unread(inbox)
  BY DEF JobsOK, JobOK, Reads, Unread

-----------------------------------------------------------------------------
Inv == Typed /\ JobsOK /\ Distinct

LEMMA Invariant == Spec => []Inv
  <1>1. Init => Inv
    BY InitHolds DEF Inv
  <1>2. Inv /\ [Next]_vars => Inv'
    BY StepKeeps DEF Inv, Kept
  <1>. QED
    BY <1>1, <1>2, PTL DEF Spec

(* However bookings, failing commits and mails overlap, the student hears  *)
(* of committed meetings only, at most once of each in the inbox, and of   *)
(* every one by mail and inbox unless something failed on the way.         *)
THEOREM MeetingsAnnounced == Spec => []MeetingsAreAnnounced
  <1>1. Init => InboxOnce /\ Announced
    BY DEF Init, InboxOnce, Announced
  <1>2. Inv /\ InboxOnce /\ [Next]_vars => InboxOnce'
    BY InboxOnceStep DEF Inv
  <1>3. Inv /\ Announced /\ [Next]_vars => Announced'
    BY AnnouncedStep DEF Inv
  <1>4. Inv /\ InboxOnce /\ Announced => MeetingsAreAnnounced
    BY MeetingsHeard DEF Inv
  <1>. QED
    BY <1>1, <1>2, <1>3, <1>4, Invariant, PTL DEF Spec

(* Lists and checks agree in every state, and however often the            *)
(* application is reassigned, the counselor it was taken from writes to it *)
(* no more often than there are threads.                                   *)
THEOREM AccessFollows == Spec => []AccessFollowsAssignment
  <1>1. Init => MeetingsNear /\ LateInv
    BY LateInit DEF Init, MeetingsNear
  <1>2. Inv /\ MeetingsNear /\ [Next]_vars => MeetingsNear'
    BY MeetingsNearStep DEF Inv
  <1>3. Inv /\ LateInv /\ [Next]_vars => LateInv'
    BY LateStep DEF Inv
  <1>4. Inv /\ MeetingsNear /\ LateInv => AccessFollowsAssignment
    BY ListsAgree, LateBounded DEF Inv, AccessFollowsAssignment
  <1>. QED
    BY <1>1, <1>2, <1>3, <1>4, Invariant, PTL DEF Spec

(* What marking all answers as unread came after its select, and a list    *)
(* whose inbox did not change counts what it shows.                        *)
THEOREM InboxHonest == Spec => InboxAnswersAreHonest
  <1>. DEFINE Honest == \A t \in Threads :
                /\ at[t] = "answer" /\ at'[t] = "idle"
                     => \A k \in Unread(inbox) : k \notin DOMAIN job[t].seen
                /\ at[t] = "list" /\ at'[t] = "idle" /\ inbox = job[t].seen
                     => job[t].unread = Unread(inbox)
  <1>1. Inv /\ [Next]_vars => [Honest]_vars
    BY AnswersHonest DEF Inv
  <1>2. Spec => [][Honest]_vars
    BY <1>1, Invariant, PTL DEF Spec
  <1>. QED
    BY <1>2 DEF InboxAnswersAreHonest

(* A deleted note stays deleted, also under an edit that was opened before. *)
THEOREM DeletedStay == Spec => DeletedNotesStayDeleted
  <1>. DEFINE Gone == \A n \in DOMAIN notes : notes[n].deleted => notes'[n].deleted
  <1>1. Inv /\ [Next]_vars => [Gone]_vars
    BY StepKeeps DEF Inv, Kept, Grown
  <1>2. Spec => [][Gone]_vars
    BY <1>1, Invariant, PTL DEF Spec
  <1>. QED
    BY <1>2 DEF DeletedNotesStayDeleted
==============================================================================
