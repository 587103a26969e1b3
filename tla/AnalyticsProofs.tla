-------------------------- MODULE AnalyticsProofs --------------------------
(***************************************************************************)
(* Theorems about Analytics, and with it about MasterCatalog, for any pool *)
(* of threads, any tenants, any valid demo catalog and anything entered    *)
(* before the server started.                                              *)
(***************************************************************************)
EXTENDS Analytics, FiniteSetTheorems, SequenceTheorems, TLAPS

\* A row that has a number already.
Old(r) == r \in 1..(9 + requests)

Shape ==
  /\ rows = [kind \in Kinds |-> rows[kind]]
  /\ at = [t \in Threads |-> at[t]] /\ job = [t \in Threads |-> job[t]]
  /\ requests \in 0..MaxRequests

Numbered == \A kind \in Kinds : \A r \in DOMAIN rows[kind] : Old(r)

Edits == {"create", "update", "delete"}

\* Nothing, or what was a row of the tenant, and still is unless it is gone.
MayBelong(kind, p, tn) ==
  p # None =>
    /\ kind \in DOMAIN ParentKind /\ Old(p)
    /\ p \in DOMAIN rows[ParentKind[kind]] => rows[ParentKind[kind]][p].tenant = tn

(* What a request about the catalog carries.                               *)
Edited(t) ==
  /\ at[t] \in Edits => job[t].kind \in Kinds
  /\ at[t] = "create" =>
       /\ job[t].tenant \in Tenants /\ Old(job[t].row)
       /\ \A kind \in Kinds : job[t].row \notin DOMAIN rows[kind]
       /\ MayBelong(job[t].kind, job[t].parent, job[t].tenant)
  /\ at[t] = "update" =>
       /\ Old(job[t].row)
       /\ \E tn \in Tenants :
            /\ job[t].row \in DOMAIN rows[job[t].kind] => rows[job[t].kind][job[t].row].tenant = tn
            /\ MayBelong(job[t].kind, job[t].parent, tn)

(* Nobody else names a row before it is there.                             *)
Apart ==
  \A t, u \in Threads : t # u /\ at[u] = "create" /\ at[t] \in {"create", "update"} =>
    job[t].row # job[u].row /\ job[t].parent # job[u].row

Sound == Shape /\ Numbered /\ (\A t \in Threads : Edited(t)) /\ Apart

-----------------------------------------------------------------------------
(* The steps of a request                                                  *)

Others(t) == \A u \in Threads \ {t} : at'[u] = at[u] /\ job'[u] = job[u]

LEMMA KindNames ==
  /\ Kinds = {"country", "university", "program", "template"}
  /\ DOMAIN ParentKind = {"university", "program", "template"}
  /\ ParentKind["university"] = "country" /\ ParentKind["program"] = "university"
  /\ ParentKind["template"] = "program"
  /\ \A kind \in DOMAIN ParentKind : ParentKind[kind] \in Kinds
  /\ DOMAIN ParentKind \subseteq Kinds
  BY DEF Kinds, ParentKind

LEMMA BoundIsNat == MaxRequests \in Nat
  BY CatalogAssumption

LEMMA Begun ==
  ASSUME Shape, NEW t \in Threads, NEW step, NEW request, Begin(t, step, request)
  PROVE  /\ at[t] = "idle" /\ at'[t] = step /\ job'[t] = request /\ Others(t)
         /\ at' = [u \in Threads |-> at'[u]] /\ job' = [u \in Threads |-> job'[u]]
         /\ requests' = requests + 1 /\ requests' \in 0..MaxRequests
  <1>1. requests' \in 0..MaxRequests
    BY BoundIsNat DEF Shape, Begin
  <1>. QED
    BY <1>1 DEF Shape, Begin, Others

LEMMA Gone ==
  ASSUME Shape, NEW t \in Threads, NEW step, NEW request, Go(t, step, request)
  PROVE  /\ at'[t] = step /\ job'[t] = request /\ Others(t)
         /\ at' = [u \in Threads |-> at'[u]] /\ job' = [u \in Threads |-> job'[u]]
         /\ requests' = requests
  BY DEF Shape, Go, Others

LEMMA Ended ==
  ASSUME Shape, NEW t \in Threads, End(t)
  PROVE  /\ at'[t] = "idle" /\ job'[t] = NoJob /\ Others(t)
         /\ at' = [u \in Threads |-> at'[u]] /\ job' = [u \in Threads |-> job'[u]]
         /\ requests' = requests
  BY Gone DEF End

LEMMA OldStays ==
  ASSUME Shape, requests' \in {requests, requests + 1}
  PROVE  \A r : Old(r) => Old(r)'
  BY BoundIsNat DEF Shape, Old

LEMMA NewIsNew ==
  ASSUME Shape, requests' = requests + 1
  PROVE  ~Old(NewId) /\ NewId \in 1..(9 + requests') /\ NewId # None
  BY BoundIsNat DEF Shape, Old, NewId, None

-----------------------------------------------------------------------------
(* Requests in flight keep what they carry                                 *)

\* All rows but one that thread t has just created were there before, for the same tenant.
Same(t) ==
  \A kind \in Kinds : \A r \in DOMAIN rows'[kind] :
    \/ r \in DOMAIN rows[kind] /\ rows'[kind][r].tenant = rows[kind][r].tenant
    \/ at[t] = "create" /\ r = job[t].row

LEMMA Carry ==
  ASSUME Sound, Shape', NEW t \in Threads, Others(t), Same(t),
         requests' \in {requests, requests + 1}, at'[t] \notin Edits
  PROVE  Sound'
  <1>1. \A r : Old(r) => Old(r)'
    BY OldStays DEF Sound
  <1>2. Numbered'
    BY <1>1 DEF Sound, Numbered, Same, Edited
  <1>3. ASSUME NEW u \in Threads PROVE Edited(u)'
    <2>1. CASE u = t
      BY <2>1 DEF Edited, Edits
    <2>2. CASE u # t
      <3>1. at'[u] = at[u] /\ job'[u] = job[u] /\ Edited(u)
        BY <2>2 DEF Others, Sound
      <3>2. ASSUME at[u] \in {"create", "update"}, NEW kind \in Kinds, NEW r \in DOMAIN rows'[kind],
                   r = job[u].row \/ r = job[u].parent
            PROVE  r \in DOMAIN rows[kind] /\ rows'[kind][r].tenant = rows[kind][r].tenant
        BY <2>2, <3>2 DEF Same, Sound, Apart
      <3>3. ASSUME at[u] \in {"create", "update"}, NEW tn,
                   MayBelong(job[u].kind, job[u].parent, tn)
            PROVE  MayBelong(job[u].kind, job[u].parent, tn)'
        BY <1>1, <3>1, <3>2, <3>3, KindNames DEF MayBelong
      <3>4. (at[u] \in Edits => job[u].kind \in Kinds)'
        BY <3>1 DEF Edited
      <3>5. ASSUME at[u] = "create"
            PROVE  /\ job'[u].tenant \in Tenants /\ Old(job[u].row)'
                   /\ \A kind \in Kinds : job'[u].row \notin DOMAIN rows'[kind]
                   /\ MayBelong(job[u].kind, job[u].parent, job[u].tenant)'
        BY <1>1, <3>1, <3>2, <3>3, <3>5 DEF Edited
      <3>6. ASSUME at[u] = "update"
            PROVE  /\ Old(job[u].row)'
                   /\ \E tn \in Tenants :
                        /\ job'[u].row \in DOMAIN rows'[job'[u].kind]
                             => rows'[job'[u].kind][job'[u].row].tenant = tn
                        /\ MayBelong(job[u].kind, job[u].parent, tn)'
        <4>1. PICK tn \in Tenants :
                /\ job[u].row \in DOMAIN rows[job[u].kind]
                     => rows[job[u].kind][job[u].row].tenant = tn
                /\ MayBelong(job[u].kind, job[u].parent, tn)
          BY <3>1, <3>6 DEF Edited
        <4>2. job[u].kind \in Kinds /\ Old(job[u].row)
          BY <3>1, <3>6 DEF Edited, Edits
        <4>3. MayBelong(job[u].kind, job[u].parent, tn)'
          BY <3>3, <3>6, <4>1
        <4>4. job'[u].row \in DOMAIN rows'[job'[u].kind]
                => rows'[job'[u].kind][job'[u].row].tenant = tn
          BY <3>1, <3>2, <3>6, <4>1, <4>2
        <4>. QED
          BY <1>1, <3>1, <4>2, <4>3, <4>4
      <3>. QED
        BY <3>1, <3>4, <3>5, <3>6 DEF Edited
    <2>. QED
      BY <2>1, <2>2
  <1>4. Apart'
    BY DEF Sound, Apart, Others, Edits
  <1>. QED
    BY <1>2, <1>3, <1>4 DEF Sound

(* A request about the catalog begins.                                     *)
LEMMA CarryNew ==
  ASSUME Sound, Shape', NEW t \in Threads, Others(t), rows' = rows, requests' = requests + 1,
         Edited(t)',
         at'[t] = "create" => job'[t].row = NewId,
         at'[t] = "update" => \E kind \in Kinds : job'[t].row \in DOMAIN rows[kind],
         at'[t] \in {"create", "update"} =>
           job'[t].parent = None \/ \E kind \in Kinds : job'[t].parent \in DOMAIN rows[kind]
  PROVE  Sound'
  <1>1. (\A r : Old(r) => Old(r)') /\ ~Old(NewId) /\ NewId # None
    BY OldStays, NewIsNew DEF Sound
  <1>2. Numbered'
    BY <1>1 DEF Sound, Numbered
  <1>3. ASSUME NEW u \in Threads PROVE Edited(u)'
    <2>1. CASE u # t
      <3>1. at'[u] = at[u] /\ job'[u] = job[u] /\ Edited(u)
        BY <2>1 DEF Others, Sound
      <3>2. ASSUME NEW tn, MayBelong(job[u].kind, job[u].parent, tn)
            PROVE  MayBelong(job[u].kind, job[u].parent, tn)'
        BY <1>1, <3>1, <3>2 DEF MayBelong
      <3>. QED
        BY <1>1, <3>1, <3>2 DEF Edited
    <2>. QED
      BY <2>1
  <1>4. ASSUME NEW u \in Threads, NEW v \in Threads, u # v, at'[v] = "create",
               at'[u] \in {"create", "update"}
        PROVE  job'[u].row # job'[v].row /\ job'[u].parent # job'[v].row
    <2>1. CASE u # t /\ v # t
      BY <1>4, <2>1 DEF Sound, Apart, Others
    <2>2. CASE u = t
      <3>1. at[v] = "create" /\ job'[v] = job[v] /\ Edited(v)
        BY <1>4, <2>2 DEF Others, Sound
      <3>2. /\ Old(job[v].row) /\ job[v].row # None
            /\ \A kind \in Kinds : job[v].row \notin DOMAIN rows[kind]
        BY <3>1 DEF Edited, Old, None
      <3>. QED
        BY <1>1, <1>4, <2>2, <3>1, <3>2
    <2>3. CASE v = t
      <3>1. at[u] \in {"create", "update"} /\ job'[u] = job[u] /\ Edited(u) /\ job'[v].row = NewId
        BY <1>4, <2>3 DEF Others, Sound
      <3>2. Old(job[u].row) /\ (job[u].parent = None \/ Old(job[u].parent))
        BY <3>1 DEF Edited, MayBelong
      <3>. QED
        BY <1>1, <3>1, <3>2
    <2>. QED
      BY <2>1, <2>2, <2>3
  <1>. QED
    BY <1>2, <1>3, <1>4 DEF Sound, Apart

-----------------------------------------------------------------------------
(* Steps that leave the catalog alone                                      *)

Quiet(t) ==
  /\ UNCHANGED <<rows, uploads>>
  /\ \E request : Begin(t, at'[t], request) \/ Go(t, at'[t], request)
  /\ at'[t] \notin Edits

LEMMA QuietSteps ==
  ASSUME Shape, NEW t \in Threads, ReportStep(t) \/ BeginUpload(t) \/ BeginRegistration(t)
           \/ BeginApplication(t) \/ ReadTargetUniversity(t) \/ ReadTargetProgram(t)
           \/ CommitStudent(t) \/ ReadProgram(t) \/ CommitApplication(t) \/ Refuse(t)
  PROVE  Quiet(t)
  <1>1. ASSUME NEW step, NEW request, Begin(t, step, request) \/ Go(t, step, request),
               step \notin Edits, UNCHANGED <<rows, uploads>>
        PROVE  Quiet(t)
    BY <1>1, Begun, Gone DEF Quiet
  <1>2. CASE ReportStep(t)
    <2>1. {"count students", "count applications", "answer stats", "billing", "idle"} \cap Edits = {}
      BY DEF Edits
    <2>2. ReportStep(t) => UNCHANGED <<rows, uploads>>
      BY DEF ReportStep, BeginStats, CountStudents, CountApplications, AnswerStats, BeginBilling,
        CountTenant, AnswerBilling, catalog
    <2>3. CASE BeginStats(t)
      BY <1>1, <1>2, <2>1, <2>2, <2>3 DEF BeginStats
    <2>4. CASE CountStudents(t)
      BY <1>1, <1>2, <2>1, <2>2, <2>4 DEF CountStudents
    <2>5. CASE CountApplications(t)
      BY <1>1, <1>2, <2>1, <2>2, <2>5 DEF CountApplications
    <2>6. CASE AnswerStats(t)
      BY <1>1, <1>2, <2>1, <2>2, <2>6 DEF AnswerStats, End
    <2>7. CASE BeginBilling(t)
      BY <1>1, <1>2, <2>1, <2>2, <2>7 DEF BeginBilling
    <2>8. CASE CountTenant(t)
      BY <1>1, <1>2, <2>1, <2>2, <2>8 DEF CountTenant
    <2>9. CASE AnswerBilling(t)
      BY <1>1, <1>2, <2>1, <2>2, <2>9 DEF AnswerBilling, End
    <2>. QED
      BY <1>2, <2>3, <2>4, <2>5, <2>6, <2>7, <2>8, <2>9 DEF ReportStep
  <1>3. {"upload", "target university", "target program", "register", "program", "apply", "idle"}
          \cap Edits = {}
    BY DEF Edits
  <1>4. CASE BeginUpload(t)
    BY <1>1, <1>3, <1>4 DEF BeginUpload, catalog
  <1>5. CASE BeginRegistration(t)
    BY <1>1, <1>3, <1>5 DEF BeginRegistration, catalog
  <1>6. CASE BeginApplication(t)
    BY <1>1, <1>3, <1>6 DEF BeginApplication, catalog
  <1>7. CASE ReadTargetUniversity(t)
    BY <1>1, <1>3, <1>7 DEF ReadTargetUniversity, catalog
  <1>8. CASE ReadTargetProgram(t)
    BY <1>1, <1>3, <1>8 DEF ReadTargetProgram, catalog
  <1>9. CASE CommitStudent(t) \/ CommitApplication(t)
    BY <1>1, <1>3, <1>9 DEF CommitStudent, CommitApplication, catalog, End
  <1>10. CASE ReadProgram(t)
    BY <1>1, <1>3, <1>10 DEF ReadProgram, catalog
  <1>11. CASE Refuse(t)
    BY <1>1, <1>3, <1>11 DEF Refuse, catalog, End
  <1>. QED
    BY <1>2, <1>4, <1>5, <1>6, <1>7, <1>8, <1>9, <1>10, <1>11

LEMMA QuietKeeps ==
  ASSUME Sound, KeysHold, NEW t \in Threads, Quiet(t)
  PROVE  Sound' /\ KeysHold'
  <1>1. PICK request : Begin(t, at'[t], request) \/ Go(t, at'[t], request)
    BY DEF Quiet
  <1>2. /\ Others(t) /\ requests' \in {requests, requests + 1} /\ requests' \in 0..MaxRequests
        /\ Shape'
    BY <1>1, Begun, Gone DEF Sound, Shape, Quiet
  <1>3. Same(t) /\ at'[t] \notin Edits
    BY DEF Quiet, Same
  <1>4. Sound'
    BY <1>2, <1>3, Carry
  <1>5. KeysHold'
    BY <1>2 DEF Quiet, KeysHold, TypeOK, Of
  <1>. QED
    BY <1>4, <1>5

LEMMA StillKeeps ==
  ASSUME Sound, KeysHold, UNCHANGED <<catalog, serving>>
  PROVE  Sound' /\ KeysHold'
  <1>1. Sound'
    <2>1. rows' = rows /\ at' = at /\ job' = job /\ requests' = requests
      BY DEF catalog, serving
    <2>2. Shape' /\ Numbered' /\ Apart'
      BY <2>1 DEF Sound, Shape, Numbered, Old, Apart
    <2>3. \A kind, p, tn : MayBelong(kind, p, tn)' <=> MayBelong(kind, p, tn)
      BY <2>1 DEF MayBelong, Old
    <2>4. ASSUME NEW t \in Threads PROVE Edited(t)'
      BY <2>1, <2>3 DEF Sound, Edited, Old
    <2>. QED
      BY <2>2, <2>4 DEF Sound
  <1>2. KeysHold'
    BY DEF catalog, serving, KeysHold, TypeOK, Of
  <1>. QED
    BY <1>1, <1>2

-----------------------------------------------------------------------------
(* Steps on the catalog                                                    *)

LEMMA AdministerKeeps ==
  ASSUME Sound, KeysHold, NEW t \in Threads, NEW kind \in Kinds, Administer(t, kind)
  PROVE  Sound' /\ KeysHold'
  <1>1. PICK tn \in Tenants :
          \/ \E p \in Parents(kind, tn) :
               Begin(t, "create", [NoJob EXCEPT !.kind = kind, !.tenant = tn, !.parent = p,
                                                !.row = NewId])
          \/ \E r \in Of(kind, tn) : \E p \in Parents(kind, tn) \ {rows[kind][r].parent} :
               Begin(t, "update", [NoJob EXCEPT !.kind = kind, !.row = r, !.parent = p])
          \/ \E r \in Of(kind, tn) :
               Begin(t, "delete", [NoJob EXCEPT !.kind = kind, !.row = r])
    BY DEF Administer
  <1>2. rows' = rows /\ uploads' = uploads
    BY DEF Administer, catalog
  <1>3. \A step, request : Begin(t, step, request) =>
          /\ at'[t] = step /\ job'[t] = request /\ Others(t) /\ Shape'
          /\ requests' = requests + 1
    BY <1>2, Begun DEF Sound, Shape
  <1>4. ASSUME NEW p \in Parents(kind, tn)
        PROVE  p # None => kind \in DOMAIN ParentKind /\ p \in Of(ParentKind[kind], tn)
    BY KindNames DEF Parents
  <1>5. ASSUME NEW p \in Parents(kind, tn), requests' = requests + 1
        PROVE  /\ MayBelong(kind, p, tn)'
               /\ p = None \/ \E k \in Kinds : p \in DOMAIN rows[k]
    <2>1. CASE p = None
      BY <2>1 DEF MayBelong
    <2>2. CASE p # None
      <3>1. kind \in DOMAIN ParentKind /\ p \in Of(ParentKind[kind], tn) /\ ParentKind[kind] \in Kinds
        BY <1>4, <2>2, KindNames
      <3>2. Old(p)'
        BY <1>5, <3>1, OldStays DEF Of, Sound, Numbered
      <3>. QED
        BY <1>2, <3>1, <3>2 DEF MayBelong, Of
    <2>. QED
      BY <2>1, <2>2
  <1>6. ASSUME NEW r \in Of(kind, tn), requests' = requests + 1
        PROVE  r \in DOMAIN rows[kind] /\ rows[kind][r].tenant = tn /\ Old(r)'
    BY <1>6, OldStays DEF Of, Sound, Numbered
  <1>7. CASE \E p \in Parents(kind, tn) :
               Begin(t, "create", [NoJob EXCEPT !.kind = kind, !.tenant = tn, !.parent = p,
                                                !.row = NewId])
    <2>1. PICK p \in Parents(kind, tn) :
            Begin(t, "create", [NoJob EXCEPT !.kind = kind, !.tenant = tn, !.parent = p,
                                             !.row = NewId])
      BY <1>7
    <2>2. /\ at'[t] = "create" /\ Others(t) /\ Shape' /\ requests' = requests + 1
          /\ job'[t].kind = kind /\ job'[t].tenant = tn /\ job'[t].parent = p
          /\ job'[t].row = NewId
      <3>. DEFINE request == [NoJob EXCEPT !.kind = kind, !.tenant = tn, !.parent = p,
                                           !.row = NewId]
      <3>1. job'[t] = request /\ at'[t] = "create" /\ Others(t) /\ Shape' /\ requests' = requests + 1
        BY <1>3, <2>1
      <3>. QED
        BY <3>1 DEF NoJob
    <2>3. /\ Old(job[t].row)' /\ \A k \in Kinds : NewId \notin DOMAIN rows[k]
      BY <2>2, NewIsNew DEF Old, Sound, Numbered
    <2>4. Edited(t)'
      BY <1>2, <1>5, <2>2, <2>3 DEF Edited
    <2>5. Sound'
      BY <1>2, <1>5, <2>2, <2>4, CarryNew
    <2>6. requests' \in 0..MaxRequests
      BY <2>2 DEF Shape
    <2>. QED
      BY <1>2, <2>5, <2>6 DEF KeysHold, TypeOK, Of
  <1>8. CASE \E r \in Of(kind, tn) : \E p \in Parents(kind, tn) \ {rows[kind][r].parent} :
               Begin(t, "update", [NoJob EXCEPT !.kind = kind, !.row = r, !.parent = p])
    <2>1. PICK r \in Of(kind, tn), p \in Parents(kind, tn) :
            Begin(t, "update", [NoJob EXCEPT !.kind = kind, !.row = r, !.parent = p])
      BY <1>8
    <2>2. /\ at'[t] = "update" /\ Others(t) /\ Shape' /\ requests' = requests + 1
          /\ job'[t].kind = kind /\ job'[t].parent = p /\ job'[t].row = r
      <3>. DEFINE request == [NoJob EXCEPT !.kind = kind, !.row = r, !.parent = p]
      <3>1. job'[t] = request /\ at'[t] = "update" /\ Others(t) /\ Shape' /\ requests' = requests + 1
        BY <1>3, <2>1
      <3>. QED
        BY <3>1 DEF NoJob
    <2>3. r \in DOMAIN rows[kind] /\ rows[kind][r].tenant = tn /\ Old(r)'
      BY <1>6, <2>2
    <2>4. Edited(t)'
      BY <1>2, <1>5, <2>2, <2>3 DEF Edited
    <2>5. Sound'
      BY <1>2, <1>5, <2>2, <2>3, <2>4, CarryNew
    <2>. QED
      BY <1>2, <2>2, <2>5 DEF KeysHold, TypeOK, Of, Sound, Shape
  <1>9. CASE \E r \in Of(kind, tn) :
               Begin(t, "delete", [NoJob EXCEPT !.kind = kind, !.row = r])
    <2>1. /\ at'[t] = "delete" /\ Others(t) /\ Shape' /\ requests' = requests + 1
          /\ job'[t].kind = kind
      <3>1. PICK r \in Of(kind, tn) : Begin(t, "delete", [NoJob EXCEPT !.kind = kind, !.row = r])
        BY <1>9
      <3>. DEFINE request == [NoJob EXCEPT !.kind = kind, !.row = r]
      <3>2. job'[t] = request /\ at'[t] = "delete" /\ Others(t) /\ Shape' /\ requests' = requests + 1
        BY <1>3, <3>1
      <3>. QED
        BY <3>2 DEF NoJob
    <2>2. Edited(t)'
      BY <2>1 DEF Edited
    <2>3. Sound'
      BY <1>2, <2>1, <2>2, CarryNew
    <2>. QED
      BY <1>2, <2>1, <2>3 DEF KeysHold, TypeOK, Of, Sound, Shape
  <1>. QED
    BY <1>1, <1>7, <1>8, <1>9

\* What the end of a request about the catalog leaves to show.
LEMMA EndKeeps ==
  ASSUME Sound, NEW t \in Threads, End(t), Same(t), rows' = [kind \in Kinds |-> rows'[kind]]
  PROVE  Sound'
  <1>1. Others(t) /\ Shape' /\ requests' = requests /\ at'[t] = "idle"
    BY Ended DEF Sound, Shape
  <1>. QED
    BY <1>1, Carry DEF Edits

LEMMA CreateKeeps ==
  ASSUME Sound, KeysHold, NEW t \in Threads, CommitCreate(t)
  PROVE  Sound' /\ KeysHold'
  <1> DEFINE j == job[t]
             row == [tenant |-> j.tenant, parent |-> j.parent]
  <1>1. /\ at[t] = "create" /\ End(t) /\ KeyHolds(j.kind, j.parent) /\ uploads' = uploads
        /\ rows' = [rows EXCEPT ![j.kind] = With(@, j.row, row)]
    BY DEF CommitCreate, Becomes
  <1>2. /\ Edited(t) /\ j.kind \in Kinds /\ j.tenant \in Tenants /\ j.row \notin DOMAIN rows[j.kind]
        /\ MayBelong(j.kind, j.parent, j.tenant)
    BY <1>1 DEF Sound, Edited, Edits
  <1>3. /\ rows' = [kind \in Kinds |-> rows'[kind]]
        /\ \A kind \in Kinds : kind # j.kind => rows'[kind] = rows[kind]
        /\ DOMAIN rows'[j.kind] = DOMAIN rows[j.kind] \cup {j.row}
        /\ rows'[j.kind][j.row] = row
        /\ \A r \in DOMAIN rows[j.kind] : rows'[j.kind][r] = rows[j.kind][r]
    <2>1. rows' = [kind \in Kinds |-> IF kind = j.kind THEN With(rows[kind], j.row, row)
                                     ELSE rows[kind]]
      BY <1>1, <1>2 DEF Sound, Shape
    <2>. QED
      BY <1>2, <2>1 DEF With
  <1>4. Same(t)
    BY <1>1, <1>3 DEF Same
  <1>5. Sound'
    BY <1>1, <1>3, <1>4, EndKeeps
  <1>6. \A kind \in Kinds : \A r \in DOMAIN rows[kind] : r \in DOMAIN rows'[kind]
          /\ rows'[kind][r] = rows[kind][r]
    BY <1>3
  <1>7. row \in Row
    BY <1>2 DEF MayBelong, Old, None, Row
  <1>8. TypeOK'
    <2>1. requests' \in 0..MaxRequests
      BY <1>5 DEF Sound, Shape
    <2>2. ASSUME NEW kind \in Kinds, NEW r \in DOMAIN rows'[kind]
          PROVE  rows'[kind][r] \in Row
      BY <1>3, <1>7 DEF KeysHold, TypeOK
    <2>. QED
      BY <1>1, <1>6, <2>1, <2>2, KindNames DEF KeysHold, TypeOK
  <1>9. ASSUME NEW kind \in DOMAIN ParentKind, NEW r \in DOMAIN rows'[kind]
        PROVE  LET p == rows'[kind][r].parent IN
               \/ p = None
               \/ /\ p \in DOMAIN rows'[ParentKind[kind]]
                  /\ rows'[ParentKind[kind]][p].tenant = rows'[kind][r].tenant
    <2>1. kind \in Kinds /\ ParentKind[kind] \in Kinds
      BY KindNames
    <2>2. CASE r \in DOMAIN rows[kind]
      BY <1>6, <2>1, <2>2 DEF KeysHold, Of
    <2>3. CASE kind = j.kind /\ r = j.row
      <3>1. j.parent # None => /\ j.parent \in DOMAIN rows[ParentKind[kind]]
                               /\ rows[ParentKind[kind]][j.parent].tenant = j.tenant
        BY <1>1, <1>2, <2>3 DEF KeyHolds, MayBelong
      <3>2. rows'[kind][r].parent = j.parent /\ rows'[kind][r].tenant = j.tenant
        BY <1>3, <2>1, <2>3
      <3>3. j.parent # None => /\ j.parent \in DOMAIN rows'[ParentKind[kind]]
                               /\ rows'[ParentKind[kind]][j.parent].tenant = j.tenant
        BY <1>6, <2>1, <3>1
      <3>. QED
        BY <3>2, <3>3
    <2>. QED
      BY <1>3, <2>1, <2>2, <2>3
  <1>. QED
    BY <1>5, <1>8, <1>9 DEF KeysHold, Of

LEMMA UpdateKeeps ==
  ASSUME Sound, KeysHold, NEW t \in Threads, CommitUpdate(t)
  PROVE  Sound' /\ KeysHold'
  <1> DEFINE j == job[t]
  <1>1. /\ at[t] = "update" /\ End(t) /\ j.row \in DOMAIN rows[j.kind] /\ uploads' = uploads
        /\ KeyHolds(j.kind, j.parent) /\ rows' = [rows EXCEPT ![j.kind][j.row].parent = j.parent]
    BY DEF CommitUpdate, Becomes
  <1>2. j.kind \in Kinds /\ MayBelong(j.kind, j.parent, rows[j.kind][j.row].tenant)
    BY <1>1 DEF Sound, Edited, Edits
  <1>3. rows' = [kind \in Kinds |->
                   IF kind = j.kind THEN [rows[kind] EXCEPT ![j.row].parent = j.parent]
                   ELSE rows[kind]]
    BY <1>1, <1>2 DEF Sound, Shape
  <1>4. \A kind \in Kinds : DOMAIN rows'[kind] = DOMAIN rows[kind]
    BY <1>3
  <1>5. ASSUME NEW kind \in Kinds, NEW r \in DOMAIN rows[kind]
        PROVE  /\ rows'[kind][r] \in Row /\ rows'[kind][r].tenant = rows[kind][r].tenant
               /\ kind = j.kind /\ r = j.row => rows'[kind][r].parent = j.parent
               /\ ~(kind = j.kind /\ r = j.row) => rows'[kind][r] = rows[kind][r]
    <2>1. rows[kind][r] \in Row /\ j.parent \in Nat
      BY <1>2 DEF KeysHold, TypeOK, MayBelong, Old, None
    <2>2. CASE kind = j.kind /\ r = j.row
      <3>1. rows'[kind][r] = [rows[kind][r] EXCEPT !.parent = j.parent]
        BY <1>3, <2>2
      <3>. QED
        BY <2>1, <2>2, <3>1 DEF Row
    <2>3. CASE ~(kind = j.kind /\ r = j.row)
      BY <1>3, <2>1, <2>3
    <2>. QED
      BY <2>2, <2>3
  <1>7. Sound'
    <2>1. Same(t)
      BY <1>4, <1>5 DEF Same
    <2>2. rows' = [kind \in Kinds |-> rows'[kind]]
      BY <1>3
    <2>. QED
      BY <1>1, <2>1, <2>2, EndKeeps
  <1>8. TypeOK'
    <2>1. requests' \in 0..MaxRequests
      BY <1>7 DEF Sound, Shape
    <2>2. \A kind \in Kinds : \A r \in DOMAIN rows'[kind] : rows'[kind][r] \in Row
      BY <1>4, <1>5
    <2>3. DOMAIN rows'["template"] = DOMAIN rows["template"]
      BY <1>4, KindNames
    <2>4. uploads' = uploads
      BY <1>1
    <2>. QED
      BY <2>1, <2>2, <2>3, <2>4 DEF KeysHold, TypeOK
  <1>6. ASSUME NEW kind \in DOMAIN ParentKind, NEW r \in DOMAIN rows'[kind]
        PROVE  LET p == rows'[kind][r].parent IN
               \/ p = None
               \/ /\ p \in DOMAIN rows'[ParentKind[kind]]
                  /\ rows'[ParentKind[kind]][p].tenant = rows'[kind][r].tenant
    <2>1. kind \in Kinds /\ ParentKind[kind] \in Kinds
      BY KindNames
    <2>2. r \in DOMAIN rows[kind]
      BY <1>4, <2>1
    <2>3. CASE kind = j.kind /\ r = j.row
      <3>1. j.parent # None => /\ j.parent \in DOMAIN rows[ParentKind[kind]]
                               /\ rows[ParentKind[kind]][j.parent].tenant = rows[kind][r].tenant
        BY <1>1, <1>2, <2>3 DEF KeyHolds, MayBelong
      <3>2. rows'[kind][r].parent = j.parent /\ rows'[kind][r].tenant = rows[kind][r].tenant
        BY <1>5, <2>1, <2>2, <2>3
      <3>. QED
        BY <1>4, <1>5, <2>1, <3>1, <3>2
    <2>4. CASE ~(kind = j.kind /\ r = j.row)
      <3>1. rows'[kind][r] = rows[kind][r]
        BY <1>5, <2>1, <2>2, <2>4
      <3>2. rows[kind][r].parent # None =>
              /\ rows[kind][r].parent \in DOMAIN rows[ParentKind[kind]]
              /\ rows[ParentKind[kind]][rows[kind][r].parent].tenant = rows[kind][r].tenant
        BY <2>2 DEF KeysHold, Of
      <3>. QED
        BY <1>4, <1>5, <2>1, <3>1, <3>2
    <2>. QED
      BY <2>3, <2>4
  <1>. QED
    BY <1>6, <1>7, <1>8 DEF KeysHold, Of

\* What is left of the catalog, and what went.
LEMMA Deleted ==
  ASSUME Sound, NEW t \in Threads, CommitDelete(t)
  PROVE  LET gone == Going(job[t].kind, job[t].row) IN
         /\ at[t] = "delete" /\ End(t) /\ job[t].kind \in Kinds
         /\ ~Referred(job[t].kind, job[t].row)
         /\ rows' = [kind \in Kinds |-> rows'[kind]]
         /\ \A kind \in Kinds :
              /\ DOMAIN rows'[kind] = DOMAIN rows[kind] \ gone[kind]
              /\ \A r \in DOMAIN rows'[kind] : rows'[kind][r] = rows[kind][r]
         /\ uploads' = [d \in DOMAIN uploads |->
                          IF uploads[d] \in gone["template"] THEN None ELSE uploads[d]]
  <1> DEFINE gone == Going(job[t].kind, job[t].row)
  <1>1. /\ at[t] = "delete" /\ End(t) /\ ~Referred(job[t].kind, job[t].row)
        /\ rows' = [k \in Kinds |-> Without(rows[k], gone[k])]
        /\ uploads' = [d \in DOMAIN uploads |->
                         IF uploads[d] \in gone["template"] THEN None ELSE uploads[d]]
    BY DEF CommitDelete, Becomes
  <1>2. job[t].kind \in Kinds
    BY <1>1 DEF Sound, Edited, Edits
  <1>4. ASSUME NEW kind \in Kinds
        PROVE  /\ DOMAIN rows'[kind] = DOMAIN rows[kind] \ gone[kind]
               /\ \A r \in DOMAIN rows'[kind] : rows'[kind][r] = rows[kind][r]
    <2>1. rows'[kind] = Without(rows[kind], gone[kind])
      BY <1>1
    <2>. QED
      BY <2>1 DEF Without, Restrict
  <1>. QED
    BY <1>1, <1>2, <1>4

LEMMA WhatGoes ==
  ASSUME NEW kind \in Kinds, NEW r
  PROVE  /\ Going(kind, r)[kind] = {r}
         /\ kind = "program" => Going(kind, r)["template"] =
              {x \in DOMAIN rows["template"] : rows["template"][x].parent = r}
         /\ \A k \in Kinds : k # kind /\ k # "template" => Going(kind, r)[k] = {}
  BY KindNames DEF Going

LEMMA DeleteKeeps ==
  ASSUME Sound, KeysHold, NEW t \in Threads, CommitDelete(t)
  PROVE  Sound' /\ KeysHold'
  <1> DEFINE j == job[t]
             gone == Going(j.kind, j.row)
  <1>1. /\ at[t] = "delete" /\ End(t) /\ j.kind \in Kinds /\ ~Referred(j.kind, j.row)
        /\ rows' = [kind \in Kinds |-> rows'[kind]]
        /\ \A kind \in Kinds :
             /\ DOMAIN rows'[kind] = DOMAIN rows[kind] \ gone[kind]
             /\ \A r \in DOMAIN rows'[kind] : rows'[kind][r] = rows[kind][r]
        /\ uploads' = [d \in DOMAIN uploads |->
                         IF uploads[d] \in gone["template"] THEN None ELSE uploads[d]]
    BY Deleted
  <1>2. \A kind \in Kinds : \A r \in DOMAIN rows'[kind] :
          r \in DOMAIN rows[kind] /\ rows'[kind][r] = rows[kind][r]
    BY <1>1
  <1>3. Sound'
    BY <1>1, <1>2, EndKeeps DEF Same
  <1>4. TypeOK'
    <2>1. requests' \in 0..MaxRequests
      BY <1>3 DEF Sound, Shape
    <2>2. DOMAIN rows'["template"] = DOMAIN rows["template"] \ gone["template"]
      BY <1>1, KindNames
    <2>3. \A d \in DOMAIN uploads' : uploads'[d] \in {None} \cup DOMAIN rows'["template"]
      BY <1>1, <2>2 DEF KeysHold, TypeOK
    <2>. QED
      BY <1>2, <2>1, <2>3 DEF KeysHold, TypeOK
  <1>5. ASSUME NEW kind \in DOMAIN ParentKind, NEW r \in DOMAIN rows'[kind]
        PROVE  LET p == rows'[kind][r].parent IN
               \/ p = None
               \/ /\ p \in DOMAIN rows'[ParentKind[kind]]
                  /\ rows'[ParentKind[kind]][p].tenant = rows'[kind][r].tenant
    <2> DEFINE p == rows[kind][r].parent
               up == ParentKind[kind]
    <2>1. kind \in Kinds /\ up \in Kinds /\ up # "template"
      BY KindNames
    <2>2. r \in DOMAIN rows[kind] /\ rows'[kind][r] = rows[kind][r]
      BY <1>2, <2>1
    <2>3. p # None => p \in DOMAIN rows[up] /\ rows[up][p].tenant = rows[kind][r].tenant
      BY <2>2 DEF KeysHold, Of
    <2>4. p \notin gone[up]
      <3>1. CASE up # j.kind
        BY <1>1, <2>1, <3>1, WhatGoes
      <3>2. CASE up = j.kind /\ kind = "template"
        <4>1. j.kind = "program" /\ r \notin gone["template"]
          BY <1>1, <2>1, <3>2, KindNames
        <4>2. p # j.row
          BY <1>1, <2>2, <3>2, <4>1, WhatGoes
        <4>. QED
          BY <1>1, <3>2, <4>2, WhatGoes
      <3>3. CASE up = j.kind /\ kind # "template"
        <4>1. p # j.row
          BY <1>1, <2>2, <3>3, KindNames DEF Referred
        <4>. QED
          BY <1>1, <3>3, <4>1, WhatGoes
      <3>. QED
        BY <3>1, <3>2, <3>3
    <2>5. p # None => p \in DOMAIN rows'[up]
      BY <1>1, <2>1, <2>3, <2>4
    <2>. QED
      BY <1>2, <2>1, <2>2, <2>3, <2>5
  <1>. QED
    BY <1>3, <1>4, <1>5 DEF KeysHold, Of

LEMMA UploadKeeps ==
  ASSUME Sound, KeysHold, NEW t \in Threads, CommitUpload(t)
  PROVE  Sound' /\ KeysHold'
  <1>1. /\ End(t) /\ rows' = rows /\ job[t].parent \in DOMAIN rows["template"]
        /\ uploads' = With(uploads, job[t].row, job[t].parent)
    BY DEF CommitUpload
  <1>2. Sound'
    BY <1>1, EndKeeps DEF Same, Sound, Shape
  <1>3. \A d \in DOMAIN uploads' : uploads'[d] \in {None} \cup DOMAIN rows["template"]
    BY <1>1 DEF With, KeysHold, TypeOK
  <1>. QED
    BY <1>1, <1>2, <1>3 DEF KeysHold, TypeOK, Of, Sound, Shape

-----------------------------------------------------------------------------
(* Every step                                                              *)

(* A step is one of the reports and people's requests, one on the catalog, *)
(* or leaves both alone.                                                   *)
Calm ==
  \/ \E t \in Threads : Quiet(t)
  \/ UNCHANGED <<catalog, serving>>

LEMMA StepOrCalm ==
  ASSUME Shape, [Next]_allVars
  PROVE  \/ Calm
         \/ \E t \in Threads : \E kind \in Kinds : Administer(t, kind)
         \/ \E t \in Threads :
              CommitCreate(t) \/ CommitUpdate(t) \/ CommitDelete(t) \/ CommitUpload(t)
  <1>1. CASE UNCHANGED allVars
    BY <1>1 DEF allVars, catalog, serving, Calm
  <1>2. CASE AdvanceStage \/ Tick
    BY <1>2 DEF AdvanceStage, Tick, catalog, serving, Calm
  <1>3. ASSUME NEW t \in Threads, ReportStep(t)
        PROVE  Calm
    BY <1>3, QuietSteps DEF Calm
  <1>4. ASSUME NEW t \in Threads, Serve(t)
        PROVE  \/ Calm \/ CommitCreate(t) \/ CommitUpdate(t) \/ CommitDelete(t) \/ CommitUpload(t)
    BY <1>4, QuietSteps DEF Serve, Calm
  <1>5. ASSUME NEW t \in Threads, Receive(t)
        PROVE  Calm \/ \E kind \in Kinds : Administer(t, kind)
    <2>1. CASE BeginUpload(t) \/ BeginRegistration(t) \/ BeginApplication(t)
      BY <2>1, QuietSteps DEF Calm
    <2>. QED
      BY <1>5, <2>1, KindNames
        DEF Receive, BeginCountry, BeginUniversity, BeginProgram, BeginTemplate
  <1>. QED
    BY <1>1, <1>2, <1>3, <1>4, <1>5 DEF Next, CatalogStep

LEMMA StepKeepsKeys ==
  ASSUME Sound, KeysHold, [Next]_allVars PROVE Sound' /\ KeysHold'
  <1>1. CASE Calm
    BY <1>1, QuietKeeps, StillKeeps DEF Calm
  <1>. QED
    BY <1>1, StepOrCalm, AdministerKeeps, CreateKeeps, UpdateKeeps, DeleteKeeps, UploadKeeps DEF Sound

LEMMA StartIsSound == ASSUME AnalyticsInit PROVE Sound /\ KeysHold
  <1>1. SeedIsValid /\ EarlierIsValid /\ EarlierIsNumbered
    BY CatalogAssumption
  <1>2. /\ rows = [kind \in Kinds |-> IF kind = "template" THEN Earlier.template ELSE Seed[kind]]
        /\ uploads = Earlier.uploads /\ requests = 0
        /\ at = [t \in Threads |-> "idle"] /\ job = [t \in Threads |-> NoJob]
    BY DEF AnalyticsInit, Init
  <1>3. \A kind \in Kinds : rows[kind] = IF kind = "template" THEN Earlier.template ELSE Seed[kind]
    BY <1>2
  <1>4. Numbered
    BY <1>1, <1>2, <1>3, KindNames DEF EarlierIsNumbered, Numbered, Old
  <1>5. Shape
    BY <1>2, BoundIsNat DEF Shape
  <1>6. Sound
    BY <1>2, <1>4, <1>5 DEF Sound, Edited, Edits, Apart
  <1>7. TypeOK
    <2>1. ASSUME NEW kind \in Kinds, NEW r \in DOMAIN rows[kind] PROVE rows[kind][r] \in Row
      BY <1>1, <1>3, <2>1, KindNames DEF SeedIsValid, EarlierIsValid
    <2>. QED
      BY <1>1, <1>2, <1>3, <1>5, <2>1, KindNames DEF TypeOK, EarlierIsValid, Shape
  <1>8. ASSUME NEW kind \in DOMAIN ParentKind, NEW r \in DOMAIN rows[kind]
        PROVE  LET p == rows[kind][r].parent IN
               \/ p = None
               \/ /\ p \in DOMAIN rows[ParentKind[kind]]
                  /\ rows[ParentKind[kind]][p].tenant = rows[kind][r].tenant
    <2>1. CASE kind = "template"
      BY <1>1, <1>3, <2>1, KindNames DEF EarlierIsValid
    <2>2. CASE kind # "template"
      <3>1. kind \in {"university", "program"} /\ ParentKind[kind] \in {"country", "university"}
        BY <2>2, KindNames
      <3>2. /\ rows[kind] = Seed[kind] /\ rows[ParentKind[kind]] = Seed[ParentKind[kind]]
        BY <1>3, <3>1, KindNames
      <3>. QED
        BY <1>1, <3>1, <3>2 DEF SeedIsValid
    <2>. QED
      BY <2>1, <2>2
  <1>. QED
    BY <1>6, <1>7, <1>8 DEF KeysHold, Of

(* A row belongs to a row that exists and is of its tenant, however         *)
(* creations, moves and deletions overlap; a document names a template that *)
(* exists or none.                                                          *)
THEOREM CatalogKeysHold == Spec => []KeysHold
  <1>. DEFINE I == Sound /\ KeysHold
  <1>1. AnalyticsInit => I
    BY StartIsSound
  <1>2. I /\ [Next]_allVars => I'
    BY StepKeepsKeys
  <1>3. I => KeysHold
    OBVIOUS
  <1>. QED
    BY <1>1, <1>2, <1>3, PTL DEF Spec

LEMMA SoundAlways == Spec => []Sound
  <1>. DEFINE I == Sound /\ KeysHold
  <1>1. AnalyticsInit => I
    BY StartIsSound
  <1>2. I /\ [Next]_allVars => I'
    BY StepKeepsKeys
  <1>3. I => Sound
    OBVIOUS
  <1>. QED
    BY <1>1, <1>2, <1>3, PTL DEF Spec

Outlive ==
  \A d \in DOMAIN uploads :
    /\ d \in DOMAIN uploads'
    /\ uploads'[d] # uploads[d] =>
         uploads'[d] = None /\ uploads[d] \notin DOMAIN rows'["template"]

LEMMA StepOutlives == ASSUME Sound, [Next]_allVars PROVE Outlive
  <1>1. CASE uploads' = uploads
    BY <1>1 DEF Outlive
  <1>2. ASSUME NEW t \in Threads, CommitDelete(t) PROVE Outlive
    BY <1>2, Deleted, KindNames DEF Outlive
  <1>3. ASSUME NEW t \in Threads, CommitUpload(t) PROVE Outlive
    BY <1>3 DEF Outlive, CommitUpload, With
  <1>4. ASSUME NEW t \in Threads, CommitCreate(t) \/ CommitUpdate(t) PROVE uploads' = uploads
    BY <1>4 DEF CommitCreate, CommitUpdate
  <1>5. ASSUME NEW t \in Threads, NEW kind \in Kinds, Administer(t, kind) PROVE uploads' = uploads
    BY <1>5 DEF Administer, catalog
  <1>6. Calm => uploads' = uploads
    BY DEF Calm, Quiet, catalog
  <1>. QED
    BY <1>1, <1>2, <1>3, <1>4, <1>5, <1>6, StepOrCalm DEF Sound

(* What an upload was for changes only when that template is gone, and then *)
(* to none.                                                                 *)
THEOREM UploadsOutlive == Spec => UploadsOutliveTemplates
  <1>1. Sound /\ [Next]_allVars => [Outlive]_<<rows, uploads>>
    BY StepOutlives
  <1>. QED
    BY <1>1, SoundAlways, PTL DEF Spec, UploadsOutliveTemplates, Outlive

-----------------------------------------------------------------------------
(* What is named                                                           *)

\* The history has every pair the catalog has.
Remembered == Pairs(rows) \subseteq offered

Goes(kind, r, p) == r # None /\ p # None => <<kind, r, p>> \in offered

(* What a request that names a university and a program carries.           *)
Chosen(t) ==
  LET read == job[t].read IN
  /\ DOMAIN job[t] = DOMAIN NoJob
  /\ at[t] = "target university" => read = <<read[1]>>
  /\ at[t] = "target program" =>
       read = <<read[1], read[2]>> /\ Goes("university", read[2], read[1])
  /\ at[t] = "register" =>
       /\ read = <<read[1], read[2], read[3]>>
       /\ Goes("university", read[2], read[1]) /\ Goes("program", read[3], read[2])
  /\ at[t] = "program" => read = <<read[1]>>
  /\ at[t] = "apply" =>
       read = <<read[1], read[2]>> /\ <<"program", read[2], read[1]>> \in offered

Choosing == Remembered /\ \A t \in Threads : Chosen(t)

Reading == {"target university", "target program", "register", "program", "apply"}

LEMMA ChosenCarry ==
  ASSUME Choosing, NEW t \in Threads, Others(t), offered \subseteq offered', Chosen(t)'
  PROVE  \A u \in Threads : Chosen(u)'
  <1>. SUFFICES ASSUME NEW u \in Threads \ {t} PROVE Chosen(u)'
    OBVIOUS
  <1>1. Chosen(u) /\ at'[u] = at[u] /\ job'[u] = job[u]
    BY DEF Choosing, Others
  <1>2. \A kind, r, p : Goes(kind, r, p) => Goes(kind, r, p)'
    BY DEF Goes
  <1>3. at[u] = "apply" => (<<"program", job[u].read[2], job[u].read[1]>> \in offered')
    BY <1>1 DEF Chosen
  <1>. QED
    BY <1>1, <1>2, <1>3 DEF Chosen

LEMMA ChosenUnless ==
  ASSUME NEW t \in Threads, DOMAIN job'[t] = DOMAIN NoJob, at'[t] \notin Reading
  PROVE  Chosen(t)'
  BY DEF Chosen, Reading

\* A row under another makes a pair that is remembered.
LEMMA UnderIsOffered ==
  ASSUME Remembered, NEW tn, NEW p,
         NEW kind \in {"university", "program"}, NEW r \in Under(kind, tn, p)
  PROVE  <<kind, r, p>> \in offered
  <1>1. <<kind, r, rows[kind][r].parent>> \in Pairs(rows) /\ rows[kind][r].parent = p
    BY DEF Pairs, Under, Of
  <1>. QED
    BY <1>1 DEF Remembered

LEMMA Records ==
  ASSUME NEW t \in Threads, DOMAIN job[t] = DOMAIN NoJob, NEW read
  PROVE  /\ DOMAIN [job[t] EXCEPT !.read = read] = DOMAIN NoJob
         /\ [job[t] EXCEPT !.read = read].read = read
  BY DEF NoJob

LEMMA Appended ==
  ASSUME NEW x, NEW y, NEW z
  PROVE  Append(<<x>>, y) = <<x, y>> /\ Append(<<x, y>>, z) = <<x, y, z>>
  <1> DEFINE S == {x, y, z}
             two == Append(<<x>>, y)
             three == Append(<<x, y>>, z)
  <1>1. /\ <<x>> \in Seq(S) /\ <<x, y>> \in Seq(S) /\ <<x, y, z>> \in Seq(S) /\ y \in S /\ z \in S
        /\ Len(<<x>>) = 1 /\ Len(<<x, y>>) = 2 /\ Len(<<x, y, z>>) = 3
    OBVIOUS
  <1>2. two \in Seq(S) /\ Len(two) = 2 /\ two[1] = x /\ two[2] = y
    BY <1>1, AppendProperties
  <1>3. three \in Seq(S) /\ Len(three) = 3 /\ three[1] = x /\ three[2] = y /\ three[3] = z
    BY <1>1, AppendProperties
  <1>4. two = <<x, y>>
    <2>1. \A i \in 1..2 : two[i] = <<x, y>>[i]
      BY <1>2
    <2>. HIDE DEF two
    <2>. QED
      BY <1>1, <1>2, <2>1, SeqEqual
  <1>5. three = <<x, y, z>>
    <2>1. \A i \in 1..3 : three[i] = <<x, y, z>>[i]
      BY <1>3
    <2>. HIDE DEF three
    <2>. QED
      BY <1>1, <1>3, <2>1, SeqEqual
  <1>. QED
    BY <1>4, <1>5

LEMMA AppendedTo ==
  ASSUME NEW s, NEW x, NEW y, NEW z
  PROVE  /\ s = <<x>> => Append(s, y) = <<x, y>>
         /\ s = <<x, y>> => Append(s, z) = <<x, y, z>>
  BY Appended, Zenon

(* A request that appends to what it has read.                             *)
LEMMA ReadsOn ==
  ASSUME Shape, NEW t \in Threads, DOMAIN job[t] = DOMAIN NoJob, NEW x, NEW step,
         Go(t, step, [job[t] EXCEPT !.read = Append(@, x)])
  PROVE  /\ at'[t] = step /\ Others(t) /\ DOMAIN job'[t] = DOMAIN NoJob
         /\ job'[t].read = Append(job[t].read, x)
  <1>1. Go(t, step, [job[t] EXCEPT !.read = Append(job[t].read, x)])
    BY DEF NoJob
  <1>2. at'[t] = step /\ Others(t) /\ job'[t] = [job[t] EXCEPT !.read = Append(job[t].read, x)]
    BY <1>1, Gone
  <1>. QED
    BY <1>2, Records

(* One step that reads of the catalog.                                     *)
LEMMA ReadingKeeps ==
  ASSUME Sound, Choosing, NEW t \in Threads,
         \/ BeginRegistration(t) \/ ReadTargetUniversity(t) \/ ReadTargetProgram(t)
         \/ BeginApplication(t) \/ ReadProgram(t)
  PROVE  Choosing'
  <1>1. rows' = rows /\ offered' = offered
    BY DEF BeginRegistration, ReadTargetUniversity, ReadTargetProgram, BeginApplication, ReadProgram,
      catalog
  <1>2. Shape /\ DOMAIN job[t] = DOMAIN NoJob
    BY DEF Choosing, Chosen, Sound
  <1>3. Remembered'
    BY <1>1 DEF Choosing, Remembered, Pairs
  <1>4. Others(t) /\ Chosen(t)'
    <2>1. CASE BeginRegistration(t)
      <3>1. PICK b, c : Begin(t, "target university", [NoJob EXCEPT !.row = NewId,
                          !.tenant = Branches[b], !.branch = b, !.read = <<c>>])
        BY <2>1 DEF BeginRegistration
      <3> DEFINE request == [NoJob EXCEPT !.row = NewId, !.tenant = Branches[b], !.branch = b,
                                          !.read = <<c>>]
      <3>2. at'[t] = "target university" /\ job'[t] = request /\ Others(t)
        BY <1>2, <3>1, Begun
      <3>3. DOMAIN request = DOMAIN NoJob /\ request.read = <<c>> /\ request.read[1] = c
        BY DEF NoJob
      <3>. QED
        BY <3>2, <3>3 DEF Chosen
    <2>2. CASE BeginApplication(t)
      <3>1. PICK s, u : Begin(t, "program", [NoJob EXCEPT !.row = NewId,
                          !.tenant = students[s].tenant, !.branch = students[s].branch,
                          !.read = <<u>>])
        BY <2>2 DEF BeginApplication
      <3> DEFINE request == [NoJob EXCEPT !.row = NewId, !.tenant = students[s].tenant,
                                          !.branch = students[s].branch, !.read = <<u>>]
      <3>2. at'[t] = "program" /\ job'[t] = request /\ Others(t)
        BY <1>2, <3>1, Begun
      <3>3. DOMAIN request = DOMAIN NoJob /\ request.read = <<u>> /\ request.read[1] = u
        BY DEF NoJob
      <3>. QED
        BY <3>2, <3>3 DEF Chosen
    <2>3. CASE ReadTargetUniversity(t)
      <3>0. PICK c : c = job[t].read[1]
        OBVIOUS
      <3>1. PICK u : /\ AcceptsUniversity(job[t].tenant, c, u)
                     /\ Go(t, "target program", [job[t] EXCEPT !.read = Append(@, u)])
        BY <2>3, <3>0 DEF ReadTargetUniversity
      <3>2. job[t].read = <<c>>
        BY <2>3, <3>0 DEF ReadTargetUniversity, Choosing, Chosen
      <3>3. /\ at'[t] = "target program" /\ Others(t)
            /\ job'[t].read = <<c, u>> /\ job'[t].read[1] = c /\ job'[t].read[2] = u
            /\ DOMAIN job'[t] = DOMAIN NoJob
        <4>1. /\ at'[t] = "target program" /\ Others(t) /\ DOMAIN job'[t] = DOMAIN NoJob
              /\ job'[t].read = Append(job[t].read, u)
          BY <1>2, <3>1, ReadsOn
        <4>2. Append(job[t].read, u) = <<c, u>>
          BY <3>2, AppendedTo
        <4>3. job'[t].read = <<c, u>>
          BY <4>1, <4>2, Zenon
        <4>4. job'[t].read[1] = c /\ job'[t].read[2] = u
          BY <4>3
        <4>. QED
          BY <4>1, <4>3, <4>4, Zenon
      <3>4. Goes("university", u, c)'
        <4>1. u # None /\ c # None => u \in Under("university", job[t].tenant, c)
          BY <3>1 DEF AcceptsUniversity
        <4>. QED
          BY <1>1, <4>1, UnderIsOffered DEF Goes, Choosing
      <3>. QED
        BY <3>3, <3>4 DEF Chosen
    <2>4. CASE ReadTargetProgram(t)
      <3>0. PICK c, u : c = job[t].read[1] /\ u = job[t].read[2]
        OBVIOUS
      <3>1. PICK p : /\ AcceptsProgram(job[t].tenant, u, p)
                     /\ Go(t, "register", [job[t] EXCEPT !.read = Append(@, p)])
        BY <2>4, <3>0 DEF ReadTargetProgram
      <3>2. job[t].read = <<c, u>> /\ Goes("university", u, c)
        BY <2>4, <3>0 DEF ReadTargetProgram, Choosing, Chosen
      <3>3. /\ at'[t] = "register" /\ Others(t)
            /\ job'[t].read = <<c, u, p>> /\ job'[t].read[1] = c /\ job'[t].read[2] = u
            /\ job'[t].read[3] = p /\ DOMAIN job'[t] = DOMAIN NoJob
        <4>1. /\ at'[t] = "register" /\ Others(t) /\ DOMAIN job'[t] = DOMAIN NoJob
              /\ job'[t].read = Append(job[t].read, p)
          BY <1>2, <3>1, ReadsOn
        <4>2. Append(job[t].read, p) = <<c, u, p>>
          BY <3>2, AppendedTo
        <4>3. job'[t].read = <<c, u, p>>
          BY <4>1, <4>2, Zenon
        <4>. QED
          BY <4>1, <4>3
      <3>4. Goes("program", p, u)' /\ Goes("university", u, c)'
        <4>1. p # None /\ u # None => p \in Under("program", job[t].tenant, u)
          BY <3>1 DEF AcceptsProgram
        <4>2. p # None /\ u # None => <<"program", p, u>> \in offered
          BY <4>1, UnderIsOffered DEF Choosing
        <4>. QED
          BY <1>1, <3>2, <4>2 DEF Goes
      <3>. QED
        BY <3>3, <3>4 DEF Chosen
    <2>5. CASE ReadProgram(t)
      <3>0. PICK u : u = job[t].read[1]
        OBVIOUS
      <3>1. PICK p \in Under("program", job[t].tenant, u) :
              Go(t, "apply", [job[t] EXCEPT !.read = Append(@, p)])
        BY <2>5, <3>0 DEF ReadProgram
      <3>2. job[t].read = <<u>>
        BY <2>5, <3>0 DEF ReadProgram, Choosing, Chosen
      <3>3. /\ at'[t] = "apply" /\ Others(t)
            /\ job'[t].read = <<u, p>> /\ job'[t].read[1] = u /\ job'[t].read[2] = p
            /\ DOMAIN job'[t] = DOMAIN NoJob
        <4>1. /\ at'[t] = "apply" /\ Others(t) /\ DOMAIN job'[t] = DOMAIN NoJob
              /\ job'[t].read = Append(job[t].read, p)
          BY <1>2, <3>1, ReadsOn
        <4>2. Append(job[t].read, p) = <<u, p>>
          BY <3>2, AppendedTo
        <4>3. job'[t].read = <<u, p>>
          BY <4>1, <4>2, Zenon
        <4>. QED
          BY <4>1, <4>3
      <3>4. <<"program", p, u>> \in offered'
        BY <1>1, <3>1, UnderIsOffered DEF Choosing
      <3>. QED
        BY <3>3, <3>4 DEF Chosen
    <2>. QED
      BY <2>1, <2>2, <2>3, <2>4, <2>5
  <1>. QED
    BY <1>1, <1>3, <1>4, ChosenCarry DEF Choosing

(* What a step that reads nothing for a choice does to its own thread.     *)
LEMMA Opened ==
  ASSUME Shape, NEW t \in Threads, NEW step, NEW request, step \notin Reading,
         Begin(t, step, request) \/ Go(t, step, request), DOMAIN request = DOMAIN NoJob
  PROVE  Others(t) /\ DOMAIN job'[t] = DOMAIN NoJob /\ at'[t] \notin Reading
  BY Begun, Gone

LEMMA OtherRecords ==
  ASSUME Shape, NEW t \in Threads, DOMAIN job[t] = DOMAIN NoJob,
         \/ ReportStep(t) \/ BeginUpload(t) \/ (\E kind \in Kinds : Administer(t, kind))
         \/ CommitCreate(t) \/ CommitUpdate(t) \/ CommitDelete(t) \/ CommitUpload(t)
         \/ CommitStudent(t) \/ CommitApplication(t) \/ Refuse(t)
  PROVE  Others(t) /\ DOMAIN job'[t] = DOMAIN NoJob /\ at'[t] \notin Reading
  <1>1. /\ {"create", "update", "delete", "upload", "idle"} \cap Reading = {}
        /\ {"count students", "count applications", "answer stats", "billing"} \cap Reading = {}
    BY DEF Reading
  <1>2. CASE \E kind \in Kinds : Administer(t, kind)
    <2>1. PICK kind \in Kinds : Administer(t, kind)
      BY <1>2
    <2>2. CASE \E tn, p : Begin(t, "create", [NoJob EXCEPT !.kind = kind, !.tenant = tn,
                                                         !.parent = p, !.row = NewId])
      <3>1. PICK tn, p : Begin(t, "create", [NoJob EXCEPT !.kind = kind, !.tenant = tn,
                                                        !.parent = p, !.row = NewId])
        BY <2>2
      <3> DEFINE request == [NoJob EXCEPT !.kind = kind, !.tenant = tn, !.parent = p, !.row = NewId]
      <3>2. Begin(t, "create", request) /\ DOMAIN request = DOMAIN NoJob
        BY <3>1
      <3>. HIDE DEF request
      <3>. QED
        BY <1>1, <3>2, Opened
    <2>3. CASE \E r, p : Begin(t, "update", [NoJob EXCEPT !.kind = kind, !.row = r, !.parent = p])
      <3>1. PICK r, p : Begin(t, "update", [NoJob EXCEPT !.kind = kind, !.row = r, !.parent = p])
        BY <2>3
      <3> DEFINE request == [NoJob EXCEPT !.kind = kind, !.row = r, !.parent = p]
      <3>2. Begin(t, "update", request) /\ DOMAIN request = DOMAIN NoJob
        BY <3>1
      <3>. HIDE DEF request
      <3>. QED
        BY <1>1, <3>2, Opened
    <2>4. CASE \E r : Begin(t, "delete", [NoJob EXCEPT !.kind = kind, !.row = r])
      <3>1. PICK r : Begin(t, "delete", [NoJob EXCEPT !.kind = kind, !.row = r])
        BY <2>4
      <3> DEFINE request == [NoJob EXCEPT !.kind = kind, !.row = r]
      <3>2. Begin(t, "delete", request) /\ DOMAIN request = DOMAIN NoJob
        BY <3>1
      <3>. HIDE DEF request
      <3>. QED
        BY <1>1, <3>2, Opened
    <2>. QED
      BY <2>1, <2>2, <2>3, <2>4 DEF Administer
  <1>3. CASE BeginUpload(t)
    <2>1. PICK k : Begin(t, "upload", [NoJob EXCEPT !.row = NewId, !.parent = k])
      BY <1>3 DEF BeginUpload
    <2> DEFINE request == [NoJob EXCEPT !.row = NewId, !.parent = k]
    <2>2. Begin(t, "upload", request) /\ DOMAIN request = DOMAIN NoJob
      BY <2>1
    <2>. HIDE DEF request
    <2>. QED
      BY <1>1, <2>2, Opened
  <1>4. CASE \/ CommitCreate(t) \/ CommitUpdate(t) \/ CommitDelete(t) \/ CommitUpload(t)
             \/ CommitStudent(t) \/ CommitApplication(t) \/ Refuse(t)
             \/ AnswerStats(t) \/ AnswerBilling(t)
    <2>1. End(t)
      BY <1>4 DEF CommitCreate, CommitUpdate, CommitDelete, CommitUpload, CommitStudent,
        CommitApplication, Refuse, AnswerStats, AnswerBilling
    <2>. QED
      BY <1>1, <2>1, Ended
  <1>5. CASE BeginStats(t)
    <2>1. PICK range : Begin(t, "count students", [NoJob EXCEPT !.read = <<range, Counted(range)>>])
      BY <1>5 DEF BeginStats
    <2> DEFINE request == [NoJob EXCEPT !.read = <<range, Counted(range)>>]
    <2>2. Begin(t, "count students", request) /\ DOMAIN request = DOMAIN NoJob
      BY <2>1
    <2>. HIDE DEF request
    <2>. QED
      BY <1>1, <2>2, Opened
  <1>6. CASE BeginBilling(t)
    <2> DEFINE request == [NoJob EXCEPT !.read = <<Anytime, Counted(Anytime), <<>>>>]
    <2>1. Begin(t, "billing", request) /\ DOMAIN request = DOMAIN NoJob
      BY <1>6 DEF BeginBilling
    <2>. HIDE DEF request
    <2>. QED
      BY <1>1, <2>1, Opened
  <1>7. CASE CountStudents(t)
    <2> DEFINE request == [job[t] EXCEPT !.read =
          Append(@, [tn \in Tenants |-> Cardinality(StudentsOf(tn, @[1]))])]
    <2>1. Go(t, "count applications", request) /\ DOMAIN request = DOMAIN NoJob
      BY <1>7 DEF CountStudents
    <2>. HIDE DEF request
    <2>. QED
      BY <1>1, <2>1, Opened
  <1>8. CASE CountApplications(t)
    <2> DEFINE request == [job[t] EXCEPT !.read =
          Append(@, [tn \in Tenants |-> Tally(ApplicationsOf(tn, @[1]))])]
    <2>1. Go(t, "answer stats", request) /\ DOMAIN request = DOMAIN NoJob
      BY <1>8 DEF CountApplications
    <2>. HIDE DEF request
    <2>. QED
      BY <1>1, <2>1, Opened
  <1>9. CASE CountTenant(t)
    <2>1. PICK tn : Go(t, "billing", [job[t] EXCEPT !.read[3] =
                       With(@, tn, Cardinality(StudentsOf(tn, Anytime)))])
      BY <1>9 DEF CountTenant
    <2> DEFINE request == [job[t] EXCEPT !.read[3] =
                       With(@, tn, Cardinality(StudentsOf(tn, Anytime)))]
    <2>2. Go(t, "billing", request) /\ DOMAIN request = DOMAIN NoJob
      BY <2>1
    <2>. HIDE DEF request
    <2>. QED
      BY <1>1, <2>2, Opened
  <1>. QED
    BY <1>2, <1>3, <1>4, <1>5, <1>6, <1>7, <1>8, <1>9 DEF ReportStep

LEMMA OfferedGrows ==
  ASSUME Choosing, [Next]_allVars
  PROVE  Remembered' /\ offered \subseteq offered'
  <1>1. CASE UNCHANGED <<rows, offered>>
    BY <1>1 DEF Choosing, Remembered, Pairs
  <1>2. ASSUME NEW t \in Threads, CommitCreate(t) \/ CommitUpdate(t) \/ CommitDelete(t)
        PROVE  Remembered' /\ offered \subseteq offered'
    <2>1. PICK catalogue : Becomes(catalogue)
      BY <1>2 DEF CommitCreate, CommitUpdate, CommitDelete
    <2>. QED
      BY <2>1 DEF Becomes, Remembered, Pairs
  <1>3. ASSUME NEW t \in Threads, ReportStep(t) PROVE UNCHANGED <<rows, offered>>
    BY <1>3 DEF ReportStep, BeginStats, CountStudents, CountApplications, AnswerStats,
      BeginBilling, CountTenant, AnswerBilling, catalog
  <1>4. ASSUME NEW t \in Threads, Receive(t) PROVE UNCHANGED <<rows, offered>>
    BY <1>4 DEF Receive, BeginCountry, BeginUniversity, BeginProgram, BeginTemplate, Administer,
      BeginUpload, BeginRegistration, BeginApplication, catalog
  <1>5. ASSUME NEW t \in Threads, Serve(t)
        PROVE  \/ CommitCreate(t) \/ CommitUpdate(t) \/ CommitDelete(t)
               \/ UNCHANGED <<rows, offered>>
    BY <1>5 DEF Serve, CommitUpload, ReadTargetUniversity, ReadTargetProgram, CommitStudent,
      ReadProgram, CommitApplication, Refuse, catalog
  <1>6. AdvanceStage \/ Tick \/ UNCHANGED allVars => UNCHANGED <<rows, offered>>
    BY DEF AdvanceStage, Tick, allVars, catalog
  <1>. QED
    BY <1>1, <1>2, <1>3, <1>4, <1>5, <1>6 DEF Next, CatalogStep

LEMMA ChoosingKeeps ==
  ASSUME Sound, Choosing, [Next]_allVars
  PROVE  Choosing'
  <1>1. Remembered' /\ offered \subseteq offered' /\ Shape
    BY OfferedGrows DEF Sound
  <1>2. CASE UNCHANGED serving
    BY <1>1, <1>2 DEF Choosing, Chosen, Goes, serving
  <1>3. ASSUME NEW t \in Threads,
               \/ ReportStep(t) \/ BeginUpload(t) \/ (\E kind \in Kinds : Administer(t, kind))
               \/ CommitCreate(t) \/ CommitUpdate(t) \/ CommitDelete(t) \/ CommitUpload(t)
               \/ CommitStudent(t) \/ CommitApplication(t) \/ Refuse(t)
        PROVE  Choosing'
    <2>1. DOMAIN job[t] = DOMAIN NoJob
      BY DEF Choosing, Chosen
    <2>2. Others(t) /\ DOMAIN job'[t] = DOMAIN NoJob /\ at'[t] \notin Reading
      BY <1>1, <1>3, <2>1, OtherRecords
    <2>. QED
      BY <1>1, <2>2, ChosenCarry, ChosenUnless DEF Choosing
  <1>4. ASSUME NEW t \in Threads,
               \/ BeginRegistration(t) \/ ReadTargetUniversity(t) \/ ReadTargetProgram(t)
               \/ BeginApplication(t) \/ ReadProgram(t)
        PROVE  Choosing'
    BY <1>4, ReadingKeeps
  <1>5. AdvanceStage \/ Tick \/ UNCHANGED allVars => UNCHANGED serving
    BY DEF AdvanceStage, Tick, allVars, serving
  <1>6. ASSUME NEW t \in Threads, Receive(t)
        PROVE  \/ BeginUpload(t) \/ (\E kind \in Kinds : Administer(t, kind))
               \/ BeginRegistration(t) \/ BeginApplication(t)
    BY <1>6, KindNames DEF Receive, BeginCountry, BeginUniversity, BeginProgram, BeginTemplate
  <1>. QED
    BY <1>2, <1>3, <1>4, <1>5, <1>6 DEF Next, CatalogStep, Serve

-----------------------------------------------------------------------------
(* Students and applications                                               *)

LEMMA PeopleSteps ==
  ASSUME [Next]_allVars
  PROVE  \/ UNCHANGED people \/ AdvanceStage
         \/ \E t \in Threads : CommitStudent(t) \/ CommitApplication(t)
  <1>1. ASSUME NEW t \in Threads, ReportStep(t) \/ Receive(t) PROVE UNCHANGED people
    BY <1>1 DEF ReportStep, BeginStats, CountStudents, CountApplications, AnswerStats,
      BeginBilling, CountTenant, AnswerBilling, Receive, BeginCountry, BeginUniversity,
      BeginProgram, BeginTemplate, Administer, BeginUpload, BeginRegistration, BeginApplication
  <1>2. ASSUME NEW t \in Threads, Serve(t)
        PROVE  CommitStudent(t) \/ CommitApplication(t) \/ UNCHANGED people
    BY <1>2 DEF Serve, CommitCreate, CommitUpdate, CommitDelete, CommitUpload,
      ReadTargetUniversity, ReadTargetProgram, ReadProgram, Refuse
  <1>3. Tick \/ UNCHANGED allVars => UNCHANGED people
    BY DEF Tick, allVars
  <1>. QED
    BY <1>1, <1>2, <1>3 DEF Next, CatalogStep

Fields == {"tenant", "branch", "university", "program", "stage", "created"}

Filed ==
  /\ IsFiniteSet(DOMAIN students) /\ IsFiniteSet(DOMAIN applications)
  /\ \A a \in DOMAIN applications : DOMAIN applications[a] = Fields

\* Students stay as they are; of an application only the stage changes.
Grown ==
  /\ \A s \in DOMAIN students : s \in DOMAIN students' /\ students'[s] = students[s]
  /\ \A a \in DOMAIN applications :
       /\ a \in DOMAIN applications'
       /\ \A c \in Fields \ {"stage"} : applications'[a][c] = applications[a][c]

LEMMA Advanced ==
  ASSUME Filed, AdvanceStage
  PROVE  /\ students' = students /\ DOMAIN applications' = DOMAIN applications
         /\ \A a \in DOMAIN applications :
              /\ DOMAIN applications'[a] = Fields
              /\ \A c \in Fields \ {"stage"} : applications'[a][c] = applications[a][c]
  <1>1. PICK a \in DOMAIN applications, st \in Stages :
          applications' = [applications EXCEPT ![a].stage = st]
    BY DEF AdvanceStage
  <1>2. \A b \in DOMAIN applications : b # a => applications'[b] = applications[b]
    BY <1>1
  <1>3. applications'[a] = [applications[a] EXCEPT !.stage = st]
    BY <1>1
  <1>4. /\ DOMAIN applications'[a] = Fields
        /\ \A c \in Fields \ {"stage"} : applications'[a][c] = applications[a][c]
    BY <1>3 DEF Filed
  <1>. QED
    BY <1>1, <1>2, <1>4 DEF Filed, AdvanceStage

LEMMA PeopleKeep ==
  ASSUME Filed, [Next]_allVars
  PROVE  Filed' /\ Grown
  <1>1. CASE UNCHANGED people
    BY <1>1 DEF people, Filed, Grown
  <1>2. CASE AdvanceStage
    BY <1>2, Advanced DEF Filed, Grown
  <1>3. ASSUME NEW t \in Threads, CommitStudent(t) PROVE Filed' /\ Grown
    <2>1. /\ applications' = applications /\ DOMAIN students' = DOMAIN students \cup {job[t].row}
          /\ \A s \in DOMAIN students : students'[s] = students[s]
      BY <1>3 DEF CommitStudent, With
    <2>2. IsFiniteSet(DOMAIN students \cup {job[t].row})
      BY FS_AddElement DEF Filed
    <2>. QED
      BY <2>1, <2>2 DEF Filed, Grown
  <1>4. ASSUME NEW t \in Threads, CommitApplication(t) PROVE Filed' /\ Grown
    <2>1. /\ students' = students /\ DOMAIN applications' = DOMAIN applications \cup {job[t].row}
          /\ \A a \in DOMAIN applications : applications'[a] = applications[a]
          /\ \A a \in DOMAIN applications' \ DOMAIN applications :
               DOMAIN applications'[a] = Fields
      BY <1>4 DEF CommitApplication, With, Fields
    <2>2. IsFiniteSet(DOMAIN applications \cup {job[t].row})
      BY FS_AddElement DEF Filed
    <2>. QED
      BY <2>1, <2>2 DEF Filed, Grown
  <1>. QED
    BY <1>1, <1>2, <1>3, <1>4, PeopleSteps

(* What is named was on offer.                                             *)
LEMMA NamesKeep ==
  ASSUME Choosing, Filed, NamesWereOffered, [Next]_allVars
  PROVE  NamesWereOffered'
  <1>1. offered \subseteq offered'
    BY OfferedGrows
  <1>2. ASSUME UNCHANGED people PROVE NamesWereOffered'
    BY <1>1, <1>2 DEF people, NamesWereOffered, Named
  <1>3. ASSUME NEW t \in Threads, CommitStudent(t) PROVE NamesWereOffered'
    <2> DEFINE named == job[t].read
    <2>1. /\ applications' = applications
          /\ \A s \in DOMAIN students' : \/ s \in DOMAIN students /\ students'[s] = students[s]
                                       \/ students'[s].targets = named
      BY <1>3 DEF CommitStudent, With
    <2>2. /\ named[1] # None /\ named[2] # None => <<"university", named[2], named[1]>> \in offered
          /\ named[2] # None /\ named[3] # None => <<"program", named[3], named[2]>> \in offered
      BY <1>3 DEF CommitStudent, Choosing, Chosen, Goes
    <2>. QED
      BY <1>1, <2>1, <2>2 DEF NamesWereOffered, Named
  <1>4. ASSUME NEW t \in Threads, CommitApplication(t) PROVE NamesWereOffered'
    <2> DEFINE named == job[t].read
    <2>1. /\ students' = students
          /\ \A a \in DOMAIN applications' :
               \/ a \in DOMAIN applications /\ applications'[a] = applications[a]
               \/ applications'[a].university = named[1] /\ applications'[a].program = named[2]
      BY <1>4 DEF CommitApplication, With
    <2>2. <<"program", named[2], named[1]>> \in offered
      BY <1>4 DEF CommitApplication, Choosing, Chosen
    <2>. QED
      BY <1>1, <2>1, <2>2 DEF NamesWereOffered, Named
  <1>5. CASE AdvanceStage
    <2>1. /\ students' = students /\ DOMAIN applications' = DOMAIN applications
          /\ \A a \in DOMAIN applications :
               /\ applications'[a].university = applications[a].university
               /\ applications'[a].program = applications[a].program
      BY <1>5, Advanced DEF Fields
    <2>. QED
      BY <1>1, <2>1 DEF NamesWereOffered, Named
  <1>. QED
    BY <1>2, <1>3, <1>4, <1>5, PeopleSteps

LEMMA FormsHold == ASSUME Sound PROVE FormsAreAccepted
  <1>1. \A kind \in Kinds : \A r \in DOMAIN rows[kind] : r # None
    BY DEF Sound, Numbered, Old, None
  <1>. QED
    BY <1>1, KindNames DEF FormsAreAccepted, PublicCountries, PublicUniversities, PublicPrograms,
      AcceptsCountry, AcceptsUniversity, AcceptsProgram, Of, Under

LEMMA StartIsChosen == ASSUME AnalyticsInit PROVE Choosing /\ Filed /\ NamesWereOffered
  <1>1. EarlierIsValid
    BY CatalogAssumption
  <1>2. /\ rows = [kind \in Kinds |-> IF kind = "template" THEN Earlier.template ELSE Seed[kind]]
        /\ students = Earlier.students /\ applications = Earlier.applications
        /\ offered = Pairs(rows)
        /\ at = [t \in Threads |-> "idle"] /\ job = [t \in Threads |-> NoJob]
    BY DEF AnalyticsInit, Init
  <1>3. Choosing
    BY <1>2 DEF Choosing, Remembered, Chosen
  <1>4. Filed
    BY <1>1, <1>2 DEF EarlierIsValid, Filed, Fields
  <1>5. Pairs(Seed) = offered
    BY <1>2, KindNames DEF Pairs
  <1>6. NamesWereOffered
    BY <1>1, <1>2, <1>5 DEF EarlierIsValid, NamesWereOffered
  <1>. QED
    BY <1>3, <1>4, <1>6

(* What an application or a student's targets name belonged together at     *)
(* some moment, and a form offers exactly what registration accepts.        *)
THEOREM ChoicesWereOffers == Spec => []ChoicesAreOffers
  <1>. DEFINE I == Choosing /\ Filed /\ NamesWereOffered
  <1>1. AnalyticsInit => I
    BY StartIsChosen
  <1>2. Sound /\ I /\ [Next]_allVars => I'
    BY ChoosingKeeps, PeopleKeep, NamesKeep
  <1>3. Sound /\ I => ChoicesAreOffers
    BY FormsHold DEF ChoicesAreOffers
  <1>. QED
    BY <1>1, <1>2, <1>3, SoundAlways, PTL DEF Spec

-----------------------------------------------------------------------------
(* The figures of a report                                                 *)

LEMMA Countable ==
  ASSUME Filed, NEW tn, NEW range
  PROVE  /\ IsFiniteSet(StudentsOf(tn, range)) /\ Cardinality(StudentsOf(tn, range)) \in Nat
         /\ IsFiniteSet(ApplicationsOf(tn, range)) /\ Cardinality(ApplicationsOf(tn, range)) \in Nat
  <1>1. StudentsOf(tn, range) \subseteq DOMAIN students
    BY DEF StudentsOf
  <1>2. ApplicationsOf(tn, range) \subseteq DOMAIN applications
    BY DEF ApplicationsOf
  <1>. QED
    BY <1>1, <1>2, FS_Subset, FS_CardinalityType DEF Filed

LEMMA CountableNext ==
  ASSUME Filed', NEW tn, NEW range
  PROVE  /\ IsFiniteSet(StudentsOf(tn, range)') /\ Cardinality(StudentsOf(tn, range)') \in Nat
         /\ IsFiniteSet(ApplicationsOf(tn, range)')
         /\ Cardinality(ApplicationsOf(tn, range)') \in Nat
  <1>1. /\ StudentsOf(tn, range)' \subseteq DOMAIN students'
        /\ ApplicationsOf(tn, range)' \subseteq DOMAIN applications'
    BY DEF StudentsOf, ApplicationsOf
  <1>. QED
    BY <1>1, FS_Subset, FS_CardinalityType DEF Filed

LEMMA CountsGrow ==
  ASSUME Filed, Filed', Grown, NEW tn, NEW range
  PROVE  /\ Cardinality(StudentsOf(tn, range)) <= Cardinality(StudentsOf(tn, range)')
         /\ Cardinality(ApplicationsOf(tn, range)) <= Cardinality(ApplicationsOf(tn, range)')
  <1>1. StudentsOf(tn, range) \subseteq StudentsOf(tn, range)'
    BY DEF StudentsOf, Grown
  <1>2. \A a \in DOMAIN applications :
          /\ a \in DOMAIN applications' /\ applications'[a].tenant = applications[a].tenant
          /\ applications'[a].created = applications[a].created
    BY DEF Grown, Fields
  <1>3. ApplicationsOf(tn, range) \subseteq ApplicationsOf(tn, range)'
    BY <1>2 DEF ApplicationsOf
  <1>. QED
    BY <1>1, <1>3, CountableNext, FS_Subset

LEMMA Disjoint ==
  ASSUME NEW S, NEW T, IsFiniteSet(S), IsFiniteSet(T), S \cap T = {}
  PROVE  /\ IsFiniteSet(S \cup T) /\ Cardinality(S) \in Nat /\ Cardinality(T) \in Nat
         /\ Cardinality(S \cup T) = Cardinality(S) + Cardinality(T)
  <1>1. Cardinality(S \cap T) = 0
    BY FS_EmptySet
  <1>2. Cardinality(S \cup T) = Cardinality(S) + Cardinality(T) - Cardinality(S \cap T)
    BY FS_Union
  <1>3. Cardinality(S) \in Nat /\ Cardinality(T) \in Nat /\ IsFiniteSet(S \cup T)
    BY FS_Union, FS_CardinalityType
  <1>. QED
    BY <1>1, <1>2, <1>3

(* What is active or has ended is everything.                              *)
LEMMA TallyAdds ==
  ASSUME NEW apps, IsFiniteSet(apps)
  PROVE  LET row == Tally(apps) IN
         /\ row.applications = Cardinality(apps)
         /\ row.applications = row.enrolled + row.rejected + row.withdrawn + row.active
  <1> DEFINE E == {a \in apps : applications[a].stage = "enrolled"}
             R == {a \in apps : applications[a].stage = "rejected"}
             W == {a \in apps : applications[a].stage = "withdrawn"}
             A == {a \in apps : applications[a].stage \notin Terminal}
  <1>1. Tally(apps) = [applications |-> Cardinality(apps), enrolled |-> Cardinality(E),
                       rejected |-> Cardinality(R), withdrawn |-> Cardinality(W),
                       active |-> Cardinality(A)]
    BY DEF Tally
  <1>2. /\ IsFiniteSet(E) /\ IsFiniteSet(R) /\ IsFiniteSet(W) /\ IsFiniteSet(A)
        /\ Cardinality(E) \in Nat /\ Cardinality(R) \in Nat /\ Cardinality(W) \in Nat
        /\ Cardinality(A) \in Nat
    <2>1. E \in SUBSET apps /\ R \in SUBSET apps /\ W \in SUBSET apps /\ A \in SUBSET apps
      OBVIOUS
    <2>. HIDE DEF E, R, W, A
    <2>. QED
      BY <2>1, FS_Subset, FS_CardinalityType
  <1>3. /\ apps = (E \cup R) \cup (W \cup A) /\ E \cap R = {} /\ W \cap A = {}
        /\ (E \cup R) \cap (W \cup A) = {}
    BY DEF Terminal
  <1>. HIDE DEF E, R, W, A
  <1>4. /\ IsFiniteSet(E \cup R) /\ Cardinality(E \cup R) = Cardinality(E) + Cardinality(R)
        /\ IsFiniteSet(W \cup A) /\ Cardinality(W \cup A) = Cardinality(W) + Cardinality(A)
    BY <1>2, <1>3, Disjoint
  <1>5. Cardinality(apps) = Cardinality(E \cup R) + Cardinality(W \cup A)
    BY <1>3, <1>4, Disjoint
  <1>. QED
    BY <1>1, <1>2, <1>4, <1>5

\* What was counted first, the students and the applications counted since.
Before(range, first) ==
  \A tn \in Tenants :
    /\ first[tn].students \in Nat /\ first[tn].applications \in Nat
    /\ first[tn].students <= Cardinality(StudentsOf(tn, range))
    /\ first[tn].applications <= Cardinality(ApplicationsOf(tn, range))

Between(range, first, counts, some) ==
  \A tn \in some :
    /\ counts[tn] \in Nat /\ first[tn].students <= counts[tn]
    /\ counts[tn] <= Cardinality(StudentsOf(tn, range))

Tallied(range, first, tallies) ==
  \A tn \in Tenants :
    LET row == tallies[tn] IN
    /\ row.applications \in Nat /\ first[tn].applications <= row.applications
    /\ row.applications <= Cardinality(ApplicationsOf(tn, range))
    /\ row.applications = row.enrolled + row.rejected + row.withdrawn + row.active

(* What a report under way has read.                                       *)
Counting(t) ==
  LET read == job[t].read IN
  /\ at[t] = "count students" =>
       \E range, first : read = <<range, first>> /\ Before(range, first)
  /\ at[t] = "count applications" =>
       \E range, first, counts :
         /\ read = <<range, first, counts>> /\ Before(range, first)
         /\ Between(range, first, counts, Tenants)
  /\ at[t] = "answer stats" =>
       \E range, first, counts, tallies :
         /\ read = <<range, first, counts, tallies>>
         /\ Between(range, first, counts, Tenants) /\ Tallied(range, first, tallies)
  /\ at[t] = "billing" =>
       \E first, counts :
         /\ {2, 3} \subseteq DOMAIN read /\ read[2] = first /\ read[3] = counts
         /\ Before(Anytime, first)
         /\ DOMAIN counts \subseteq Tenants /\ Between(Anytime, first, counts, DOMAIN counts)

LEMMA FiguresStay ==
  ASSUME Filed, Filed', Grown, NEW range, NEW first, NEW counts, NEW tallies, NEW some
  PROVE  /\ Before(range, first) => Before(range, first)'
         /\ Between(range, first, counts, some) /\ Before(range, first) /\ some \subseteq Tenants
              => Between(range, first, counts, some)'
         /\ Between(range, first, counts, Tenants) => Between(range, first, counts, Tenants)'
         /\ Tallied(range, first, tallies) => Tallied(range, first, tallies)'
  <1>1. \A tn \in Tenants :
          /\ Cardinality(StudentsOf(tn, range)) <= Cardinality(StudentsOf(tn, range)')
          /\ Cardinality(ApplicationsOf(tn, range)) <= Cardinality(ApplicationsOf(tn, range)')
          /\ Cardinality(StudentsOf(tn, range)) \in Nat
          /\ Cardinality(ApplicationsOf(tn, range)) \in Nat
          /\ Cardinality(StudentsOf(tn, range)') \in Nat
          /\ Cardinality(ApplicationsOf(tn, range)') \in Nat
    BY Countable, CountsGrow, CountableNext
  <1>2. Before(range, first) => Before(range, first)'
    BY <1>1 DEF Before
  <1>3. ASSUME NEW others, others \subseteq Tenants, Between(range, first, counts, others)
        PROVE  Between(range, first, counts, others)'
    BY <1>1, <1>3 DEF Between
  <1>4. Tallied(range, first, tallies) => Tallied(range, first, tallies)'
    BY <1>1 DEF Tallied
  <1>. QED
    BY <1>2, <1>3, <1>4

Reporting == {"count students", "count applications", "answer stats", "billing"}

LEMMA CountingCarry ==
  ASSUME Filed, Filed', Grown, NEW t \in Threads, Counting(t), at'[t] = at[t], job'[t] = job[t]
  PROVE  Counting(t)'
  <1>1. CASE at[t] = "count students"
    <2>1. PICK range, first : job[t].read = <<range, first>> /\ Before(range, first)
      BY <1>1 DEF Counting
    <2>2. Before(range, first)'
      BY <2>1, FiguresStay
    <2>. QED
      BY <1>1, <2>1, <2>2 DEF Counting
  <1>2. CASE at[t] = "count applications"
    <2>1. PICK range, first, counts :
            /\ job[t].read = <<range, first, counts>> /\ Before(range, first)
            /\ Between(range, first, counts, Tenants)
      BY <1>2 DEF Counting
    <2>2. Before(range, first)' /\ Between(range, first, counts, Tenants)'
      BY <2>1, FiguresStay
    <2>. QED
      BY <1>2, <2>1, <2>2 DEF Counting
  <1>3. CASE at[t] = "answer stats"
    <2>1. PICK range, first, counts, tallies :
            /\ job[t].read = <<range, first, counts, tallies>>
            /\ Between(range, first, counts, Tenants) /\ Tallied(range, first, tallies)
      BY <1>3 DEF Counting
    <2>2. Between(range, first, counts, Tenants)' /\ Tallied(range, first, tallies)'
      BY <2>1, FiguresStay
    <2>. QED
      BY <1>3, <2>1, <2>2 DEF Counting
  <1>4. CASE at[t] = "billing"
    <2>1. PICK first, counts :
            /\ {2, 3} \subseteq DOMAIN job[t].read
            /\ job[t].read[2] = first /\ job[t].read[3] = counts
            /\ Before(Anytime, first)
            /\ DOMAIN counts \subseteq Tenants /\ Between(Anytime, first, counts, DOMAIN counts)
      BY <1>4 DEF Counting
    <2>2. Before(Anytime, first)' /\ Between(Anytime, first, counts, DOMAIN counts)'
      BY <2>1, FiguresStay
    <2>. QED
      BY <1>4, <2>1, <2>2 DEF Counting
  <1>. QED
    BY <1>1, <1>2, <1>3, <1>4 DEF Counting

LEMMA CatalogDoesNotReport ==
  ASSUME Shape, NEW t \in Threads, Receive(t) \/ Serve(t)
  PROVE  Others(t) /\ at'[t] \notin Reporting
  <1>1. ASSUME NEW step, NEW request, Begin(t, step, request) \/ Go(t, step, request),
               step \notin Reporting
        PROVE  Others(t) /\ at'[t] \notin Reporting
    BY <1>1, Begun, Gone
  <1>2. /\ {"create", "update", "delete", "upload", "idle"} \cap Reporting = {}
        /\ {"target university", "target program", "register", "program", "apply"}
              \cap Reporting = {}
    BY DEF Reporting
  <1>3. CASE Receive(t)
    <2>1. ASSUME NEW kind, Administer(t, kind) PROVE Others(t) /\ at'[t] \notin Reporting
      BY <1>1, <1>2, <2>1 DEF Administer
    <2>2. CASE BeginUpload(t)
      BY <1>1, <1>2, <2>2 DEF BeginUpload
    <2>3. CASE BeginRegistration(t)
      BY <1>1, <1>2, <2>3 DEF BeginRegistration
    <2>4. CASE BeginApplication(t)
      BY <1>1, <1>2, <2>4 DEF BeginApplication
    <2>. QED
      BY <1>3, <2>1, <2>2, <2>3, <2>4
        DEF Receive, BeginCountry, BeginUniversity, BeginProgram, BeginTemplate
  <1>4. CASE Serve(t)
    <2>1. CASE End(t)
      BY <1>2, <2>1, Ended
    <2>2. CASE ReadTargetUniversity(t)
      BY <1>1, <1>2, <2>2 DEF ReadTargetUniversity
    <2>3. CASE ReadTargetProgram(t)
      BY <1>1, <1>2, <2>3 DEF ReadTargetProgram
    <2>4. CASE ReadProgram(t)
      BY <1>1, <1>2, <2>4 DEF ReadProgram
    <2>. QED
      BY <1>4, <2>1, <2>2, <2>3, <2>4 DEF Serve, CommitCreate, CommitUpdate, CommitDelete,
        CommitUpload, CommitStudent, CommitApplication, Refuse
  <1>. QED
    BY <1>3, <1>4

LEMMA FirstCount ==
  ASSUME Filed, NEW range PROVE Before(range, Counted(range))
  BY Countable DEF Before, Counted

LEMMA AppendedThird ==
  ASSUME NEW s, NEW w, NEW x, NEW y, NEW z, s = <<w, x, y>>
  PROVE  Append(s, z) = <<w, x, y, z>>
  <1> DEFINE S == {w, x, y, z}
             four == Append(<<w, x, y>>, z)
  <1>1. /\ <<w, x, y>> \in Seq(S) /\ <<w, x, y, z>> \in Seq(S) /\ z \in S
        /\ Len(<<w, x, y>>) = 3 /\ Len(<<w, x, y, z>>) = 4
    OBVIOUS
  <1>2. four \in Seq(S) /\ Len(four) = 4 /\ four[1] = w /\ four[2] = x /\ four[3] = y /\ four[4] = z
    BY <1>1, AppendProperties
  <1>3. \A i \in 1..4 : four[i] = <<w, x, y, z>>[i]
    BY <1>2
  <1>4. four = <<w, x, y, z>>
    <2>. HIDE DEF four
    <2>. QED
      BY <1>1, <1>2, <1>3, SeqEqual
  <1>. QED
    BY <1>4, Zenon

LEMMA BeginStatsCounts ==
  ASSUME Shape, Filed, Filed', Grown, NEW t \in Threads, BeginStats(t)
  PROVE  Counting(t)'
  <1>1. PICK range : Begin(t, "count students", [NoJob EXCEPT !.read = <<range, Counted(range)>>])
    BY DEF BeginStats
  <1>2. PICK first : first = Counted(range)
    OBVIOUS
  <1>3. Before(range, first)'
    BY <1>2, FirstCount, FiguresStay
  <1>4. at'[t] = "count students" /\ job'[t].read = <<range, first>>
    <2> DEFINE request == [NoJob EXCEPT !.read = <<range, first>>]
    <2>1. at'[t] = "count students" /\ job'[t] = request
      BY <1>1, <1>2, Begun
    <2>2. request.read = <<range, first>>
      BY DEF NoJob
    <2>. QED
      BY <2>1, <2>2
  <1>. QED
    BY <1>3, <1>4 DEF Counting

LEMMA CountStudentsCounts ==
  ASSUME Shape, Filed, Filed', Grown, NEW t \in Threads, DOMAIN job[t] = DOMAIN NoJob,
         Counting(t), CountStudents(t)
  PROVE  Counting(t)'
  <1>1. PICK range, first : job[t].read = <<range, first>> /\ Before(range, first)
    BY DEF CountStudents, Counting
  <1>2. PICK counts : counts = [tn \in Tenants |-> Cardinality(StudentsOf(tn, range))]
    OBVIOUS
  <1>3. Go(t, "count applications", [job[t] EXCEPT !.read = Append(@, counts)])
    <2>1. job[t].read[1] = range
      BY <1>1
    <2>. QED
      BY <1>2, <2>1 DEF CountStudents
  <1>4. /\ at'[t] = "count applications" /\ job'[t].read = Append(job[t].read, counts)
    BY <1>3, ReadsOn
  <1>5. job'[t].read = <<range, first, counts>>
    <2>1. Append(job[t].read, counts) = <<range, first, counts>>
      BY <1>1, AppendedTo
    <2>. QED
      BY <1>4, <2>1, Zenon
  <1>6. Between(range, first, counts, Tenants)
    BY <1>1, <1>2, Countable DEF Between, Before
  <1>7. Before(range, first)' /\ Between(range, first, counts, Tenants)'
    BY <1>1, <1>6, FiguresStay
  <1>. QED
    BY <1>4, <1>5, <1>7 DEF Counting

LEMMA CountApplicationsCounts ==
  ASSUME Shape, Filed, Filed', Grown, NEW t \in Threads, DOMAIN job[t] = DOMAIN NoJob,
         Counting(t), CountApplications(t)
  PROVE  Counting(t)'
  <1>1. PICK range, first, counts :
          /\ job[t].read = <<range, first, counts>> /\ Before(range, first)
          /\ Between(range, first, counts, Tenants)
    BY DEF CountApplications, Counting
  <1>2. PICK tallies : tallies = [tn \in Tenants |-> Tally(ApplicationsOf(tn, range))]
    OBVIOUS
  <1>3. Go(t, "answer stats", [job[t] EXCEPT !.read = Append(@, tallies)])
    <2>1. job[t].read[1] = range
      BY <1>1
    <2>. QED
      BY <1>2, <2>1 DEF CountApplications
  <1>4. /\ at'[t] = "answer stats" /\ job'[t].read = Append(job[t].read, tallies)
    BY <1>3, ReadsOn
  <1>5. job'[t].read = <<range, first, counts, tallies>>
    <2>1. Append(job[t].read, tallies) = <<range, first, counts, tallies>>
      BY <1>1, AppendedThird
    <2>. QED
      BY <1>4, <2>1, Zenon
  <1>6. Tallied(range, first, tallies)
    <2>1. ASSUME NEW tn \in Tenants
          PROVE  LET row == tallies[tn] IN
                 /\ row.applications = Cardinality(ApplicationsOf(tn, range))
                 /\ row.applications = row.enrolled + row.rejected + row.withdrawn + row.active
      BY <1>2, Countable, TallyAdds
    <2>. QED
      BY <1>1, <2>1, Countable DEF Tallied, Before
  <1>7. Tallied(range, first, tallies)' /\ Between(range, first, counts, Tenants)'
    BY <1>1, <1>6, FiguresStay
  <1>. QED
    BY <1>4, <1>5, <1>7 DEF Counting

LEMMA BeginBillingCounts ==
  ASSUME Shape, Filed, Filed', Grown, NEW t \in Threads, BeginBilling(t)
  PROVE  Counting(t)'
  <1>1. PICK first, none : first = Counted(Anytime) /\ none = <<>>
    OBVIOUS
  <1>2. Before(Anytime, first)'
    BY <1>1, FirstCount, FiguresStay
  <1>3. at'[t] = "billing" /\ job'[t].read = <<Anytime, first, none>>
    <2> DEFINE request == [NoJob EXCEPT !.read = <<Anytime, first, none>>]
    <2>1. at'[t] = "billing" /\ job'[t] = request
      BY <1>1, Begun DEF BeginBilling
    <2>2. request.read = <<Anytime, first, none>>
      BY DEF NoJob
    <2>. QED
      BY <2>1, <2>2
  <1>4. DOMAIN none = {}
    BY <1>1
  <1>5. /\ {2, 3} \subseteq DOMAIN job'[t].read
        /\ job'[t].read[2] = first /\ job'[t].read[3] = none
    BY <1>3
  <1>6. Between(Anytime, first, none, DOMAIN none)'
    BY <1>4 DEF Between
  <1>. QED
    BY <1>2, <1>3, <1>4, <1>5, <1>6 DEF Counting

LEMMA CountTenantCounts ==
  ASSUME Shape, Filed, Filed', Grown, NEW t \in Threads, DOMAIN job[t] = DOMAIN NoJob,
         Counting(t), CountTenant(t)
  PROVE  Counting(t)'
  <1>1. PICK first, counts :
          /\ {2, 3} \subseteq DOMAIN job[t].read
          /\ job[t].read[2] = first /\ job[t].read[3] = counts
          /\ Before(Anytime, first)
          /\ DOMAIN counts \subseteq Tenants /\ Between(Anytime, first, counts, DOMAIN counts)
    BY DEF CountTenant, Counting
  <1>2. PICK tn \in Tenants : Go(t, "billing", [job[t] EXCEPT !.read[3] =
                                 With(@, tn, Cardinality(StudentsOf(tn, Anytime)))])
    BY DEF CountTenant
  <1>3. PICK more : more = With(counts, tn, Cardinality(StudentsOf(tn, Anytime)))
    OBVIOUS
  <1>4. at'[t] = "billing" /\ job'[t].read = [job[t].read EXCEPT ![3] = more]
    <2> DEFINE request == [job[t] EXCEPT !.read[3] =
                                 With(@, tn, Cardinality(StudentsOf(tn, Anytime)))]
    <2>1. at'[t] = "billing" /\ job'[t] = request
      BY <1>2, Gone
    <2>2. request.read = [job[t].read EXCEPT ![3] = more]
      BY <1>1, <1>3 DEF NoJob
    <2>. QED
      BY <2>1, <2>2
  <1>5. /\ {2, 3} \subseteq DOMAIN job'[t].read
        /\ job'[t].read[2] = first /\ job'[t].read[3] = more
    BY <1>1, <1>4
  <1>6. DOMAIN more \subseteq Tenants /\ Between(Anytime, first, more, DOMAIN more)
    BY <1>1, <1>3, Countable DEF With, Between, Before
  <1>7. Before(Anytime, first)' /\ Between(Anytime, first, more, DOMAIN more)'
    BY <1>1, <1>6, FiguresStay
  <1>. QED
    BY <1>4, <1>5, <1>6, <1>7 DEF Counting

LEMMA CountingKeeps ==
  ASSUME Sound, Choosing, Filed, \A t \in Threads : Counting(t), [Next]_allVars
  PROVE  \A t \in Threads : Counting(t)'
  <1>1. Filed' /\ Grown /\ Shape
    BY PeopleKeep DEF Sound
  <1>2. ASSUME UNCHANGED serving, NEW t \in Threads PROVE Counting(t)'
    BY <1>1, <1>2, CountingCarry DEF serving
  <1>3. ASSUME NEW t \in Threads, Others(t), Counting(t)' PROVE \A u \in Threads : Counting(u)'
    BY <1>1, <1>3, CountingCarry DEF Others
  <1>4. ASSUME NEW t \in Threads, Receive(t) \/ Serve(t) PROVE \A u \in Threads : Counting(u)'
    <2>1. Others(t) /\ at'[t] \notin Reporting
      BY <1>1, <1>4, CatalogDoesNotReport
    <2>2. Counting(t)'
      BY <2>1 DEF Counting, Reporting
    <2>. QED
      BY <1>3, <2>1, <2>2
  <1>5. ASSUME NEW t \in Threads, ReportStep(t) PROVE \A u \in Threads : Counting(u)'
    <2>1. DOMAIN job[t] = DOMAIN NoJob
      BY DEF Choosing, Chosen
    <2>2. Others(t)
      BY <1>1, <1>5, <2>1, OtherRecords
    <2>3. ASSUME AnswerStats(t) \/ AnswerBilling(t) PROVE Counting(t)'
      <3>1. at'[t] = "idle"
        BY <1>1, <2>3, Ended DEF AnswerStats, AnswerBilling
      <3>. QED
        BY <3>1 DEF Counting
    <2>4. Counting(t)'
      BY <1>1, <1>5, <2>1, <2>3, BeginStatsCounts, CountStudentsCounts, CountApplicationsCounts,
        BeginBillingCounts, CountTenantCounts DEF ReportStep
    <2>. QED
      BY <1>3, <2>2, <2>4
  <1>6. AdvanceStage \/ Tick \/ UNCHANGED allVars => UNCHANGED serving
    BY DEF AdvanceStage, Tick, allVars, serving
  <1>. QED
    BY <1>2, <1>4, <1>5, <1>6 DEF Next, CatalogStep

LEMMA CountingIsRecent ==
  ASSUME Filed, \A t \in Threads : Counting(t) PROVE StatsAreRecent
  <1>1. ASSUME NEW t \in Threads, at[t] = "answer stats", NEW tn \in Tenants
        PROVE  LET read == job[t].read
                   today == Counted(read[1])
                   students_ == read[3][tn]
                   apps == read[4][tn]
               IN  /\ read[2][tn].students <= students_ /\ students_ <= today[tn].students
                   /\ read[2][tn].applications <= apps.applications
                   /\ apps.applications <= today[tn].applications
                   /\ apps.applications = apps.enrolled + apps.rejected + apps.withdrawn + apps.active
    <2>1. PICK range, first, counts, tallies :
            /\ job[t].read = <<range, first, counts, tallies>>
            /\ Between(range, first, counts, Tenants) /\ Tallied(range, first, tallies)
      BY <1>1 DEF Counting
    <2>2. /\ job[t].read[1] = range /\ job[t].read[2] = first
          /\ job[t].read[3] = counts /\ job[t].read[4] = tallies
      BY <2>1
    <2>3. /\ Counted(range)[tn].students = Cardinality(StudentsOf(tn, range))
          /\ Counted(range)[tn].applications = Cardinality(ApplicationsOf(tn, range))
      BY DEF Counted
    <2>. QED
      BY <2>1, <2>2, <2>3 DEF Between, Tallied
  <1>2. ASSUME NEW t \in Threads, at[t] = "billing", NEW tn \in DOMAIN job[t].read[3]
        PROVE  LET read == job[t].read IN
               /\ read[2][tn].students <= read[3][tn]
               /\ read[3][tn] <= Counted(Anytime)[tn].students
    <2>1. PICK first, counts :
            /\ job[t].read[2] = first /\ job[t].read[3] = counts
            /\ DOMAIN counts \subseteq Tenants /\ Between(Anytime, first, counts, DOMAIN counts)
      BY <1>2 DEF Counting
    <2>2. Counted(Anytime)[tn].students = Cardinality(StudentsOf(tn, Anytime))
      BY <1>2, <2>1 DEF Counted
    <2>. QED
      BY <1>2, <2>1, <2>2 DEF Between
  <1>. QED
    BY <1>1, <1>2 DEF StatsAreRecent

(* A figure of the platform lies between what it was when the report began  *)
(* and what it is when it is answered, and what has become of a tenant's    *)
(* applications adds up.                                                    *)
THEOREM FiguresAreRecent == Spec => []StatsAreRecent
  <1>. DEFINE I == Choosing /\ Filed /\ NamesWereOffered /\ \A t \in Threads : Counting(t)
  <1>1. AnalyticsInit => I
    <2>1. AnalyticsInit => \A t \in Threads : Counting(t)
      BY DEF AnalyticsInit, Init, Counting
    <2>. QED
      BY <2>1, StartIsChosen
  <1>2. Sound /\ I /\ [Next]_allVars => I'
    BY ChoosingKeeps, PeopleKeep, NamesKeep, CountingKeeps
  <1>3. I => StatsAreRecent
    BY CountingIsRecent
  <1>. QED
    BY <1>1, <1>2, <1>3, SoundAlways, PTL DEF Spec
=============================================================================
