--------------------------- MODULE MasterCatalog ---------------------------
(***************************************************************************)
(* The master data a consultancy administers and what is built on it:      *)
(* countries, universities and programs (routers/master_data_admin.py,     *)
(* master_data.py), checklist templates (routers/checklist_templates.py),  *)
(* the targets students register with (auth/master_data_validation.py) and *)
(* the applications that name a university and a program                   *)
(* (routers/applications.py create_application).                           *)
(*                                                                         *)
(* A request looks its rows up with one statement each and writes with its *)
(* commit; other requests commit in between.  What names a row by a        *)
(* foreign key is protected by the database, which looks again at the      *)
(* commit; applications and targets are plain numbers, which it does not.  *)
(***************************************************************************)
EXTENDS Integers, Sequences, FiniteSets, Functions

CONSTANTS
  Threads,       \* threads of the server
  Tenants,
  Seed,          \* the demo catalog: [country, university, program] rows by id
  Branches,      \* the branches it has, as [id -> tenant]
  Earlier,       \* what was entered since: [template, uploads, students, applications]
  Start,         \* the clock when the server starts
  MaxRequests    \* bound: requests in a behavior

None == 0
Kinds == {"country", "university", "program", "template"}

\* A row of the catalog: whose it is, and the row it belongs to.
Row == [tenant : Tenants, parent : Nat]

\* The kind of row a row of each kind belongs to.
ParentKind == [university |-> "country", program |-> "university", template |-> "program"]

\* validate_demo_catalog, as far as it is about master data
SeedIsValid ==
  \A kind \in {"country", "university", "program"} : \A r \in DOMAIN Seed[kind] :
    LET row == Seed[kind][r] IN
    /\ row \in Row
    /\ kind # "country" =>
         /\ row.parent \in DOMAIN Seed[ParentKind[kind]]
         /\ Seed[ParentKind[kind]][row.parent].tenant = row.tenant

\* The pairs of a row and its parent that a form may name.
Pairs(catalogue) ==
  UNION {{<<kind, r, catalogue[kind][r].parent>> : r \in DOMAIN catalogue[kind]} :
           kind \in {"university", "program"}}

\* What applications and students name is among these pairs.
Named(apps, registered, pairs) ==
  /\ \A a \in DOMAIN apps : <<"program", apps[a].program, apps[a].university>> \in pairs
  /\ \A s \in DOMAIN registered :
       LET named == registered[s].targets IN
       /\ named[1] # None /\ named[2] # None => <<"university", named[2], named[1]>> \in pairs
       /\ named[2] # None /\ named[3] # None => <<"program", named[3], named[2]>> \in pairs

\* What was entered before the server started, on the demo catalog as it still is.
EarlierIsValid ==
  /\ \A k \in DOMAIN Earlier.template :
       LET row == Earlier.template[k] IN
       /\ row \in Row
       /\ row.parent # None => /\ row.parent \in DOMAIN Seed.program
                              /\ Seed.program[row.parent].tenant = row.tenant
  /\ \A d \in DOMAIN Earlier.uploads : Earlier.uploads[d] \in {None} \cup DOMAIN Earlier.template
  /\ IsFiniteSet(DOMAIN Earlier.students) /\ IsFiniteSet(DOMAIN Earlier.applications)
  /\ \A a \in DOMAIN Earlier.applications :
       DOMAIN Earlier.applications[a] = {"tenant", "branch", "university", "program", "stage", "created"}
  /\ Named(Earlier.applications, Earlier.students, Pairs(Seed))

\* Rows that are there from the start are numbered before those of the requests (NewId).
EarlierIsNumbered ==
  /\ \A kind \in {"country", "university", "program"} : DOMAIN Seed[kind] \subseteq 1..9
  /\ \A c \in DOMAIN Seed.country : Seed.country[c].parent = None
  /\ DOMAIN Earlier.template \subseteq 1..9

ASSUME CatalogAssumption ==
  /\ IsFiniteSet(Threads) /\ IsFiniteSet(Tenants) /\ MaxRequests \in Nat /\ Start \in Nat
  /\ SeedIsValid /\ EarlierIsValid /\ EarlierIsNumbered

VARIABLES
  rows,          \* [Kinds -> [id -> [tenant, parent]]]: the catalog and the templates
  uploads,       \* uploaded documents: [id -> template or None]
  students,      \* registered students: [id -> [tenant, branch, targets, created]]
  applications,  \* [id -> [tenant, branch, university, program, stage, created]]
  offered,       \* history: pairs <<kind, row, parent>> that were in the catalog
  now,           \* the server's clock
  at,            \* the step of its request each thread is at
  job,           \* the request each thread runs
  requests       \* requests received so far; numbers the rows they create

catalog == <<rows, uploads, offered>>
people == <<students, applications>>
serving == <<at, job, requests>>

NoJob == [row |-> None, kind |-> "country", tenant |-> None, branch |-> None,
          parent |-> None, read |-> <<>>]

\* The rows of a tenant, and those of one parent among them.
Of(kind, tn) == {r \in DOMAIN rows[kind] : rows[kind][r].tenant = tn}
Under(kind, tn, p) == {r \in Of(kind, tn) : rows[kind][r].parent = p}

\* _persist_demo_catalog
Init ==
  /\ rows = [kind \in Kinds |-> IF kind = "template" THEN Earlier.template ELSE Seed[kind]]
  /\ uploads = Earlier.uploads /\ students = Earlier.students
  /\ applications = Earlier.applications
  /\ offered = Pairs(rows)
  /\ now = Start
  /\ at = [t \in Threads |-> "idle"] /\ job = [t \in Threads |-> NoJob]
  /\ requests = 0

Begin(t, step, request) ==
  /\ at[t] = "idle" /\ requests < MaxRequests
  /\ at' = [at EXCEPT ![t] = step]
  /\ job' = [job EXCEPT ![t] = request]
  /\ requests' = requests + 1

Go(t, step, request) ==
  /\ at' = [at EXCEPT ![t] = step]
  /\ job' = [job EXCEPT ![t] = request]
  /\ UNCHANGED requests

End(t) == Go(t, "idle", NoJob)

\* Rows are numbered by the request that creates them, after the seeded ones.
NewId == 10 + requests

-----------------------------------------------------------------------------
(* Administration: a request resolves what it names, then commits           *)

Parents(kind, tn) ==
  CASE kind = "country" -> {None}
    [] kind = "template" -> Of("program", tn) \cup {None}
    [] OTHER -> Of(ParentKind[kind], tn)

\* An update writes the columns it changes; a name or another plain column may change too,
\* which nothing here depends on.
Administer(t, kind) ==
  \E tn \in Tenants :
    /\ \/ \E p \in Parents(kind, tn) :
            Begin(t, "create", [NoJob EXCEPT !.kind = kind, !.tenant = tn, !.parent = p,
                                             !.row = NewId])
       \/ \E r \in Of(kind, tn) : \E p \in Parents(kind, tn) \ {rows[kind][r].parent} :
            Begin(t, "update", [NoJob EXCEPT !.kind = kind, !.row = r, !.parent = p])
       \/ \E r \in Of(kind, tn) :
            Begin(t, "delete", [NoJob EXCEPT !.kind = kind, !.row = r])
    /\ UNCHANGED <<catalog, people, now>>

BeginCountry(t) == Administer(t, "country")
BeginUniversity(t) == Administer(t, "university")
BeginProgram(t) == Administer(t, "program")
BeginTemplate(t) == Administer(t, "template")

\* The database's own look at a foreign key when a row is written.
KeyHolds(kind, p) == p # None => p \in DOMAIN rows[ParentKind[kind]]

Becomes(catalogue) == rows' = catalogue /\ offered' = offered \cup Pairs(catalogue)

\* f with a value for x, which it does not have yet.
With(f, x, y) == [z \in DOMAIN f \cup {x} |-> IF z \in DOMAIN f THEN f[z] ELSE y]

\* Mutant: the column has no foreign key.
CommitCreateUnchecked(t) ==
  LET j == job[t] IN
  /\ at[t] = "create" /\ End(t)
  /\ Becomes([rows EXCEPT ![j.kind] = With(@, j.row, [tenant |-> j.tenant, parent |-> j.parent])])
  /\ UNCHANGED <<uploads, people, now>>

CommitCreate(t) ==
  LET j == job[t] IN
  /\ at[t] = "create" /\ End(t)
  /\ KeyHolds(j.kind, j.parent)
  /\ Becomes([rows EXCEPT ![j.kind] = With(@, j.row, [tenant |-> j.tenant, parent |-> j.parent])])
  /\ UNCHANGED <<uploads, people, now>>

\* A row deleted meanwhile is not there to be updated: the commit fails.
CommitUpdate(t) ==
  LET j == job[t] IN
  /\ at[t] = "update" /\ End(t)
  /\ j.row \in DOMAIN rows[j.kind] /\ KeyHolds(j.kind, j.parent)
  /\ Becomes([rows EXCEPT ![j.kind][j.row].parent = j.parent])
  /\ UNCHANGED <<uploads, people, now>>

\* Countries and universities may not go while a row belongs to them.  A program takes its
\* templates with it, and a template is struck from the documents uploaded for it.
Referred(kind, r) ==
  \E child \in {"university", "program"} :
    ParentKind[child] = kind /\ \E c \in DOMAIN rows[child] : rows[child][c].parent = r

Going(kind, r) ==
  [k \in Kinds |->
     CASE k = kind -> {r}
       [] k = "template" /\ kind = "program" -> {x \in DOMAIN rows[k] : rows[k][x].parent = r}
       [] OTHER -> {}]

Without(f, ids) == Restrict(f, DOMAIN f \ ids)

\* Mutant: documents go with their template.
CommitDeleteUploads(t) ==
  LET j == job[t]
      gone == Going(j.kind, j.row)
  IN
  /\ at[t] = "delete" /\ End(t)
  /\ ~Referred(j.kind, j.row)
  /\ Becomes([k \in Kinds |-> Without(rows[k], gone[k])])
  /\ uploads' = Without(uploads, {d \in DOMAIN uploads : uploads[d] \in gone["template"]})
  /\ UNCHANGED <<people, now>>

CommitDelete(t) ==
  LET j == job[t]
      gone == Going(j.kind, j.row)
  IN
  /\ at[t] = "delete" /\ End(t)
  /\ ~Referred(j.kind, j.row)
  /\ Becomes([k \in Kinds |-> Without(rows[k], gone[k])])
  /\ uploads' = [d \in DOMAIN uploads |-> IF uploads[d] \in gone["template"] THEN None ELSE uploads[d]]
  /\ UNCHANGED <<people, now>>

\* A student uploads for a template of the tenant.
BeginUpload(t) ==
  /\ \E tn \in Tenants : \E k \in Of("template", tn) :
       Begin(t, "upload", [NoJob EXCEPT !.row = NewId, !.parent = k])
  /\ UNCHANGED <<catalog, people, now>>

CommitUpload(t) ==
  LET j == job[t] IN
  /\ at[t] = "upload" /\ End(t)
  /\ j.parent \in DOMAIN rows["template"]
  /\ uploads' = With(uploads, j.row, j.parent)
  /\ UNCHANGED <<rows, offered, people, now>>

-----------------------------------------------------------------------------
(* Registration with targets: validate_target_master_data, then the commit  *)

AcceptsCountry(tn, c) == c = None \/ c \in Of("country", tn)

AcceptsUniversity(tn, c, u) ==
  u = None \/ u \in (IF c = None THEN Of("university", tn) ELSE Under("university", tn, c))

AcceptsProgram(tn, u, p) ==
  p = None \/ p \in (IF u = None THEN Of("program", tn) ELSE Under("program", tn, u))

\* Each target is looked up by a statement of its own; a request whose targets are refused
\* changes nothing.  read holds the targets accepted so far.
BeginRegistration(t) ==
  /\ \E b \in DOMAIN Branches : \E c \in DOMAIN rows["country"] \cup {None} :
       /\ AcceptsCountry(Branches[b], c)
       /\ Begin(t, "target university",
                [NoJob EXCEPT !.row = NewId, !.tenant = Branches[b], !.branch = b, !.read = <<c>>])
  /\ UNCHANGED <<catalog, people, now>>

ReadTargetUniversity(t) ==
  /\ at[t] = "target university"
  /\ \E u \in DOMAIN rows["university"] \cup {None} :
       /\ AcceptsUniversity(job[t].tenant, job[t].read[1], u)
       /\ Go(t, "target program", [job[t] EXCEPT !.read = Append(@, u)])
  /\ UNCHANGED <<catalog, people, now>>

ReadTargetProgram(t) ==
  /\ at[t] = "target program"
  /\ \E p \in DOMAIN rows["program"] \cup {None} :
       /\ AcceptsProgram(job[t].tenant, job[t].read[2], p)
       /\ Go(t, "register", [job[t] EXCEPT !.read = Append(@, p)])
  /\ UNCHANGED <<catalog, people, now>>

CommitStudent(t) ==
  LET j == job[t] IN
  /\ at[t] = "register" /\ End(t)
  /\ students' = With(students, j.row, [tenant |-> j.tenant, branch |-> j.branch,
                                         targets |-> j.read, created |-> now])
  /\ UNCHANGED <<catalog, applications, now>>

-----------------------------------------------------------------------------
(* An application: _validate_university_and_program, then the commit        *)

BeginApplication(t) ==
  /\ \E s \in DOMAIN students :
       \E u \in Of("university", students[s].tenant) :
         Begin(t, "program", [NoJob EXCEPT !.row = NewId, !.tenant = students[s].tenant,
                                           !.branch = students[s].branch, !.read = <<u>>])
  /\ UNCHANGED <<catalog, people, now>>

\* Mutant: that the program is one of that university is not compared.
ReadAnyProgram(t) ==
  /\ at[t] = "program"
  /\ \E p \in Of("program", job[t].tenant) :
       Go(t, "apply", [job[t] EXCEPT !.read = Append(@, p)])
  /\ UNCHANGED <<catalog, people, now>>

ReadProgram(t) ==
  /\ at[t] = "program"
  /\ \E p \in Under("program", job[t].tenant, job[t].read[1]) :
       Go(t, "apply", [job[t] EXCEPT !.read = Append(@, p)])
  /\ UNCHANGED <<catalog, people, now>>

CommitApplication(t) ==
  LET j == job[t] IN
  /\ at[t] = "apply" /\ End(t)
  /\ applications' = With(applications, j.row,
       [tenant |-> j.tenant, branch |-> j.branch, university |-> j.read[1],
        program |-> j.read[2], stage |-> "registered", created |-> now])
  /\ UNCHANGED <<catalog, students, now>>

\* Any request may be refused or fail, and then has written nothing; one whose commit the
\* database does not accept always does.
Refuse(t) == at[t] # "idle" /\ End(t) /\ UNCHANGED <<catalog, people, now>>

-----------------------------------------------------------------------------
Receive(t) ==
  \/ BeginCountry(t) \/ BeginUniversity(t) \/ BeginProgram(t) \/ BeginTemplate(t)
  \/ BeginUpload(t) \/ BeginRegistration(t) \/ BeginApplication(t)

Serve(t) ==
  \/ CommitCreate(t) \/ CommitUpdate(t) \/ CommitDelete(t) \/ CommitUpload(t)
  \/ ReadTargetUniversity(t) \/ ReadTargetProgram(t) \/ CommitStudent(t)
  \/ ReadProgram(t) \/ CommitApplication(t)
  \/ Refuse(t)

-----------------------------------------------------------------------------
(* The public lists a form is filled in from (routers/master_data.py)       *)

PublicCountries(tn) == Of("country", tn)
PublicUniversities(tn, c) == IF c \in Of("country", tn) THEN Under("university", tn, c) ELSE {}
PublicPrograms(tn, u) == IF u \in Of("university", tn) THEN Under("program", tn, u) ELSE {}

-----------------------------------------------------------------------------
TypeOK ==
  /\ \A kind \in Kinds : \A r \in DOMAIN rows[kind] : rows[kind][r] \in Row
  /\ \A d \in DOMAIN uploads : uploads[d] \in {None} \cup DOMAIN rows["template"]
  /\ requests \in 0..MaxRequests

(* Whatever is created, moved and deleted at the same time, a row belongs   *)
(* to a row that exists and is of its tenant; an uploaded document names a  *)
(* template that exists or none (routers/master_data_admin.py delete_*,     *)
(* models/university.py, program.py, checklist_item_template.py).           *)
KeysHold ==
  /\ TypeOK
  /\ \A kind \in DOMAIN ParentKind : \A r \in DOMAIN rows[kind] :
       LET p == rows[kind][r].parent IN
       p = None \/ p \in Of(ParentKind[kind], rows[kind][r].tenant)

(* An application's university and program need not exist any more, nor     *)
(* belong together any more, but they did at some moment; so did the        *)
(* country and university, and the university and program, a student        *)
(* registered with (applications.py:90-123, master_data_validation.py).     *)
NamesWereOffered == Named(applications, students, offered)

(* What the public lists offer a student to choose from, step by step, is   *)
(* what registration accepts, and nothing else is (routers/master_data.py,  *)
(* auth/master_data_validation.py).                                         *)
FormsAreAccepted ==
  \A tn \in Tenants, c \in DOMAIN rows["country"], u \in DOMAIN rows["university"] :
    /\ (c \in PublicCountries(tn) /\ u \in PublicUniversities(tn, c))
         <=> (AcceptsCountry(tn, c) /\ AcceptsUniversity(tn, c, u))
    /\ u \in PublicUniversities(tn, c) =>
         \A p \in DOMAIN rows["program"] : p \in PublicPrograms(tn, u) <=> AcceptsProgram(tn, u, p)

(* What is named was on offer, and what is on offer may be named.           *)
ChoicesAreOffers == NamesWereOffered /\ FormsAreAccepted

(* A document outlives its template: what an upload was for changes only    *)
(* when that template is gone, and then to none (checklist_templates.py     *)
(* delete_checklist_template, models/student_document.py).                  *)
UploadsOutliveTemplates ==
  [][\A d \in DOMAIN uploads :
       /\ d \in DOMAIN uploads'
       /\ uploads'[d] # uploads[d] =>
            uploads'[d] = None /\ uploads[d] \notin DOMAIN rows'["template"]]_<<rows, uploads>>
=============================================================================
