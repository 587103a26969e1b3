----------------------------- MODULE Analytics -----------------------------
(***************************************************************************)
(* The reports on students and applications (routers/analytics.py,         *)
(* analytics_export.py), over the tables of MasterCatalog while they       *)
(* change.  A report of one statement is an operator on those tables; one  *)
(* of several statements reads each in a step of its own.                  *)
(***************************************************************************)
EXTENDS MasterCatalog

CONSTANTS
  TicksPerDay,   \* distinct times of a day, midnight first
  MaxNow,        \* bound: the clock
  MaxMoves       \* bound: stage changes

Null == -1       \* a bound of the date range that is not given

ASSUME AnalyticsAssumption ==
  /\ Tenants \subseteq Nat   \* in the order of their ids
  /\ TicksPerDay \in Nat \ {0} /\ MaxNow \in Nat /\ MaxMoves \in Nat

VARIABLE moves   \* stage changes so far

allVars == <<catalog, people, serving, now, moves>>

Stages == {"registered", "counseling", "enrolled", "rejected", "withdrawn"}
Terminal == {"enrolled", "rejected", "withdrawn"}

Day(x) == x \div TicksPerDay
Midnight(d) == d * TicksPerDay

-----------------------------------------------------------------------------
(* Date range and scope                                                     *)

\* Mutant: a date-only end covers its midnight only.
AsGiven(end) == end

\* _inclusive_end: a date-only end covers that whole day.
InclusiveEnd(end) ==
  IF end = Null \/ end # Midnight(Day(end)) THEN end ELSE end + TicksPerDay - 1

Within(x, from, to) == (from # Null => x >= from) /\ (to # Null => x <= InclusiveEnd(to))

Owner(tn) == [role |-> "consultancy_owner", tenant |-> tn, branch |-> None]
Manager(b) == [role |-> "branch_manager", tenant |-> Branches[b], branch |-> b]
SuperAdmin == [role |-> "super_admin", tenant |-> None, branch |-> None]

\* apply_tenant_scope and apply_branch_scope
InTenantScope(row, user) == user.role = "super_admin" \/ row.tenant = user.tenant
InBranchScope(row, user) ==
  user.role \in {"super_admin", "consultancy_owner"} \/ row.branch = user.branch
InScope(row, user) == InTenantScope(row, user) /\ InBranchScope(row, user)

Selected(table, user, from, to) ==
  {r \in DOMAIN table : InScope(table[r], user) /\ Within(table[r].created, from, to)}

-----------------------------------------------------------------------------
(* Reports of one statement                                                 *)

\* conversion_funnel
Funnel(user, from, to) ==
  LET chosen == Selected(applications, user, from, to) IN
  [s \in Stages |-> Cardinality({a \in chosen : applications[a].stage = s})]

\* registrations_over_time, by day
Registrations(user, from, to) ==
  LET chosen == Selected(students, user, from, to) IN
  [d \in {Day(students[s].created) : s \in chosen} |->
     Cardinality({s \in chosen : Day(students[s].created) = d})]

\* export_student_list: here a date-only end is that midnight.
ExportedStudents(user, from, to) ==
  {s \in DOMAIN students :
     /\ InScope(students[s], user)
     /\ from # Null => students[s].created >= from
     /\ to # Null => students[s].created <= to}

Sum(counts) == SumFunction(counts)

\* The applications of one branch or tenant and what has become of them, as both
\* comparisons count them.
Tally(apps) ==
  LET at_(s) == Cardinality({a \in apps : applications[a].stage = s}) IN
  [applications |-> Cardinality(apps), enrolled |-> at_("enrolled"),
   rejected |-> at_("rejected"), withdrawn |-> at_("withdrawn"),
   active |-> Cardinality({a \in apps : applications[a].stage \notin Terminal})]

BranchRow(b, from, to) ==
  Tally({a \in Selected(applications, Owner(Branches[b]), from, to) : applications[a].branch = b})

-----------------------------------------------------------------------------
(* The same figures to download: rows and a row TOTAL                       *)

\* _share in tenths of a percent, rounded to the nearest.  (Python rounds a half to the
\* even tenth; there is a half only where 16 divides the total.)
Share(count, total) ==
  IF total = 0 THEN 0 ELSE (2000 * count + total) \div (2 * total)

\* export_conversion_funnel
FunnelTable(user, from, to) ==
  LET funnel == Funnel(user, from, to)
      all == Sum(funnel)
      row(count) == [count |-> count, share |-> Share(count, all)]
  IN  [rows |-> [s \in Stages |-> row(funnel[s])], total |-> row(all)]

\* export_registrations_over_time
RegistrationsTable(user, from, to) ==
  LET series == Registrations(user, from, to) IN [rows |-> series, total |-> Sum(series)]

Owned(tn) == {b \in DOMAIN Branches : Branches[b] = tn}

\* export_branch_comparison, for an owner
BranchTable(tn, from, to) ==
  LET listed == [b \in Owned(tn) |-> BranchRow(b, from, to)] IN
  [rows |-> listed, total |-> Sum([b \in Owned(tn) |-> listed[b].applications])]

-----------------------------------------------------------------------------
(* platform_wide_stats: four statements, one after the other                *)

StudentsOf(tn, range) ==
  {s \in DOMAIN students : students[s].tenant = tn /\ Within(students[s].created, range[1], range[2])}
ApplicationsOf(tn, range) ==
  {a \in DOMAIN applications :
     applications[a].tenant = tn /\ Within(applications[a].created, range[1], range[2])}

Counted(range) ==
  [tn \in Tenants |-> [students |-> Cardinality(StudentsOf(tn, range)),
                       applications |-> Cardinality(ApplicationsOf(tn, range))]]

Ranges == {<<Null, Null>>, <<Null, 0>>}

\* The tenants, and what there was to count at that moment (history: read[2]).
BeginStats(t) ==
  /\ \E range \in Ranges : Begin(t, "count students", [NoJob EXCEPT !.read = <<range, Counted(range)>>])
  /\ UNCHANGED <<catalog, people, now, moves>>

CountStudents(t) ==
  /\ at[t] = "count students"
  /\ Go(t, "count applications", [job[t] EXCEPT !.read =
        Append(@, [tn \in Tenants |-> Cardinality(StudentsOf(tn, @[1]))])])
  /\ UNCHANGED <<catalog, people, now, moves>>

CountApplications(t) ==
  /\ at[t] = "count applications"
  /\ Go(t, "answer stats", [job[t] EXCEPT !.read =
        Append(@, [tn \in Tenants |-> Tally(ApplicationsOf(tn, @[1]))])])
  /\ UNCHANGED <<catalog, people, now, moves>>

AnswerStats(t) ==
  /\ at[t] = "answer stats"
  /\ End(t)
  /\ UNCHANGED <<catalog, people, now, moves>>

-----------------------------------------------------------------------------
(* billing.py list_all_tenants_billing_status: the tenants, then the counts *)
(* of one tenant after the other.  Branches and staff do not change here.   *)

Anytime == <<Null, Null>>

BeginBilling(t) ==
  /\ Begin(t, "billing", [NoJob EXCEPT !.read = <<Anytime, Counted(Anytime), <<>>>>])
  /\ UNCHANGED <<catalog, people, now, moves>>

CountTenant(t) ==
  LET read == job[t].read
      todo == Tenants \ DOMAIN read[3]
  IN
  /\ at[t] = "billing"
  /\ \E tn \in todo :
       /\ \A other \in todo : tn <= other
       /\ Go(t, "billing", [job[t] EXCEPT !.read[3] =
              With(@, tn, Cardinality(StudentsOf(tn, Anytime)))])
  /\ UNCHANGED <<catalog, people, now, moves>>

AnswerBilling(t) ==
  /\ at[t] = "billing" /\ DOMAIN job[t].read[3] = Tenants
  /\ End(t)
  /\ UNCHANGED <<catalog, people, now, moves>>

-----------------------------------------------------------------------------
(* What else happens to an application: advance_application_stage           *)

AdvanceStage ==
  /\ moves < MaxMoves /\ moves' = moves + 1
  /\ \E a \in DOMAIN applications, s \in Stages :
       /\ applications[a].stage \notin Terminal /\ s # applications[a].stage
       /\ applications' = [applications EXCEPT ![a].stage = s]
  /\ UNCHANGED <<catalog, students, serving, now>>

Tick ==
  /\ now < MaxNow /\ now' = now + 1
  /\ UNCHANGED <<catalog, people, serving, moves>>

ReportStep(t) ==
  \/ BeginStats(t) \/ CountStudents(t) \/ CountApplications(t) \/ AnswerStats(t)
  \/ BeginBilling(t) \/ CountTenant(t) \/ AnswerBilling(t)

CatalogStep(t) == (Receive(t) \/ Serve(t)) /\ UNCHANGED moves

Next == (\E t \in Threads : CatalogStep(t) \/ ReportStep(t)) \/ AdvanceStage \/ Tick

AnalyticsInit == Init /\ moves = 0

Spec == AnalyticsInit /\ [][Next]_allVars

-----------------------------------------------------------------------------
Days == 0..Day(MaxNow)

(* Reports of the same tables agree, whoever asks for whatever days: an     *)
(* owner's funnel is the total of the branches, or of their managers'       *)
(* funnels, and the applications without a branch; two days together hold   *)
(* what each holds alone; the count of a day in the registrations is the    *)
(* total for that date; the exported list has as many students, when the    *)
(* end is not a date only; what is active or has ended is everything; the   *)
(* percentages of a funnel that holds something add up to a hundred but for *)
(* half a tenth a stage (analytics.py, analytics_export.py).                *)
ReportsAgree ==
  \A tn \in Tenants :
    LET owner(from, to) == Sum(Funnel(Owner(tn), from, to))
        branches == BranchTable(tn, Null, Null)
        branchless == Cardinality({a \in DOMAIN applications :
                        applications[a].tenant = tn /\ applications[a].branch = None})
    IN
    /\ owner(Null, Null) = branches.total + branchless
    /\ \A b \in DOMAIN branches.rows :
         LET row == branches.rows[b] IN
         /\ row.applications = row.enrolled + row.rejected + row.withdrawn + row.active
         /\ row.applications = Sum(Funnel(Manager(b), Null, Null))
    /\ \A d \in Days :
         /\ owner(Midnight(0), Midnight(d)) =
              Sum([e \in 0..d |-> owner(Midnight(e), Midnight(e))])
         /\ LET all == Registrations(Owner(tn), Null, Null)
                one == RegistrationsTable(Owner(tn), Midnight(d), Midnight(d)).total
            IN  one = IF d \in DOMAIN all THEN all[d] ELSE 0
         /\ LET table == FunnelTable(Owner(tn), Midnight(0), Midnight(d))
                shares == Sum([s \in Stages |-> table.rows[s].share])
                reached == Cardinality({s \in Stages : table.rows[s].count > 0})
            IN  /\ 2 * shares \in (2 * table.total.share - reached)..(2 * table.total.share + reached)
                /\ table.total.share = IF table.total.count > 0 THEN 1000 ELSE 0
    /\ \A to \in {Null} \cup {x \in 0..MaxNow : x # Midnight(Day(x))} :
         Cardinality(ExportedStudents(Owner(tn), Null, to))
           = RegistrationsTable(Owner(tn), Null, to).total

(* The platform's figures are read one after the other while students       *)
(* register and apply, so they are of no single moment; each lies between   *)
(* what it was when the report began and what it is when it is answered,    *)
(* and what has become of a tenant's applications adds up                   *)
(* (analytics.py platform_wide_stats, billing.py:508).                      *)
StatsAreRecent ==
  /\ \A t \in Threads : at[t] = "answer stats" =>
       LET read == job[t].read
           today == Counted(read[1])
       IN  \A tn \in Tenants :
             LET students_ == read[3][tn]
                 apps == read[4][tn]
             IN  /\ read[2][tn].students <= students_ /\ students_ <= today[tn].students
                 /\ read[2][tn].applications <= apps.applications
                 /\ apps.applications <= today[tn].applications
                 /\ apps.applications = apps.enrolled + apps.rejected + apps.withdrawn + apps.active
  /\ \A t \in Threads : at[t] = "billing" =>
       LET read == job[t].read IN
       \A tn \in DOMAIN read[3] :
         /\ read[2][tn].students <= read[3][tn]
         /\ read[3][tn] <= Counted(Anytime)[tn].students

(* The figures of one moment agree, those of several are bounded by it.     *)
FiguresAgree == ReportsAgree /\ StatsAreRecent
=============================================================================
