---------------------------- MODULE TenantProofs ----------------------------
(***************************************************************************)
(* Proofs about TenantOnboarding, for every pool of threads, set of slugs, *)
(* addresses and files, and about TenantPlan, for every pool of threads,   *)
(* plan catalog and bound on failures, orders and assignments.  The two    *)
(* share the server's threads and nothing else.                            *)
(*                                                                         *)
(* Onboarding: that tenants have slugs of their own holds because whoever  *)
(* inserts one holds it until it commits: the invariant says, of each step *)
(* of a request, what the steps before it have secured (JobOK). That an    *)
(* invitation opens an account, or lost a race, needs its address beside   *)
(* the password it names (Pending).                                        *)
(*                                                                         *)
(* Plan: that the overshoot is bounded is not inductive: how far the       *)
(* tenant can still grow depends on what the creations under way have      *)
(* counted. The argument looks at a threshold k no plan the tenant had     *)
(* exceeds. Rows in use and creations that counted fewer than k rows are   *)
(* together below k plus the number of threads: below the threshold        *)
(* because there are no more creations than threads, and from the          *)
(* threshold on because a new creation counts too many rows to add to      *)
(* them.                                                                   *)
(***************************************************************************)
EXTENDS TenantOnboarding, TenantPlan, FiniteSetTheorems, SequenceTheorems, TLAPS

-----------------------------------------------------------------------------
(* Tenants, their owners and logos.                                        *)

Steps == {"idle", "flush", "invite", "create", "register", "store", "name", "brand"}
Logos == {"none", "url", "key"} \X Nat
Named == {NoLogo, <<"url", 0>>}
Pictures == Named \cup ({"blob"} \X Files)
MaybeSlugs == Slugs \cup {""}
MaybeEmails == Emails \cup {""}
Account(len, last) ==
  [role : {"none", "consultancy_owner", "student"}, tenant : 0..len, password : 0..last]
Job(len, last) ==
  [request : 0..last, slug : MaybeSlugs, email : MaybeEmails, tenant : 0..len,
   file : Pictures]

Typed ==
  /\ tenants \in Seq(Slugs) /\ logo \in Seq(Logos) /\ Len(logo) = Len(tenants)
  /\ accounts \in [Emails -> Account(Len(tenants), requests)]
  /\ invites \subseteq Emails \X (1..requests)
  /\ blobs \subseteq (1..requests) \X Files
  /\ holder \in [Slugs -> Threads \cup {Nobody}]
  /\ at \in [Threads -> Steps]
  /\ job \in [Threads -> Job(Len(tenants), requests)]
  /\ requests \in Nat /\ faults \in 0..MaxFaults

(* What the request of t has secured at the step it is at.                 *)
OpensTenant(t) ==
  /\ job[t].slug \in Slugs /\ job[t].email \in Emails
  /\ at[t] \in {"invite", "create"} =>
       holder[job[t].slug] = t /\ job[t].slug \notin ToSet(tenants)
  /\ at[t] = "create" => <<job[t].email, job[t].request>> \in invites

ShowsLogo(t) ==
  /\ job[t].tenant \in 1..Len(tenants)
  /\ job[t].file \in {"blob"} \X Files /\ Accepted(job[t].file[2])
  /\ at[t] = "name" => <<job[t].request, job[t].file[2]>> \in blobs

JobOK(t) ==
  /\ at[t] # "idle" => job[t].request \in 1..requests
  /\ at[t] \in {"flush", "invite", "create"} => OpensTenant(t)
  /\ at[t] = "register" => job[t].tenant \in 1..Len(tenants) /\ job[t].email \in Emails
  /\ at[t] \in {"store", "name"} => ShowsLogo(t)
  /\ at[t] = "brand" => job[t].tenant \in 1..Len(tenants) /\ job[t].file \in Named

JobsOK == \A t \in Threads : JobOK(t)

LEMMA Bounds == MaxFaults \in Nat /\ Nobody \notin Threads
  BY OnboardingAssumption, Zenon DEF OnboardingAssumption

LEMMA TypedIsTypeOK == Typed => TypeOK
  BY DEF Typed, TypeOK, Account

-----------------------------------------------------------------------------
(* Appending a slug                                                        *)

LEMMA AppendedTenant ==
  ASSUME NEW s \in Slugs, tenants \in Seq(Slugs), NEW r, tenants' = Append(tenants, s)
  PROVE  /\ tenants' \in Seq(Slugs) /\ Len(tenants') = Len(tenants) + 1
         /\ Len(tenants) \in Nat
         /\ \A k \in 1..Len(tenants) : tenants'[k] = tenants[k]
         /\ tenants'[Len(tenants) + 1] = s
         /\ \A x : x \in ToSet(tenants') => x \in ToSet(tenants) \/ x = s
  <1>1. /\ tenants' \in Seq(Slugs) /\ Len(tenants') = Len(tenants) + 1 /\ Len(tenants) \in Nat
        /\ \A k \in 1..Len(tenants) : tenants'[k] = tenants[k]
        /\ tenants'[Len(tenants) + 1] = s
    BY AppendProperties, LenProperties
  <1>2. ASSUME NEW x \in ToSet(tenants') PROVE x \in ToSet(tenants) \/ x = s
    <2>1. PICK k \in 1..(Len(tenants) + 1) : x = tenants'[k]
      BY <1>1, <1>2, LenProperties DEF ToSet
    <2>2. CASE k \in 1..Len(tenants)
      BY <1>1, <2>1, <2>2, LenProperties DEF ToSet
    <2>3. CASE k = Len(tenants) + 1
      BY <1>1, <2>1, <2>3
    <2>. QED
      BY <1>1, <2>2, <2>3
  <1>. QED
    BY <1>1, <1>2

-----------------------------------------------------------------------------
(* Types                                                                   *)

LEMMA Sizes == Typed => Len(tenants) \in Nat /\ requests \in Nat
  BY LenProperties DEF Typed

LEMMA NoJobTyped ==
  /\ NoJob.slug \in MaybeSlugs /\ NoJob.email \in MaybeEmails
  /\ NoJob.tenant = 0 /\ NoJob.request = 0 /\ NoJob.file \in Pictures
  /\ NoJob = [request |-> NoJob.request, slug |-> NoJob.slug, email |-> NoJob.email,
              tenant |-> NoJob.tenant, file |-> NoJob.file]
  BY DEF NoJob, Pictures, Named, MaybeSlugs, MaybeEmails

LEMMA NoJobIsJob == Typed => NoJob \in Job(Len(tenants), requests)
  BY Sizes, NoJobTyped DEF Job

LEMMA InitTyped == Init => Typed /\ JobsOK
  <1>. SUFFICES ASSUME Init PROVE Typed /\ JobsOK
    OBVIOUS
  <1>1. Len(tenants) = 0 /\ Len(logo) = 0 /\ requests = 0
    BY DEF Init
  <1>2. NoJob \in Job(0, 0) /\ NoAccount \in Account(0, 0)
    BY NoJobTyped DEF Job, NoAccount, Account
  <1>3. tenants \in Seq(Slugs) /\ logo \in Seq(Logos)
    BY DEF Init
  <1>4. at \in [Threads -> Steps]
    BY DEF Init, Steps
  <1>5. \A t \in Threads : at[t] = "idle"
    BY DEF Init
  <1>6. /\ accounts \in [Emails -> Account(Len(tenants), requests)]
        /\ job \in [Threads -> Job(Len(tenants), requests)]
    BY <1>1, <1>2 DEF Init
  <1>7. Typed
    <2>1. /\ invites = {} /\ blobs = {} /\ faults = 0 /\ holder = [s \in Slugs |-> Nobody]
      BY DEF Init
    <2>2. requests \in Nat /\ faults \in 0..MaxFaults
      BY <1>1, <2>1, Bounds
    <2>3. holder \in [Slugs -> Threads \cup {Nobody}]
      BY <2>1
    <2>. QED
      BY <1>1, <1>3, <1>4, <1>6, <2>1, <2>2, <2>3 DEF Typed
  <1>. QED
    BY <1>5, <1>7 DEF JobsOK, JobOK

(* A request ends: its thread is idle, and nobody else's slug is released. *)
LEMMA Ended ==
  ASSUME Typed, NEW t \in Threads, End(t)
  PROVE  /\ at' \in [Threads -> Steps] /\ at'[t] = "idle"
         /\ job' \in [Threads -> Job(Len(tenants), requests)]
         /\ \A u \in Threads \ {t} : at'[u] = at[u] /\ job'[u] = job[u]
         /\ holder' \in [Slugs -> Threads \cup {Nobody}]
         /\ \A s \in Slugs : \A u \in Threads \ {t} : holder[s] = u => holder'[s] = u
  <1>1. NoJob \in Job(Len(tenants), requests)
    BY NoJobIsJob
  <1>2. /\ at' = [at EXCEPT ![t] = "idle"] /\ "idle" \in Steps
        /\ job' = [job EXCEPT ![t] = NoJob]
    BY DEF End, Steps
  <1>3. holder' = [s \in Slugs |-> IF holder[s] = t THEN Nobody ELSE holder[s]]
    BY DEF End
  <1>4. /\ at \in [Threads -> Steps] /\ job \in [Threads -> Job(Len(tenants), requests)]
        /\ holder \in [Slugs -> Threads \cup {Nobody}]
    BY DEF Typed
  <1>5. /\ holder' \in [Slugs -> Threads \cup {Nobody}]
        /\ \A s \in Slugs : \A u \in Threads \ {t} : holder[s] = u => holder'[s] = u
    BY <1>3, <1>4
  <1>. QED
    BY <1>1, <1>2, <1>4, <1>5

LEMMA Going ==
  ASSUME Typed, NEW t \in Threads, NEW step \in Steps, Go(t, step)
  PROVE  /\ at' \in [Threads -> Steps] /\ at'[t] = step /\ job' = job
         /\ \A u \in Threads \ {t} : at'[u] = at[u]
  BY DEF Typed, Go

(* What a request has secured stays so while another one moves.            *)
LEMMA OthersKeep ==
  ASSUME Typed, JobsOK, NEW u \in Threads,
         at'[u] = at[u], job'[u] = job[u],
         requests' \in Nat, requests <= requests',
         Len(tenants') \in Nat, Len(tenants) <= Len(tenants'),
         invites \subseteq invites', blobs \subseteq blobs',
         \A s \in Slugs : holder[s] = u => holder'[s] = u,
         \A s \in Slugs : holder[s] = u /\ s \notin ToSet(tenants) => s \notin ToSet(tenants')
  PROVE  JobOK(u)'
  <1>1. JobOK(u) /\ Len(tenants) \in Nat /\ requests \in Nat
    BY LenProperties DEF JobsOK, Typed
  <1>2. 1..requests \subseteq 1..requests' /\ 1..Len(tenants) \subseteq 1..Len(tenants')
    BY <1>1
  <1>3. OpensTenant(u) => OpensTenant(u)'
    BY DEF OpensTenant
  <1>4. ShowsLogo(u) => ShowsLogo(u)'
    BY <1>2 DEF ShowsLogo, Accepted
  <1>. QED
    BY <1>1, <1>2, <1>3, <1>4 DEF JobOK

(* ... in particular when the tenants and requests stay.                   *)
LEMMA OthersKeepAtRest ==
  ASSUME Typed, JobsOK, NEW t \in Threads,
         UNCHANGED <<tenants, requests>>,
         invites \subseteq invites', blobs \subseteq blobs',
         \A u \in Threads \ {t} : at'[u] = at[u] /\ job'[u] = job[u],
         \A s \in Slugs : \A u \in Threads \ {t} : holder[s] = u => holder'[s] = u
  PROVE  \A u \in Threads \ {t} : JobOK(u)'
  <1>1. Len(tenants) \in Nat /\ requests \in Nat
    BY LenProperties DEF Typed
  <1>. QED
    BY <1>1, OthersKeep

LEMMA EndedJobsOK ==
  ASSUME Typed, JobsOK, NEW t \in Threads, End(t), UNCHANGED <<tenants, requests>>,
         invites \subseteq invites', blobs \subseteq blobs'
  PROVE  JobsOK'
  <1>1. at'[t] = "idle" /\ \A u \in Threads \ {t} : JobOK(u)'
    BY Ended, OthersKeepAtRest
  <1>2. JobOK(t)'
    BY <1>1 DEF JobOK
  <1>. QED
    BY <1>1, <1>2 DEF JobsOK

LEMMA FaultsCounted ==
  ASSUME Typed, UNCHANGED faults \/ Strike
  PROVE  faults' \in 0..MaxFaults
  BY Bounds DEF Typed, Strike

(* A request ends and nothing is stored.                                   *)
LEMMA NothingStored ==
  ASSUME Typed, JobsOK, NEW t \in Threads, End(t), UNCHANGED <<store, requests>>,
         UNCHANGED faults \/ Strike
  PROVE  Typed' /\ JobsOK'
  <1>1. JobsOK'
    BY EndedJobsOK DEF store
  <1>2. Typed'
    BY Ended, FaultsCounted DEF Typed, store
  <1>. QED
    BY <1>1, <1>2

LEMMA Begun ==
  ASSUME Typed, JobsOK, NEW t \in Threads, NEW step \in Steps,
         NEW request \in Job(Len(tenants), requests), Begin(t, step, request)
  PROVE  /\ Typed' /\ \A u \in Threads \ {t} : JobOK(u)'
         /\ at'[t] = step /\ job'[t] = [request EXCEPT !.request = requests']
         /\ requests' \in 1..requests' /\ UNCHANGED <<store, holder, faults>>
  <1>1. Len(tenants) \in Nat /\ requests \in Nat /\ requests' = requests + 1
    BY LenProperties DEF Typed, Begin
  <1>2. UNCHANGED <<tenants, logo, accounts, invites, blobs, holder, faults>>
    BY DEF Begin, store
  <1>3. /\ at' = [at EXCEPT ![t] = step]
        /\ job' = [job EXCEPT ![t] = [request EXCEPT !.request = requests']]
    BY <1>1 DEF Begin
  <1>4. /\ Job(Len(tenants), requests) \subseteq Job(Len(tenants), requests')
        /\ Account(Len(tenants), requests) \subseteq Account(Len(tenants), requests')
        /\ 1..requests \subseteq 1..requests'
    BY <1>1 DEF Job, Account
  <1>. DEFINE numbered == [request EXCEPT !.request = requests']
  <1>0. numbered \in Job(Len(tenants), requests')
    BY <1>1 DEF Job
  <1>5. /\ at \in [Threads -> Steps]
        /\ job \in [Threads -> Job(Len(tenants), requests)]
        /\ accounts \in [Emails -> Account(Len(tenants), requests)]
    BY DEF Typed
  <1>6. /\ at' \in [Threads -> Steps] /\ at'[t] = step
        /\ job' \in [Threads -> Job(Len(tenants), requests')]
        /\ job'[t] = [request EXCEPT !.request = requests']
        /\ accounts \in [Emails -> Account(Len(tenants), requests')]
        /\ \A u \in Threads \ {t} : at'[u] = at[u] /\ job'[u] = job[u]
    BY <1>0, <1>3, <1>4, <1>5
  <1>7. /\ invites \subseteq Emails \X (1..requests')
        /\ blobs \subseteq (1..requests') \X Files
    BY <1>4 DEF Typed
  <1>8. Typed'
    BY <1>1, <1>2, <1>6, <1>7 DEF Typed
  <1>9. \A u \in Threads \ {t} : JobOK(u)'
    BY <1>1, <1>2, <1>6, OthersKeep
  <1>. QED
    BY <1>1, <1>2, <1>6, <1>8, <1>9 DEF store

-----------------------------------------------------------------------------
(* One lemma for each action                                               *)

LEMMA BeginTenantStep ==
  ASSUME Typed, JobsOK, NEW t \in Threads, BeginTenant(t) PROVE Typed' /\ JobsOK'
  <1>1. PICK s \in Slugs, e \in Emails : Begin(t, "flush", [NoJob EXCEPT !.slug = s, !.email = e])
    BY DEF BeginTenant
  <1>. DEFINE request == [NoJob EXCEPT !.slug = s, !.email = e]
  <1>0. s \in MaybeSlugs /\ e \in MaybeEmails /\ "flush" \in Steps
    BY DEF MaybeSlugs, MaybeEmails, Steps
  <1>2. request \in Job(Len(tenants), requests)
    BY <1>0, NoJobIsJob DEF Job
  <1>3. /\ Typed' /\ \A u \in Threads \ {t} : JobOK(u)'
        /\ at'[t] = "flush" /\ job'[t] = [request EXCEPT !.request = requests']
        /\ requests' \in 1..requests'
    BY <1>0, <1>1, <1>2, Begun
  <1>4. JobOK(t)'
    BY <1>3 DEF JobOK, OpensTenant, NoJob
  <1>. QED
    BY <1>3, <1>4 DEF JobsOK

LEMMA BeginStudentStep ==
  ASSUME Typed, JobsOK, NEW t \in Threads, BeginStudent(t) PROVE Typed' /\ JobsOK'
  <1>1. PICK k \in DOMAIN tenants, e \in Emails :
          Begin(t, "register", [NoJob EXCEPT !.tenant = k, !.email = e])
    BY DEF BeginStudent
  <1>. DEFINE request == [NoJob EXCEPT !.tenant = k, !.email = e]
  <1>2. k \in 1..Len(tenants) /\ Len(tenants) \in Nat /\ requests \in Nat
    BY LenProperties DEF Typed
  <1>0. e \in MaybeEmails /\ "register" \in Steps
    BY DEF MaybeEmails, Steps
  <1>a. k \in 0..Len(tenants)
    BY <1>2
  <1>3. request \in Job(Len(tenants), requests)
    BY <1>0, <1>a, NoJobIsJob DEF Job
  <1>4. /\ Typed' /\ \A u \in Threads \ {t} : JobOK(u)'
        /\ at'[t] = "register" /\ job'[t] = [request EXCEPT !.request = requests']
        /\ requests' \in 1..requests' /\ UNCHANGED tenants
    BY <1>1, <1>0, <1>3, Begun DEF store
  <1>5. JobOK(t)'
    BY <1>2, <1>4 DEF JobOK, NoJob
  <1>. QED
    BY <1>4, <1>5 DEF JobsOK

LEMMA BeginLogoStep ==
  ASSUME Typed, JobsOK, NEW t \in Threads, BeginLogo(t) PROVE Typed' /\ JobsOK'
  <1>1. PICK k \in DOMAIN tenants, f \in Files :
          Accepted(f) /\ Begin(t, "store", [NoJob EXCEPT !.tenant = k, !.file = <<"blob", f>>])
    BY DEF BeginLogo
  <1>. DEFINE request == [NoJob EXCEPT !.tenant = k, !.file = <<"blob", f>>]
  <1>2. k \in 1..Len(tenants) /\ Len(tenants) \in Nat /\ requests \in Nat
    BY LenProperties DEF Typed
  <1>0. <<"blob", f>> \in Pictures /\ "store" \in Steps
    BY DEF Pictures, Steps
  <1>a. k \in 0..Len(tenants)
    BY <1>2
  <1>3. request \in Job(Len(tenants), requests)
    BY <1>0, <1>a, NoJobIsJob DEF Job
  <1>4. /\ Typed' /\ \A u \in Threads \ {t} : JobOK(u)'
        /\ at'[t] = "store" /\ job'[t] = [request EXCEPT !.request = requests']
        /\ requests' \in 1..requests' /\ UNCHANGED tenants
    BY <1>1, <1>0, <1>3, Begun DEF store
  <1>5. JobOK(t)'
    BY <1>1, <1>2, <1>4 DEF JobOK, ShowsLogo, Accepted, NoJob
  <1>. QED
    BY <1>4, <1>5 DEF JobsOK

LEMMA BeginBrandingStep ==
  ASSUME Typed, JobsOK, NEW t \in Threads, BeginBranding(t) PROVE Typed' /\ JobsOK'
  <1>1. PICK k \in DOMAIN tenants, url \in Named :
          Begin(t, "brand", [NoJob EXCEPT !.tenant = k, !.file = url])
    BY DEF BeginBranding, Named
  <1>. DEFINE request == [NoJob EXCEPT !.tenant = k, !.file = url]
  <1>2. k \in 1..Len(tenants) /\ Len(tenants) \in Nat /\ requests \in Nat
    BY LenProperties DEF Typed
  <1>0. url \in Pictures /\ "brand" \in Steps
    BY DEF Pictures, Steps
  <1>a. k \in 0..Len(tenants)
    BY <1>2
  <1>3. request \in Job(Len(tenants), requests)
    BY <1>0, <1>a, NoJobIsJob DEF Job
  <1>4. /\ Typed' /\ \A u \in Threads \ {t} : JobOK(u)'
        /\ at'[t] = "brand" /\ job'[t] = [request EXCEPT !.request = requests']
        /\ requests' \in 1..requests' /\ UNCHANGED tenants
    BY <1>1, <1>0, <1>3, Begun DEF store
  <1>5. JobOK(t)'
    BY <1>2, <1>4 DEF JobOK, NoJob
  <1>. QED
    BY <1>4, <1>5 DEF JobsOK

LEMMA FlushTenantStep ==
  ASSUME Typed, JobsOK, NEW t \in Threads, FlushTenant(t) PROVE Typed' /\ JobsOK'
  <1>. DEFINE s == job[t].slug
  <1>1. CASE End(t) /\ (UNCHANGED faults \/ Strike)
    BY <1>1, NothingStored DEF FlushTenant
  <1>2. CASE /\ s \notin ToSet(tenants) /\ holder' = [holder EXCEPT ![s] = t]
             /\ Go(t, "invite") /\ UNCHANGED faults
    <2>1. /\ at[t] = "flush" /\ holder[s] = Nobody /\ UNCHANGED requests
          /\ UNCHANGED <<tenants, logo, accounts, invites, blobs>>
      BY DEF FlushTenant, store
    <2>2. JobOK(t) /\ s \in Slugs
      BY <2>1 DEF JobsOK, JobOK, OpensTenant
    <2>3. /\ at' \in [Threads -> Steps] /\ at'[t] = "invite" /\ job' = job
          /\ \A u \in Threads \ {t} : at'[u] = at[u]
      BY <1>2, Going DEF Steps
    <2>4. /\ holder' \in [Slugs -> Threads \cup {Nobody}] /\ holder'[s] = t
          /\ \A x \in Slugs : \A u \in Threads \ {t} : holder[x] = u => holder'[x] = u
      <3>1. holder \in [Slugs -> Threads \cup {Nobody}]
        BY DEF Typed
      <3>2. \A u \in Threads : u # Nobody
        BY Bounds
      <3>. QED
        BY <1>2, <2>1, <2>2, <3>1, <3>2
    <2>5. Typed'
      BY <1>2, <2>1, <2>3, <2>4 DEF Typed
    <2>6. \A u \in Threads \ {t} : JobOK(u)'
      BY <2>1, <2>3, <2>4, OthersKeepAtRest
    <2>7. JobOK(t)'
      BY <1>2, <2>1, <2>2, <2>3, <2>4 DEF JobOK, OpensTenant
    <2>. QED
      BY <2>5, <2>6, <2>7 DEF JobsOK
  <1>. QED
    BY <1>1, <1>2 DEF FlushTenant

LEMMA InviteStep ==
  ASSUME Typed, JobsOK, NEW t \in Threads, Invite(t) PROVE Typed' /\ JobsOK'
  <1>1. CASE End(t) /\ Strike /\ UNCHANGED invites
    BY <1>1, NothingStored DEF Invite, store
  <1>2. CASE /\ invites' = invites \cup {<<job[t].email, job[t].request>>}
             /\ Go(t, "create") /\ UNCHANGED <<holder, faults>>
    <2>1. /\ at[t] = "invite" /\ UNCHANGED <<tenants, logo, accounts, blobs, requests>>
      BY DEF Invite
    <2>2. JobOK(t) /\ OpensTenant(t) /\ job[t].email \in Emails /\ job[t].request \in 1..requests
      BY <2>1 DEF JobsOK, JobOK, OpensTenant
    <2>3. /\ at' \in [Threads -> Steps] /\ at'[t] = "create" /\ job' = job
          /\ \A u \in Threads \ {t} : at'[u] = at[u]
      BY <1>2, Going DEF Steps
    <2>4. Typed'
      BY <1>2, <2>1, <2>2, <2>3 DEF Typed
    <2>5. \A u \in Threads \ {t} : JobOK(u)'
      BY <1>2, <2>1, <2>3, OthersKeepAtRest
    <2>6. JobOK(t)'
      BY <1>2, <2>1, <2>2, <2>3 DEF JobOK, OpensTenant
    <2>. QED
      BY <2>4, <2>5, <2>6 DEF JobsOK
  <1>. QED
    BY <1>1, <1>2 DEF Invite

(* The owner's row and the tenant's are committed together.                *)
TenantCreated(t) ==
  /\ at[t] = "create" /\ End(t) /\ UNCHANGED <<invites, blobs, requests, faults>>
  /\ Available(job[t].email) /\ job[t].slug \notin ToSet(tenants)
  /\ tenants' = Append(tenants, job[t].slug) /\ logo' = Append(logo, NoLogo)
  /\ accounts' = [accounts EXCEPT ![job[t].email] =
       [role |-> "consultancy_owner", tenant |-> Len(tenants'), password |-> job[t].request]]

StudentCreated(t) ==
  /\ at[t] = "register" /\ End(t) /\ UNCHANGED <<tenants, logo, invites, blobs, requests, faults>>
  /\ Available(job[t].email)
  /\ accounts' = [accounts EXCEPT ![job[t].email] =
       [role |-> "student", tenant |-> job[t].tenant, password |-> job[t].request]]

NothingCreated(t) ==
  End(t) /\ UNCHANGED <<store, requests>> /\ (UNCHANGED faults \/ Strike)

LEMMA CreateTenantCases ==
  ASSUME NEW t, CreateTenant(t)
  PROVE  /\ at[t] = "create"
         /\ \/ TenantCreated(t)
            \/ NothingCreated(t) /\ UNCHANGED faults /\
                 (~Available(job[t].email) \/ job[t].slug \in ToSet(tenants))
            \/ NothingCreated(t) /\ Strike
  BY DEF CreateTenant, TenantCreated, NothingCreated, store

LEMMA CreateStudentCases ==
  ASSUME NEW t, CreateStudent(t)
  PROVE  at[t] = "register" /\ (StudentCreated(t) \/ NothingCreated(t))
  BY DEF CreateStudent, StudentCreated, NothingCreated, store

LEMMA TenantCreatedStep ==
  ASSUME Typed, JobsOK, NEW t \in Threads, TenantCreated(t) PROVE Typed' /\ JobsOK'
  <1>. DEFINE s == job[t].slug
              e == job[t].email
  <1>1. /\ JobOK(t) /\ s \in Slugs /\ e \in Emails /\ job[t].request \in 1..requests
        /\ holder[s] = t /\ requests \in Nat
    BY DEF TenantCreated, JobsOK, JobOK, OpensTenant, Typed
  <1>2. /\ tenants' \in Seq(Slugs) /\ Len(tenants') = Len(tenants) + 1 /\ Len(tenants) \in Nat
        /\ \A x : x \in ToSet(tenants') => x \in ToSet(tenants) \/ x = s
    BY <1>1, AppendedTenant DEF TenantCreated, Typed
  <1>3. /\ at' \in [Threads -> Steps] /\ at'[t] = "idle"
        /\ job' \in [Threads -> Job(Len(tenants), requests)]
        /\ \A u \in Threads \ {t} : at'[u] = at[u] /\ job'[u] = job[u]
        /\ holder' \in [Slugs -> Threads \cup {Nobody}]
        /\ \A x \in Slugs : \A u \in Threads \ {t} : holder[x] = u => holder'[x] = u
    BY Ended DEF TenantCreated
  <1>4. logo' \in Seq(Logos) /\ Len(logo') = Len(tenants')
    <2>1. NoLogo \in Logos
      BY DEF NoLogo, Logos
    <2>. QED
      BY <1>2, <2>1, AppendProperties DEF TenantCreated, Typed
  <1>5. /\ Job(Len(tenants), requests) \subseteq Job(Len(tenants'), requests)
        /\ Account(Len(tenants), requests) \subseteq Account(Len(tenants'), requests)
    BY <1>1, <1>2 DEF Job, Account
  <1>6. accounts' \in [Emails -> Account(Len(tenants'), requests)]
    <2>1. [role |-> "consultancy_owner", tenant |-> Len(tenants'), password |-> job[t].request]
            \in Account(Len(tenants'), requests)
      BY <1>1, <1>2 DEF Account
    <2>2. accounts \in [Emails -> Account(Len(tenants'), requests)]
      BY <1>5 DEF Typed
    <2>. QED
      BY <1>1, <2>1, <2>2 DEF TenantCreated
  <1>7. job' \in [Threads -> Job(Len(tenants'), requests)]
    BY <1>3, <1>5
  <1>8. Typed'
    BY <1>2, <1>3, <1>4, <1>6, <1>7 DEF Typed, TenantCreated
  <1>9. ASSUME NEW u \in Threads \ {t} PROVE JobOK(u)'
    <2>1. \A x \in Slugs : holder[x] = u /\ x \notin ToSet(tenants) => x \notin ToSet(tenants')
      BY <1>1, <1>2
    <2>2. /\ UNCHANGED <<requests, invites, blobs>>
          /\ Len(tenants') \in Nat /\ Len(tenants) <= Len(tenants')
      BY <1>2 DEF TenantCreated
    <2>3. /\ u \in Threads /\ at'[u] = at[u] /\ job'[u] = job[u]
          /\ \A x \in Slugs : holder[x] = u => holder'[x] = u
      BY <1>3
    <2>. QED
      BY <1>1, <2>1, <2>2, <2>3, OthersKeep
  <1>10. JobOK(t)'
    BY <1>3 DEF JobOK
  <1>. QED
    BY <1>8, <1>9, <1>10 DEF JobsOK

LEMMA StudentCreatedStep ==
  ASSUME Typed, JobsOK, NEW t \in Threads, StudentCreated(t) PROVE Typed' /\ JobsOK'
  <1>. DEFINE e == job[t].email
  <1>1. /\ JobOK(t) /\ e \in Emails /\ job[t].request \in 1..requests
        /\ job[t].tenant \in 1..Len(tenants) /\ requests \in Nat /\ Len(tenants) \in Nat
    BY Sizes DEF StudentCreated, JobsOK, JobOK
  <1>2. accounts' \in [Emails -> Account(Len(tenants), requests)]
    <2>1. [role |-> "student", tenant |-> job[t].tenant, password |-> job[t].request]
            \in Account(Len(tenants), requests)
      BY <1>1 DEF Account
    <2>. QED
      BY <1>1, <2>1 DEF StudentCreated, Typed
  <1>3. Typed'
    BY <1>2, Ended DEF Typed, StudentCreated
  <1>4. JobsOK'
    BY EndedJobsOK DEF StudentCreated
  <1>. QED
    BY <1>3, <1>4

LEMMA StoreLogoStep ==
  ASSUME Typed, JobsOK, NEW t \in Threads, StoreLogo(t) PROVE Typed' /\ JobsOK'
  <1>1. CASE End(t) /\ Strike /\ UNCHANGED blobs
    BY <1>1, NothingStored DEF StoreLogo, store
  <1>2. CASE /\ blobs' = blobs \cup {<<job[t].request, job[t].file[2]>>}
             /\ Go(t, "name") /\ UNCHANGED <<holder, faults>>
    <2>1. /\ at[t] = "store" /\ UNCHANGED <<tenants, logo, accounts, invites, requests>>
      BY DEF StoreLogo
    <2>2. JobOK(t) /\ ShowsLogo(t) /\ job[t].file[2] \in Files /\ job[t].request \in 1..requests
      BY <2>1 DEF JobsOK, JobOK, ShowsLogo
    <2>3. /\ at' \in [Threads -> Steps] /\ at'[t] = "name" /\ job' = job
          /\ \A u \in Threads \ {t} : at'[u] = at[u]
      BY <1>2, Going DEF Steps
    <2>4. Typed'
      BY <1>2, <2>1, <2>2, <2>3 DEF Typed
    <2>5. \A u \in Threads \ {t} : JobOK(u)'
      BY <1>2, <2>1, <2>3, OthersKeepAtRest
    <2>6. ShowsLogo(t)'
      BY <1>2, <2>1, <2>2, <2>3 DEF ShowsLogo, Accepted
    <2>7. JobOK(t)'
      BY <2>1, <2>2, <2>3, <2>6 DEF JobOK
    <2>. QED
      BY <2>4, <2>5, <2>7 DEF JobsOK
  <1>. QED
    BY <1>1, <1>2 DEF StoreLogo

(* The row of the tenant is given another logo.                            *)
LogoSet(t, new) ==
  /\ End(t) /\ UNCHANGED <<tenants, accounts, invites, blobs, requests, faults>>
  /\ logo' = [logo EXCEPT ![job[t].tenant] = new]

LEMMA NameLogoCases ==
  ASSUME NEW t, NameLogo(t)
  PROVE  at[t] = "name" /\ (LogoSet(t, <<"key", job[t].request>>) \/ NothingCreated(t))
  BY DEF NameLogo, LogoSet, NothingCreated, store

LEMMA BrandCases ==
  ASSUME NEW t, Brand(t)
  PROVE  at[t] = "brand" /\ (LogoSet(t, job[t].file) \/ NothingCreated(t))
  BY DEF Brand, LogoSet, NothingCreated, store

LEMMA LogoSetStep ==
  ASSUME Typed, JobsOK, NEW t \in Threads, NEW new \in Logos, LogoSet(t, new)
  PROVE  /\ Typed' /\ JobsOK' /\ DOMAIN logo' = DOMAIN logo
         /\ \A k \in DOMAIN logo : logo'[k] = IF k = job[t].tenant THEN new ELSE logo[k]
  <1>0. logo \in [1..Len(logo) -> Logos] /\ logo \in Seq(Logos) /\ Len(logo) \in Nat
    BY LenProperties, ElementOfSeq DEF Typed
  <1>1. /\ logo' \in [1..Len(logo) -> Logos] /\ logo' \in Seq(Logos) /\ Len(logo') = Len(logo)
        /\ \A k \in DOMAIN logo : logo'[k] = IF k = job[t].tenant THEN new ELSE logo[k]
    <2>1. /\ logo' \in [1..Len(logo) -> Logos]
          /\ \A k \in DOMAIN logo : logo'[k] = IF k = job[t].tenant THEN new ELSE logo[k]
      BY <1>0 DEF LogoSet
    <2>2. logo' \in Seq(Logos)
      BY <1>0, <2>1, SeqDef
    <2>. QED
      BY <1>0, <2>1, <2>2, LenProperties
  <1>2. Typed'
    BY <1>1, Ended DEF Typed, LogoSet
  <1>3. JobsOK'
    BY EndedJobsOK DEF LogoSet
  <1>. QED
    BY <1>0, <1>1, <1>2, <1>3

LEMMA NamesAreLogos ==
  ASSUME Typed, JobsOK, NEW t \in Threads
  PROVE  /\ at[t] = "name" => <<"key", job[t].request>> \in Logos
         /\ at[t] = "brand" => job[t].file \in Logos
  <1>1. JobOK(t) /\ requests \in Nat
    BY DEF JobsOK, Typed
  <1>. QED
    BY <1>1 DEF JobOK, Logos, Named, NoLogo

LEMMA Step == Typed /\ JobsOK /\ [Next]_vars => Typed' /\ JobsOK'
  <1>. SUFFICES ASSUME Typed, JobsOK, [Next]_vars PROVE Typed' /\ JobsOK'
    OBVIOUS
  <1>1. CASE UNCHANGED vars
    BY <1>1 DEF vars, store, Typed, JobsOK, JobOK, OpensTenant, ShowsLogo, Accepted
  <1>2. ASSUME NEW t \in Threads, Receive(t) PROVE Typed' /\ JobsOK'
    BY <1>2, BeginTenantStep, BeginStudentStep, BeginLogoStep, BeginBrandingStep DEF Receive
  <1>3. ASSUME NEW t \in Threads, NothingCreated(t) PROVE Typed' /\ JobsOK'
    BY <1>3, NothingStored DEF NothingCreated
  <1>4. ASSUME NEW t \in Threads, CreateTenant(t) \/ CreateStudent(t) PROVE Typed' /\ JobsOK'
    BY <1>3, <1>4, CreateTenantCases, CreateStudentCases, TenantCreatedStep, StudentCreatedStep
  <1>5. ASSUME NEW t \in Threads, NameLogo(t) \/ Brand(t) PROVE Typed' /\ JobsOK'
    BY <1>3, <1>5, NameLogoCases, BrandCases, LogoSetStep, NamesAreLogos
  <1>6. ASSUME NEW t \in Threads, Serve(t) PROVE Typed' /\ JobsOK'
    BY <1>4, <1>5, <1>6, FlushTenantStep, InviteStep, StoreLogoStep DEF Serve
  <1>. QED
    BY <1>1, <1>2, <1>6 DEF Next

-----------------------------------------------------------------------------
(* What a step does to the tables the properties are about                 *)

LEMMA TablesStep ==
  ASSUME Typed, JobsOK, NEW t \in Threads, Receive(t) \/ Serve(t)
  PROVE  \/ TenantCreated(t)
         \/ StudentCreated(t)
         \/ \E new \in Logos : LogoSet(t, new) /\ at[t] # "create"
              /\ (new[1] = "key" => new = <<"key", job[t].request>> /\ at[t] = "name")
         \/ UNCHANGED <<tenants, logo, accounts>> /\ invites \subseteq invites'
              /\ blobs \subseteq blobs'
  <1>1. CASE Receive(t)
    BY <1>1 DEF Receive, BeginTenant, BeginStudent, BeginLogo, BeginBranding, Begin, store
  <1>2. CASE FlushTenant(t) \/ Invite(t) \/ StoreLogo(t)
    BY <1>2 DEF FlushTenant, Invite, StoreLogo, store
  <1>3. CASE CreateTenant(t) \/ CreateStudent(t)
    BY <1>3, CreateTenantCases, CreateStudentCases DEF NothingCreated, store
  <1>4. CASE NameLogo(t)
    BY <1>4, NameLogoCases, NamesAreLogos DEF NothingCreated, store
  <1>5. CASE Brand(t)
    <2>1. job[t].file[1] # "key"
      BY <1>5 DEF Brand, JobsOK, JobOK, Named, NoLogo
    <2>. QED
      BY <1>5, <2>1, BrandCases, NamesAreLogos DEF NothingCreated, store
  <1>. QED
    BY <1>1, <1>2, <1>3, <1>4, <1>5 DEF Serve

-----------------------------------------------------------------------------
(* Tenants and their owners                                                *)

Owned(k) == {e \in Emails : accounts[e].role = "consultancy_owner" /\ accounts[e].tenant = k}

HasOwner(k) == \E e \in Owned(k) : Owned(k) = {e} /\ <<e, accounts[e].password>> \in invites

OwnersOK == IsInjective(tenants) /\ \A k \in DOMAIN tenants : HasOwner(k)

LEMMA OwnersKept ==
  ASSUME OwnersOK, UNCHANGED <<tenants, accounts>>, invites \subseteq invites'
  PROVE  OwnersOK'
  <1>1. \A k : Owned(k)' = Owned(k)
    BY DEF Owned
  <1>. QED
    BY <1>1 DEF OwnersOK, HasOwner, IsInjective

LEMMA StudentIsNoOwner ==
  ASSUME Typed, JobsOK, OwnersOK, NEW t \in Threads, StudentCreated(t) PROVE OwnersOK'
  <1>1. job[t].email \in Emails /\ accounts \in [Emails -> Account(Len(tenants), requests)]
    BY DEF StudentCreated, JobsOK, JobOK, Typed
  <1>2. accounts[job[t].email].role = "none"
    BY DEF StudentCreated, Available, NoAccount
  <1>3. /\ \A e \in Emails \ {job[t].email} : accounts'[e] = accounts[e]
        /\ accounts'[job[t].email].role = "student"
    BY <1>1 DEF StudentCreated
  <1>4. \A k : Owned(k)' = Owned(k)
    BY <1>2, <1>3 DEF Owned
  <1>5. \A k : \A e \in Owned(k) : accounts'[e] = accounts[e]
    BY <1>2, <1>3 DEF Owned
  <1>. QED
    <2>1. UNCHANGED <<tenants, invites>>
      BY DEF StudentCreated
    <2>2. ASSUME NEW k, HasOwner(k) PROVE HasOwner(k)'
      BY <1>4, <1>5, <2>1, <2>2 DEF HasOwner
    <2>. QED
      BY <2>1, <2>2 DEF OwnersOK, IsInjective

LEMMA TenantHasOwner ==
  ASSUME Typed, JobsOK, OwnersOK, NEW t \in Threads, TenantCreated(t) PROVE OwnersOK'
  <1>. DEFINE s == job[t].slug
              e == job[t].email
  <1>0. PICK n : n = Len(tenants) + 1
    OBVIOUS
  <1>1. /\ s \in Slugs /\ e \in Emails /\ <<e, job[t].request>> \in invites
        /\ s \notin ToSet(tenants) /\ invites' = invites
    BY DEF TenantCreated, JobsOK, JobOK, OpensTenant
  <1>2. /\ Len(tenants') = n /\ Len(tenants) \in Nat /\ tenants'[n] = s
        /\ \A k \in 1..Len(tenants) : tenants'[k] = tenants[k]
        /\ DOMAIN tenants = 1..Len(tenants) /\ DOMAIN tenants' = 1..n
    BY <1>0, <1>1, AppendedTenant, LenProperties DEF TenantCreated, Typed
  <1>3. accounts \in [Emails -> Account(Len(tenants), requests)]
    BY DEF Typed
  <1>4. accounts[e].role = "none"
    BY DEF TenantCreated, Available, NoAccount
  <1>5. /\ \A x \in Emails \ {e} : accounts'[x] = accounts[x]
        /\ accounts'[e].role = "consultancy_owner" /\ accounts'[e].tenant = n
        /\ accounts'[e].password = job[t].request
    BY <1>0, <1>1, <1>2, <1>3 DEF TenantCreated
  <1>6. \A x \in Emails : accounts[x].tenant \in 0..Len(tenants)
    BY <1>3 DEF Account
  <1>7. IsInjective(tenants')
    BY <1>0, <1>1, <1>2 DEF OwnersOK, IsInjective, ToSet
  <1>8. ASSUME NEW k \in 1..Len(tenants) PROVE HasOwner(k)'
    <2>1. Owned(k)' = Owned(k)
      BY <1>0, <1>2, <1>4, <1>5 DEF Owned
    <2>2. \A x \in Owned(k) : accounts'[x] = accounts[x]
      BY <1>4, <1>5 DEF Owned
    <2>3. PICK x \in Owned(k) : Owned(k) = {x} /\ <<x, accounts[x].password>> \in invites
      BY <1>2 DEF OwnersOK, HasOwner
    <2>. QED
      BY <1>1, <2>1, <2>2, <2>3 DEF HasOwner
  <1>9. HasOwner(n)'
    <2>1. ASSUME NEW x \in Emails \ {e} PROVE accounts'[x].tenant # n
      BY <1>0, <1>2, <1>5, <1>6
    <2>2. \A x : x \in Owned(n)' <=> x = e
      BY <1>1, <1>2, <1>5, <2>1 DEF Owned
    <2>3. Owned(n)' = {e}
      BY <2>2
    <2>. QED
      BY <1>1, <1>5, <2>3 DEF HasOwner
  <1>10. \A k \in DOMAIN tenants' : HasOwner(k)'
    <2>1. SUFFICES ASSUME NEW k \in 1..n PROVE HasOwner(k)'
      BY <1>2
    <2>2. CASE k \in 1..Len(tenants)
      BY <1>8, <2>2
    <2>3. CASE k = n
      BY <1>9, <2>3
    <2>. QED
      BY <1>0, <1>2, <2>2, <2>3
  <1>. QED
    BY <1>7, <1>10 DEF OwnersOK

LEMMA OwnersStep == Typed /\ JobsOK /\ OwnersOK /\ [Next]_vars => OwnersOK'
  <1>. SUFFICES ASSUME Typed, JobsOK, OwnersOK, [Next]_vars PROVE OwnersOK'
    OBVIOUS
  <1>1. CASE UNCHANGED vars
    BY <1>1, OwnersKept DEF vars, store
  <1>2. ASSUME NEW t \in Threads, Receive(t) \/ Serve(t) PROVE OwnersOK'
    BY <1>2, TablesStep, OwnersKept, StudentIsNoOwner, TenantHasOwner DEF LogoSet
  <1>. QED
    BY <1>1, <1>2 DEF Next

LEMMA OwnersInit == Init => OwnersOK
  <1>. SUFFICES ASSUME Init PROVE OwnersOK
    OBVIOUS
  <1>1. DOMAIN tenants = {}
    BY DEF Init
  <1>. QED
    BY <1>1 DEF OwnersOK, IsInjective

LEMMA OwnersSignIn == Typed /\ OwnersOK => OwnersCanSignIn
  BY TypedIsTypeOK DEF OwnersOK, HasOwner, Owned, OwnersCanSignIn

-----------------------------------------------------------------------------
(* Invitations                                                             *)

(* Who still answers for an invitation has the address it went to.         *)
Pending ==
  \A i \in invites :
    \/ \E t \in Threads : at[t] = "create" /\ job[t].request = i[2] /\ job[t].email = i[1]
    \/ ~Available(i[1])
    \/ faults > 0

LEMMA FaultsAreNat == Typed => faults \in Nat
  BY Bounds DEF Typed

(* Accounts do not go away, nor do faults; so an invitation can lose its   *)
(* witness only when the request that sent it ends.                        *)
LEMMA PendingKept ==
  ASSUME Typed, Pending, NEW t \in Threads,
         \A u \in Threads \ {t} : at'[u] = at[u] /\ job'[u] = job[u],
         invites' = invites,
         \A e \in Emails : ~Available(e) => ~Available(e)',
         faults > 0 => faults' > 0,
         at[t] = "create" => faults' > 0 \/ accounts'[job[t].email] # NoAccount
  PROVE  Pending'
  <1>. SUFFICES ASSUME NEW i \in invites
                PROVE  \/ \E u \in Threads : /\ at'[u] = "create" /\ job'[u].request = i[2]
                                             /\ job'[u].email = i[1]
                       \/ ~Available(i[1])'
                       \/ faults' > 0
    BY DEF Pending
  <1>1. i[1] \in Emails
    <2>1. i \in Emails \X (1..requests)
      BY DEF Typed
    <2>. QED
      BY <2>1
  <1>2. CASE faults > 0
    BY <1>2
  <1>3. CASE ~Available(i[1])
    BY <1>1, <1>3
  <1>4. ASSUME NEW u \in Threads, at[u] = "create", job[u].request = i[2], job[u].email = i[1]
        PROVE  \/ at'[u] = "create" /\ job'[u].request = i[2] /\ job'[u].email = i[1]
               \/ ~Available(i[1])' \/ faults' > 0
    <2>1. CASE u = t
      <3>1. job[t].email = i[1]
        BY <1>4, <2>1
      <3>2. faults' > 0 \/ accounts'[job[t].email] # NoAccount
        BY <1>4, <2>1
      <3>3. CASE faults' > 0
        BY <3>3
      <3>4. CASE accounts'[job[t].email] # NoAccount
        BY <3>1, <3>4 DEF Available
      <3>. QED
        BY <3>2, <3>3, <3>4
    <2>2. CASE u # t
      BY <1>4, <2>2
    <2>. QED
      BY <2>1, <2>2
  <1>. QED
    BY <1>2, <1>3, <1>4 DEF Pending

LEMMA PendingInvite ==
  ASSUME Typed, JobsOK, Pending, NEW t \in Threads, Invite(t) PROVE Pending'
  <1>. DEFINE new == <<job[t].email, job[t].request>>
  <1>1. at[t] = "invite" /\ UNCHANGED accounts
    BY DEF Invite
  <1>2. CASE End(t) /\ Strike /\ UNCHANGED invites
    BY <1>1, <1>2, Ended, PendingKept, Bounds DEF Strike, Typed, Available
  <1>3. CASE invites' = invites \cup {new} /\ Go(t, "create") /\ UNCHANGED <<holder, faults>>
    <2>1. /\ at'[t] = "create" /\ job' = job /\ UNCHANGED faults
          /\ \A u \in Threads \ {t} : at'[u] = at[u]
      BY <1>3, Going DEF Steps
    <2>2. ASSUME NEW i \in invites'
          PROVE  \/ \E u \in Threads : /\ at'[u] = "create" /\ job'[u].request = i[2]
                                       /\ job'[u].email = i[1]
                 \/ ~Available(i[1])'
                 \/ faults' > 0
      <3>1. CASE i = new
        BY <2>1, <3>1
      <3>2. CASE i \in invites
        BY <1>1, <2>1, <3>2 DEF Pending, Available
      <3>. QED
        BY <1>3, <2>2, <3>1, <3>2
    <2>. QED
      BY <2>2 DEF Pending
  <1>. QED
    BY <1>2, <1>3 DEF Invite

(* Of the others, only the commit of a tenant ends a request that has sent *)
(* an invitation: it opens the account, or finds the address taken, since  *)
(* the slug is its own, or something fails.                                *)
LEMMA PendingCreate ==
  ASSUME Typed, JobsOK, Pending, NEW t \in Threads, CreateTenant(t) PROVE Pending'
  <1>1. /\ at[t] = "create" /\ End(t) /\ UNCHANGED invites
        /\ job[t].email \in Emails /\ job[t].slug \notin ToSet(tenants)
        /\ faults \in Nat /\ accounts \in [Emails -> Account(Len(tenants), requests)]
    <2>1. at[t] = "create" /\ End(t) /\ UNCHANGED invites
      BY DEF CreateTenant
    <2>2. OpensTenant(t)
      BY <2>1 DEF JobsOK, JobOK
    <2>. QED
      BY <2>1, <2>2, FaultsAreNat DEF OpensTenant, Typed
  <1>2. CASE TenantCreated(t)
    <2>1. /\ accounts'[job[t].email].role = "consultancy_owner" /\ UNCHANGED faults
          /\ \A e \in Emails : accounts'[e] = accounts[e] \/ e = job[t].email
      BY <1>1, <1>2 DEF TenantCreated
    <2>2. /\ accounts'[job[t].email] # NoAccount
          /\ \A e \in Emails : ~Available(e) => ~Available(e)'
      BY <2>1 DEF Available, NoAccount
    <2>. QED
      BY <1>1, <2>1, <2>2, Ended, PendingKept
  <1>3. CASE NothingCreated(t) /\ UNCHANGED faults /\ ~Available(job[t].email)
    <2>1. accounts' = accounts
      BY <1>3 DEF NothingCreated, store
    <2>2. accounts'[job[t].email] # NoAccount /\ UNCHANGED faults
      BY <1>1, <1>3, <2>1 DEF Available
    <2>. QED
      BY <1>1, <2>1, <2>2, Ended, PendingKept DEF Available
  <1>4. CASE NothingCreated(t) /\ Strike
    <2>1. accounts' = accounts /\ faults' = faults + 1
      BY <1>4 DEF NothingCreated, store, Strike
    <2>. QED
      BY <1>1, <2>1, Ended, PendingKept DEF Available
  <1>. QED
    BY <1>1, <1>2, <1>3, <1>4, CreateTenantCases

LEMMA PendingStudent ==
  ASSUME Typed, JobsOK, Pending, NEW t \in Threads, CreateStudent(t) PROVE Pending'
  <1>1. /\ at[t] = "register" /\ End(t) /\ UNCHANGED invites /\ faults \in Nat
        /\ job[t].email \in Emails /\ accounts \in [Emails -> Account(Len(tenants), requests)]
    BY Bounds DEF CreateStudent, JobsOK, JobOK, Typed
  <1>2. faults > 0 => faults' > 0
    BY <1>1 DEF CreateStudent, Strike
  <1>3. \A e \in Emails : ~Available(e) => ~Available(e)'
    BY <1>1 DEF CreateStudent, Available, NoAccount
  <1>. QED
    BY <1>1, <1>2, <1>3, Ended, PendingKept

(* The other steps leave accounts and invitations alone, and the threads   *)
(* that are about to create.                                               *)
LEMMA PendingElse ==
  ASSUME Typed, JobsOK, Pending, NEW t \in Threads,
         Receive(t) \/ FlushTenant(t) \/ StoreLogo(t) \/ NameLogo(t) \/ Brand(t)
  PROVE  Pending'
  <1>1. UNCHANGED <<accounts, invites>> /\ at[t] # "create"
    BY DEF Receive, BeginTenant, BeginStudent, BeginLogo, BeginBranding, Begin, FlushTenant,
      StoreLogo, NameLogo, Brand, store
  <1>2. UNCHANGED faults \/ Strike
    BY DEF Receive, BeginTenant, BeginStudent, BeginLogo, BeginBranding, Begin,
      FlushTenant, StoreLogo, NameLogo, Brand
  <1>3. (\E step, request : Begin(t, step, request)) \/ End(t) \/ (\E step : Go(t, step))
    BY DEF Receive, BeginTenant, BeginStudent, BeginLogo, BeginBranding,
      FlushTenant, StoreLogo, NameLogo, Brand
  <1>4. \A u \in Threads \ {t} : at'[u] = at[u] /\ job'[u] = job[u]
    BY <1>3, Ended DEF Begin, Go, Typed
  <1>. QED
    BY <1>1, <1>2, <1>4, FaultsAreNat, PendingKept DEF Available, Strike

LEMMA PendingStep == Typed /\ JobsOK /\ Pending /\ [Next]_vars => Pending'
  <1>. SUFFICES ASSUME Typed, JobsOK, Pending, [Next]_vars PROVE Pending'
    OBVIOUS
  <1>1. CASE UNCHANGED vars
    BY <1>1 DEF vars, store, Pending, Available
  <1>2. ASSUME NEW t \in Threads, Receive(t) \/ Serve(t) PROVE Pending'
    BY <1>2, PendingInvite, PendingCreate, PendingStudent, PendingElse DEF Serve
  <1>. QED
    BY <1>1, <1>2 DEF Next

LEMMA PendingSuffices == Pending => StrayInvitesLostARace
  BY DEF Pending, StrayInvitesLostARace

-----------------------------------------------------------------------------
(* Logos                                                                   *)

InStore(l) == l[1] = "key" => \E b \in blobs : b[1] = l[2] /\ Accepted(b[2])

LEMMA LogosStep == Typed /\ JobsOK /\ LogosAreInTheStore /\ [Next]_vars => LogosAreInTheStore'
  <1>. SUFFICES ASSUME Typed, JobsOK, LogosAreInTheStore, [Next]_vars
                PROVE  LogosAreInTheStore'
    OBVIOUS
  <1>0. LogosAreInTheStore <=> \A k \in DOMAIN logo : InStore(logo[k])
    BY DEF LogosAreInTheStore, InStore
  <1>1. blobs \subseteq blobs' => \A l : InStore(l) => InStore(l)'
    BY DEF InStore, Accepted
  <1>2. CASE UNCHANGED vars
    BY <1>2 DEF vars, store, LogosAreInTheStore, Accepted
  <1>3. ASSUME NEW t \in Threads, TenantCreated(t) PROVE LogosAreInTheStore'
    <2>1. logo \in Seq(Logos) /\ NoLogo \in Logos
      BY DEF Typed, NoLogo, Logos
    <2>2. /\ DOMAIN logo = 1..Len(logo) /\ Len(logo) \in Nat
          /\ DOMAIN logo' = 1..(Len(logo) + 1)
          /\ \A k \in 1..Len(logo) : logo'[k] = logo[k]
          /\ logo'[Len(logo) + 1] = NoLogo
      BY <1>3, <2>1, AppendProperties, LenProperties DEF TenantCreated
    <2>3. UNCHANGED blobs
      BY <1>3 DEF TenantCreated
    <2>4. \A k \in DOMAIN logo' : (k \in DOMAIN logo /\ logo'[k] = logo[k]) \/ logo'[k][1] # "key"
      BY <2>2 DEF NoLogo
    <2>. QED
      BY <2>3, <2>4 DEF LogosAreInTheStore, Accepted
  <1>4. ASSUME NEW t \in Threads, NEW new \in Logos, LogoSet(t, new),
               new[1] = "key" => new = <<"key", job[t].request>> /\ at[t] = "name"
        PROVE  LogosAreInTheStore'
    <2>1. /\ DOMAIN logo' = DOMAIN logo /\ UNCHANGED blobs
          /\ \A k \in DOMAIN logo : logo'[k] = IF k = job[t].tenant THEN new ELSE logo[k]
      BY <1>4, LogoSetStep DEF LogoSet
    <2>2. InStore(new)
      <3>1. CASE new[1] # "key"
        BY <3>1 DEF InStore
      <3>2. CASE at[t] = "name" /\ new = <<"key", job[t].request>>
        <4>1. ShowsLogo(t)
          BY <3>2 DEF JobsOK, JobOK
        <4>. DEFINE b == <<job[t].request, job[t].file[2]>>
        <4>2. b \in blobs /\ b[1] = new[2] /\ Accepted(b[2])
          BY <3>2, <4>1 DEF ShowsLogo
        <4>. QED
          BY <4>2 DEF InStore
      <3>. QED
        BY <1>4, <3>1, <3>2
    <2>3. \A k \in DOMAIN logo' : InStore(logo'[k])
      BY <1>0, <2>1, <2>2
    <2>4. ASSUME NEW k \in DOMAIN logo', logo'[k][1] = "key"
          PROVE  \E b \in blobs' : b[1] = logo'[k][2] /\ Accepted(b[2])
      BY <2>1, <2>3, <2>4 DEF InStore
    <2>. QED
      BY <2>4 DEF LogosAreInTheStore, Accepted
  <1>5. ASSUME UNCHANGED logo, blobs \subseteq blobs' PROVE LogosAreInTheStore'
    BY <1>5 DEF LogosAreInTheStore, Accepted
  <1>6. ASSUME NEW t \in Threads, Receive(t) \/ Serve(t) PROVE LogosAreInTheStore'
    BY <1>3, <1>4, <1>5, <1>6, TablesStep DEF StudentCreated
  <1>. QED
    BY <1>2, <1>6 DEF Next

-----------------------------------------------------------------------------
(* The theorems                                                            *)

(* Whoever races for a slug or an address, every tenant has one owner, who *)
(* was mailed the password of the account, and no slug is used twice; an   *)
(* invitation that opens nothing lost its address to another account,      *)
(* unless something failed or its request is about to commit.              *)
THEOREM InvitationsHold == Spec => []InvitesOpenAccounts
  <1>1. Init => OwnersOK /\ Pending
    BY OwnersInit DEF Init, Pending
  <1>2. Typed /\ OwnersOK /\ Pending => InvitesOpenAccounts
    BY OwnersSignIn, PendingSuffices DEF InvitesOpenAccounts
  <1>. QED
    BY <1>1, <1>2, InitTyped, Step, OwnersStep, PendingStep, PTL DEF Spec

(* However uploads and branding overlap, the key in a tenant's row is that *)
(* of accepted bytes in the store.                                         *)
THEOREM LogosHold == Spec => []LogosAreInTheStore
  <1>1. Init => LogosAreInTheStore
    BY DEF Init, LogosAreInTheStore
  <1>. QED
    BY <1>1, InitTyped, Step, LogosStep, PTL DEF Spec

-----------------------------------------------------------------------------
(* Plans: threads.                                                         *)

N == Cardinality(Threads)

LEMMA ThreadsCounted == N \in Nat /\ N >= 1
  BY TenantAssumption, FS_CardinalityType, FS_EmptySet DEF N

-----------------------------------------------------------------------------
(* Types.                                                                  *)

PlanTyped == PlanTypeOK /\ IsFiniteSet(orders)

LEMMA PlanInitTyped == PlanInit => PlanTyped
  <1>. SUFFICES ASSUME PlanInit PROVE PlanTyped
    OBVIOUS
  <1>1. IsFiniteSet(orders)
    BY FS_EmptySet DEF PlanInit
  <1>2. NoCreation \in Creation
    BY TenantAssumption DEF NoCreation, Creation
  <1>. QED
    BY <1>1, <1>2, TenantAssumption DEF PlanInit, PlanTyped, PlanTypeOK, CreationSteps

LEMMA CountedUp ==
  ASSUME NEW S, NEW f \in [S -> Nat], NEW n
  PROVE  [f EXCEPT ![n] = f[n] + 1] \in [S -> Nat]
  <1>1. ASSUME NEW m \in S PROVE [f EXCEPT ![n] = f[n] + 1][m] \in Nat
    <2>1. CASE m = n
      BY <2>1
    <2>2. CASE m # n
      BY <2>2
    <2>. QED
      BY <2>1, <2>2
  <1>. QED
    BY <1>1

LEMMA PlanTypedStep == PlanTyped /\ [PlanNext]_planVars => PlanTyped'
  <1>. SUFFICES ASSUME PlanTyped, [PlanNext]_planVars PROVE PlanTyped'
    OBVIOUS
  <1>. USE TenantAssumption DEF PlanTyped, PlanTypeOK, CreationSteps, growth, money, tenancy
  <1>0. NoCreation \in Creation
    BY DEF NoCreation, Creation
  <1>1. ASSUME NEW t \in Threads, NEW r \in Resources, Count(t, r) PROVE PlanTyped'
    <2>1. [resource |-> r, count |-> Rows(r)] \in Creation
      BY DEF Rows, Creation
    <2>. QED
      BY <1>1, <2>1 DEF Count
  <1>2. ASSUME NEW t \in Threads, Check(t) PROVE PlanTyped'
    BY <1>0, <1>2 DEF Check, Finish
  <1>3. ASSUME NEW t \in Threads, Insert(t) PROVE PlanTyped'
    BY <1>0, <1>3 DEF Insert, Finish, Creation
  <1>4. ASSUME NEW t \in Threads, InsertFails(t) PROVE PlanTyped'
    BY <1>0, <1>4 DEF InsertFails, Finish
  <1>5. ASSUME Crash PROVE PlanTyped'
    BY <1>0, <1>5 DEF Crash
  <1>6. ASSUME SetActive PROVE PlanTyped'
    BY <1>6 DEF SetActive
  <1>7. ASSUME NEW p \in Plans, AssignPlan(p) PROVE PlanTyped'
    BY <1>7 DEF AssignPlan, BecomesPlan
  <1>8. ASSUME NEW p \in Plans, CreateOrder(p) PROVE PlanTyped'
    <2>1. Cardinality(orders) + 1 \in Nat
      BY FS_CardinalityType
    <2>2. IsFiniteSet(orders')
      BY <1>8, FS_AddElement DEF CreateOrder
    <2>. QED
      BY <1>8, <2>1, <2>2 DEF CreateOrder
  <1>9. ASSUME NEW p \in Plans, Retire(p) PROVE PlanTyped'
    BY <1>9 DEF Retire
  <1>10. ASSUME NEW o \in orders, Capture(o) PROVE PlanTyped'
    BY <1>10 DEF Capture
  <1>11. ASSUME NEW o \in orders, Deliver(o) PROVE PlanTyped'
    <2>1. o[2] \in Plans
      OBVIOUS
    <2>2. deliveries' \in [OrderIds -> Nat]
      BY <1>11, CountedUp DEF Deliver
    <2>3. /\ plan' = o[2] /\ plansHad' = plansHad \cup {o[2]}
          /\ UNCHANGED <<used, inactive, at, creating, creations, switches, retired, orders,
                         captured, granted, grants, failures>>
      BY <1>11 DEF Deliver, BecomesPlan
    <2>. QED
      BY <2>1, <2>2, <2>3
  <1>12. ASSUME NEW o \in orders, DeliverFails(o) PROVE PlanTyped'
    BY <1>12 DEF DeliverFails
  <1>13. ASSUME UNCHANGED planVars PROVE PlanTyped'
    BY <1>13 DEF planVars
  <1>. QED
    BY <1>1, <1>2, <1>3, <1>4, <1>5, <1>6, <1>7, <1>8, <1>9, <1>10, <1>11, <1>12, <1>13
    DEF PlanNext, Create, ChangePlan

-----------------------------------------------------------------------------
(* Where the plan comes from.                                              *)

LEMMA PlanStep == PlanTyped /\ PlanIsPaidOrGranted /\ [PlanNext]_planVars => PlanIsPaidOrGranted'
  <1>. SUFFICES ASSUME PlanTyped, PlanIsPaidOrGranted, [PlanNext]_planVars PROVE PlanIsPaidOrGranted'
    OBVIOUS
  <1>. USE DEF PlanIsPaidOrGranted
  <1>1. ASSUME NEW p \in Plans, AssignPlan(p) PROVE PlanIsPaidOrGranted'
    BY <1>1 DEF AssignPlan, BecomesPlan
  <1>2. ASSUME NEW o \in orders, Deliver(o) PROVE PlanIsPaidOrGranted'
    BY <1>2 DEF Deliver, BecomesPlan, IsProcessed
  <1>3. ASSUME NEW o \in orders, Capture(o) PROVE PlanIsPaidOrGranted'
    BY <1>3 DEF Capture, tenancy
  <1>4. ASSUME UNCHANGED <<tenancy, captured>> PROVE PlanIsPaidOrGranted'
    BY <1>4 DEF tenancy
  <1>. QED
    BY <1>1, <1>2, <1>3, <1>4 DEF PlanNext, Create, ChangePlan, Count, Check, Insert, InsertFails,
      Crash, SetActive, CreateOrder, Retire, DeliverFails, money, planVars

-----------------------------------------------------------------------------
(* How far the tenant grows.                                               *)

(* Creations under way that counted fewer than k rows of a resource.       *)
Growing(r, k) == {t \in Threads : at[t] # "idle" /\ creating[t].resource = r /\ creating[t].count < k}

(* No plan the tenant has had allows more than k rows.                     *)
Tops(r, k) == \A p \in plansHad : Capped(p, r) /\ Cap[p][r] <= k

(* What was let through counted fewer rows than some plan allowed.         *)
LetThrough ==
  \A t \in Threads : at[t] = "insert" =>
    \E p \in plansHad : Capped(p, creating[t].resource) => creating[t].count < Cap[p][creating[t].resource]

HasHighest ==
  \A r \in Resources : AlwaysCapped(r) =>
    \E p \in plansHad : \A q \in plansHad : Cap[q][r] <= Cap[p][r]

GrowthBelow(r, k) == used[r] + Cardinality(Growing(r, k)) <= k + N - 1

GrowthIsBounded ==
  \A r \in Resources, k \in Nat : Tops(r, k) => GrowthBelow(r, k)

GrowthInv ==
  /\ plan \in plansHad
  /\ LetThrough
  /\ HasHighest
  /\ GrowthIsBounded

LEMMA PendingCounted ==
  ASSUME NEW r, NEW k
  PROVE  /\ IsFiniteSet(Growing(r, k))
         /\ Cardinality(Growing(r, k)) \in Nat
         /\ Cardinality(Growing(r, k)) <= N
  <1>1. Growing(r, k) \in SUBSET Threads
    BY DEF Growing
  <1>. QED
    BY <1>1, TenantAssumption, FS_Subset, FS_CardinalityType DEF N

LEMMA PendingCountedNext ==
  ASSUME NEW r, NEW k
  PROVE  /\ IsFiniteSet(Growing(r, k)')
         /\ Cardinality(Growing(r, k)') \in Nat
         /\ Cardinality(Growing(r, k)') <= N
  <1>1. Growing(r, k)' \in SUBSET Threads
    BY DEF Growing
  <1>. QED
    BY <1>1, TenantAssumption, FS_Subset, FS_CardinalityType DEF N

(* A step that adds no row, and no creation that counted fewer than k.     *)
LEMMA NothingAdded ==
  ASSUME NEW r, NEW k, k \in Nat, used[r] \in Nat, GrowthBelow(r, k),
         used'[r] = used[r], Growing(r, k)' \subseteq Growing(r, k)
  PROVE  GrowthBelow(r, k)'
  <1>1. Cardinality(Growing(r, k)') <= Cardinality(Growing(r, k))
    BY PendingCounted, FS_Subset
  <1>2. Cardinality(Growing(r, k)) \in Nat /\ Cardinality(Growing(r, k)') \in Nat
    BY PendingCounted, PendingCountedNext
  <1>. QED
    BY <1>1, <1>2, ThreadsCounted DEF GrowthBelow

LEMMA LetThroughStep == PlanTyped /\ GrowthInv /\ [PlanNext]_planVars => LetThrough'
  <1>. SUFFICES ASSUME PlanTyped, GrowthInv, [PlanNext]_planVars PROVE LetThrough'
    OBVIOUS
  <1>. USE TenantAssumption DEF GrowthInv, LetThrough, PlanTyped, PlanTypeOK, CreationSteps, Creation,
       growth, money, tenancy
  <1>1. ASSUME NEW t \in Threads, NEW r \in Resources, Count(t, r) PROVE LetThrough'
    BY <1>1 DEF Count
  <1>2. ASSUME NEW t \in Threads, Check(t) PROVE LetThrough'
    <2>1. CASE Allows(plan, creating[t].resource, creating[t].count)
      BY <1>2, <2>1 DEF Check, Allows
    <2>2. CASE ~Allows(plan, creating[t].resource, creating[t].count)
      BY <1>2, <2>2 DEF Check, Finish
    <2>. QED
      BY <2>1, <2>2
  <1>3. ASSUME NEW t \in Threads, Insert(t) \/ InsertFails(t) PROVE LetThrough'
    BY <1>3 DEF Insert, InsertFails, Finish
  <1>4. ASSUME Crash PROVE LetThrough'
    BY <1>4 DEF Crash
  <1>5. ASSUME UNCHANGED <<at, creating>>, plansHad \subseteq plansHad' PROVE LetThrough'
    BY <1>5
  <1>. QED
    BY <1>1, <1>2, <1>3, <1>4, <1>5 DEF PlanNext, Create, ChangePlan, SetActive, AssignPlan,
      BecomesPlan, CreateOrder, Retire, Capture, Deliver, DeliverFails, planVars

(* The plans the tenant has had change by one at a time.                   *)
LEMMA PlansHadGrow ==
  PlanTyped /\ [PlanNext]_planVars =>
    \/ plan' = plan /\ plansHad' = plansHad
    \/ \E p \in Plans : plan' = p /\ plansHad' = plansHad \cup {p}
  <1>. SUFFICES ASSUME PlanTyped, [PlanNext]_planVars,
                       ~(plan' = plan /\ plansHad' = plansHad)
                PROVE  \E p \in Plans : plan' = p /\ plansHad' = plansHad \cup {p}
    OBVIOUS
  <1>1. \/ \E p \in Plans : BecomesPlan(p)
        \/ \E o \in orders : BecomesPlan(o[2])
    BY DEF PlanNext, Create, ChangePlan, Count, Check, Insert, InsertFails, Crash, SetActive,
      AssignPlan, CreateOrder, Retire, Capture, Deliver, DeliverFails, tenancy, planVars
  <1>2. \A o \in orders : o[2] \in Plans
    BY DEF PlanTyped, PlanTypeOK
  <1>. QED
    BY <1>1, <1>2 DEF BecomesPlan

LEMMA HighestStep == PlanTyped /\ GrowthInv /\ [PlanNext]_planVars => HasHighest'
  <1>. SUFFICES ASSUME PlanTyped, GrowthInv, [PlanNext]_planVars,
                       NEW r \in Resources, AlwaysCapped(r)'
                PROVE  \E p \in plansHad' : \A q \in plansHad' : Cap[q][r] <= Cap[p][r]
    BY DEF HasHighest
  <1>1. plansHad \subseteq plansHad'
    BY PlansHadGrow
  <1>2. AlwaysCapped(r)
    BY <1>1 DEF AlwaysCapped, Capped
  <1>3. PICK high \in plansHad : \A q \in plansHad : Cap[q][r] <= Cap[high][r]
    BY <1>2 DEF GrowthInv, HasHighest
  <1>4. \A p \in plansHad' : Cap[p][r] \in Nat
    <2>. SUFFICES ASSUME NEW p \in plansHad' PROVE Cap[p][r] \in Nat
      OBVIOUS
    <2>1. p \in Plans
      BY PlanTypedStep DEF PlanTyped, PlanTypeOK, AlwaysCapped, Capped
    <2>2. Cap[p][r] # Unlimited
      BY DEF AlwaysCapped, Capped
    <2>. QED
      BY <2>1, <2>2, TenantAssumption
  <1>5. CASE plansHad' = plansHad
    BY <1>3, <1>5
  <1>6. ASSUME NEW p, plansHad' = plansHad \cup {p}
        PROVE  \E b \in plansHad' : \A q \in plansHad' : Cap[q][r] <= Cap[b][r]
    <2>1. CASE Cap[p][r] <= Cap[high][r]
      BY <1>3, <1>6, <2>1
    <2>2. CASE Cap[high][r] < Cap[p][r]
      <3>1. \A q \in plansHad' : Cap[q][r] <= Cap[p][r]
        BY <1>1, <1>3, <1>4, <1>6, <2>2
      <3>. QED
        BY <1>6, <3>1
    <2>. QED
      BY <1>1, <1>4, <1>6, <2>1, <2>2
  <1>. QED
    BY <1>5, <1>6, PlansHadGrow

LEMMA GrowthStep == PlanTyped /\ GrowthInv /\ [PlanNext]_planVars => GrowthIsBounded'
  <1>. SUFFICES ASSUME PlanTyped, GrowthInv, [PlanNext]_planVars,
                       NEW r \in Resources, NEW k \in Nat, Tops(r, k)'
                PROVE  GrowthBelow(r, k)'
    BY DEF GrowthIsBounded
  <1>1. Tops(r, k)
    BY PlansHadGrow DEF Tops, Capped
  <1>2. GrowthBelow(r, k)
    BY <1>1 DEF GrowthInv, GrowthIsBounded
  <1>3. used \in [Resources -> Nat] /\ at \in [Threads -> CreationSteps] /\ creating \in [Threads -> Creation]
    BY DEF PlanTyped, PlanTypeOK
  <1>4. ASSUME UNCHANGED <<used, at, creating>> PROVE GrowthBelow(r, k)'
    BY <1>2, <1>4 DEF GrowthBelow, Growing
  <1>5. ASSUME NEW t \in Threads, NEW s \in Resources, Count(t, s)
        PROVE  GrowthBelow(r, k)'
    <2>1. used' = used
      BY <1>5 DEF Count
    <2>2. CASE s = r /\ used[r] < k
      <3>1. Cardinality(Growing(r, k)') \in Nat /\ Cardinality(Growing(r, k)') <= N
        BY PendingCountedNext
      <3>. QED
        BY <1>3, <2>1, <2>2, <3>1, ThreadsCounted DEF GrowthBelow
    <2>3. CASE ~(s = r /\ used[r] < k)
      <3>1. Growing(r, k)' \subseteq Growing(r, k)
        BY <1>3, <1>5, <2>3 DEF Count, Rows, Growing
      <3>. QED
        BY <1>2, <1>3, <2>1, <3>1, NothingAdded
    <2>. QED
      BY <2>2, <2>3
  <1>6. ASSUME NEW t \in Threads, Check(t) PROVE GrowthBelow(r, k)'
    <2>1. Growing(r, k)' \subseteq Growing(r, k)
      BY <1>3, <1>6 DEF Check, Finish, Growing, CreationSteps
    <2>. QED
      BY <1>2, <1>3, <1>6, <2>1, NothingAdded DEF Check
  <1>7. ASSUME NEW t \in Threads, InsertFails(t) PROVE GrowthBelow(r, k)'
    <2>1. Growing(r, k)' \subseteq Growing(r, k)
      BY <1>3, <1>7 DEF InsertFails, Finish, Growing
    <2>. QED
      BY <1>2, <1>3, <1>7, <2>1, NothingAdded DEF InsertFails
  <1>8. ASSUME Crash PROVE GrowthBelow(r, k)'
    <2>1. Growing(r, k)' \subseteq Growing(r, k)
      BY <1>8 DEF Crash, Growing
    <2>. QED
      BY <1>2, <1>3, <1>8, <2>1, NothingAdded DEF Crash
  <1>9. ASSUME NEW t \in Threads, Insert(t), creating[t].resource # r
        PROVE  GrowthBelow(r, k)'
    <2>1. Growing(r, k)' \subseteq Growing(r, k)
      BY <1>3, <1>9 DEF Insert, Finish, Growing
    <2>2. used'[r] = used[r]
      BY <1>3, <1>9 DEF Insert
    <2>. QED
      BY <1>2, <1>3, <2>1, <2>2, NothingAdded
  <1>10. ASSUME NEW t \in Threads, Insert(t), creating[t].resource = r
         PROVE  GrowthBelow(r, k)'
    <2>1. creating[t].count \in Nat /\ at[t] = "insert"
      BY <1>3, <1>10 DEF Insert, Creation
    <2>2. creating[t].count < k
      <3>1. PICK p \in plansHad : Capped(p, r) => creating[t].count < Cap[p][r]
        BY <1>10, <2>1 DEF GrowthInv, LetThrough
      <3>2. Capped(p, r) /\ Cap[p][r] <= k
        BY <1>1 DEF Tops
      <3>3. Cap[p][r] \in Nat
        <4>1. p \in Plans
          BY <3>2 DEF PlanTyped, PlanTypeOK, Capped
        <4>. QED
          BY <3>2, <4>1, TenantAssumption DEF Capped
      <3>. QED
        BY <2>1, <3>1, <3>2, <3>3
    <2>3. t \in Growing(r, k)
      BY <1>10, <2>1, <2>2 DEF Growing
    <2>4. Growing(r, k)' = Growing(r, k) \ {t}
      BY <1>3, <1>10 DEF Insert, Finish, Growing
    <2>5. Cardinality(Growing(r, k)') = Cardinality(Growing(r, k)) - 1
      BY <2>3, <2>4, PendingCounted, FS_RemoveElement
    <2>6. used'[r] = used[r] + 1 /\ used[r] \in Nat
      BY <1>3, <1>10 DEF Insert
    <2>7. Cardinality(Growing(r, k)) \in Nat
      BY PendingCounted
    <2>. QED
      BY <1>2, <2>5, <2>6, <2>7, ThreadsCounted DEF GrowthBelow
  <1>. QED
    BY <1>4, <1>5, <1>6, <1>7, <1>8, <1>9, <1>10 DEF PlanNext, Create, ChangePlan, SetActive,
      AssignPlan, CreateOrder, Retire, Capture, Deliver, DeliverFails, growth, planVars

LEMMA GrowthInit == PlanInit => GrowthInv
  <1>. SUFFICES ASSUME PlanInit PROVE GrowthInv
    OBVIOUS
  <1>1. plan \in plansHad /\ LetThrough
    BY DEF PlanInit, LetThrough
  <1>2. HasHighest
    <2>. SUFFICES ASSUME NEW r \in Resources, AlwaysCapped(r)
                  PROVE  \E p \in plansHad : \A q \in plansHad : Cap[q][r] <= Cap[p][r]
      BY DEF HasHighest
    <2>1. plan \in Plans /\ Cap[plan][r] # Unlimited
      BY PlanInitTyped, <1>1 DEF AlwaysCapped, Capped, PlanTyped, PlanTypeOK
    <2>2. Cap[plan][r] \in Nat
      BY <2>1, TenantAssumption
    <2>. QED
      BY <2>2 DEF PlanInit
  <1>3. GrowthIsBounded
    <2>. SUFFICES ASSUME NEW r \in Resources, NEW k \in Nat PROVE GrowthBelow(r, k)
      BY DEF GrowthIsBounded
    <2>1. Growing(r, k) = {}
      BY DEF PlanInit, Growing
    <2>2. Cardinality(Growing(r, k)) = 0 /\ used[r] = 0
      BY <2>1, FS_EmptySet DEF PlanInit
    <2>. QED
      BY <2>2, ThreadsCounted DEF GrowthBelow
  <1>. QED
    BY <1>1, <1>2, <1>3 DEF GrowthInv

LEMMA GrowthInvStep == PlanTyped /\ GrowthInv /\ [PlanNext]_planVars => GrowthInv'
  <1>. SUFFICES ASSUME PlanTyped, GrowthInv, [PlanNext]_planVars PROVE GrowthInv'
    OBVIOUS
  <1>1. (plan \in plansHad)'
    BY PlansHadGrow DEF GrowthInv
  <1>. QED
    BY <1>1, LetThroughStep, HighestStep, GrowthStep DEF GrowthInv

LEMMA GrowthImpliesOvershoot == PlanTyped /\ GrowthInv => OvershootIsBounded
  <1>. SUFFICES ASSUME PlanTyped, GrowthInv, NEW r \in Resources, AlwaysCapped(r)
                PROVE  used[r] <= Roof(r) + Cardinality(Threads) - 1
    BY DEF OvershootIsBounded, PlanTyped
  <1>1. PICK high \in plansHad : \A q \in plansHad : Cap[q][r] <= Cap[high][r]
    BY DEF GrowthInv, HasHighest
  <1>2. /\ Roof(r) \in {Cap[p][r] : p \in plansHad}
        /\ \A p \in plansHad : Cap[p][r] <= Roof(r)
    <2>. DEFINE Is(c) == \A p \in plansHad : Cap[p][r] <= c
    <2>1. \E c \in {Cap[p][r] : p \in plansHad} : Is(c)
      BY <1>1
    <2>2. Roof(r) = CHOOSE c \in {Cap[p][r] : p \in plansHad} : Is(c)
      BY DEF Roof
    <2>. HIDE DEF Is
    <2>3. Roof(r) \in {Cap[p][r] : p \in plansHad} /\ Is(Roof(r))
      BY <2>1, <2>2
    <2>. QED
      BY <2>3 DEF Is
  <1>3. Roof(r) \in Nat
    <2>1. PICK p \in plansHad : Roof(r) = Cap[p][r]
      BY <1>2
    <2>2. p \in Plans /\ Cap[p][r] # Unlimited
      BY DEF PlanTyped, PlanTypeOK, AlwaysCapped, Capped
    <2>. QED
      BY <2>1, <2>2, TenantAssumption
  <1>4. Tops(r, Roof(r))
    BY <1>2 DEF Tops, AlwaysCapped
  <1>5. GrowthBelow(r, Roof(r))
    BY <1>3, <1>4 DEF GrowthInv, GrowthIsBounded
  <1>6. Cardinality(Growing(r, Roof(r))) \in Nat /\ used[r] \in Nat
    BY PendingCounted DEF PlanTyped, PlanTypeOK
  <1>. QED
    BY <1>3, <1>5, <1>6, ThreadsCounted DEF GrowthBelow, N

-----------------------------------------------------------------------------
(* The theorems.                                                           *)

(* Every state of the tenant's rows, plans and orders is well-formed.      *)
THEOREM TenantTypes == PlanSpec => []PlanTypeOK
  <1>1. PlanTyped /\ [PlanNext]_planVars => PlanTyped'
    BY PlanTypedStep
  <1>2. PlanTyped => PlanTypeOK
    BY DEF PlanTyped
  <1>. QED
    BY PlanInitTyped, <1>1, <1>2, PTL DEF PlanSpec

(* The tenant never has a plan it neither started with, nor was assigned   *)
(* by the super admin, nor paid for: the webhook applies captured payments *)
(* only, whatever else happens between two deliveries.                     *)
THEOREM PlanIsSound == PlanSpec => []PlanIsPaidOrGranted
  <1>1. PlanInit => PlanIsPaidOrGranted
    BY DEF PlanInit, PlanIsPaidOrGranted
  <1>. QED
    BY <1>1, PlanInitTyped, PlanTypedStep, PlanStep, PTL DEF PlanSpec

(* Whatever the number of threads, creations that count before they insert *)
(* take a tenant past the highest cap it ever had by fewer rows than there *)
(* are threads.                                                            *)
THEOREM OvershootBound == PlanSpec => []OvershootIsBounded
  <1>. QED
    BY PlanInitTyped, PlanTypedStep, GrowthInit, GrowthInvStep, GrowthImpliesOvershoot, PTL DEF PlanSpec

=============================================================================
