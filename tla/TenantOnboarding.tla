-------------------------- MODULE TenantOnboarding --------------------------
(***************************************************************************)
(* How a consultancy comes to be and shows its brand                       *)
(* (backend/app/routers/tenants.py): the tenant with its owner's account   *)
(* and invitation, the accounts that compete for an e-mail address with it *)
(* (routers/auth.py register_student, auth/email_uniqueness.py), and the   *)
(* logo, whose bytes go to the object store (storage/service.py) and whose *)
(* key or URL goes to the tenant's row.                                    *)
(*                                                                         *)
(* Creating a tenant flushes its row, so that the unique index on the slug *)
(* decides before anything is mailed: a second transaction that inserts    *)
(* the same slug waits for the first one.  The owner's row is flushed by   *)
(* the commit only, after the invitation has left.                         *)
(***************************************************************************)
EXTENDS Server, Naturals, Sequences, SequencesExt

CONSTANTS
  Slugs,         \* slugs asked for
  Emails,        \* addresses, trimmed and lower-cased by the schemas
  Files,         \* logo files: records [extension, type, size]
  MaxRequests,   \* bound: requests in a behavior
  MaxFaults      \* bound: failures of the database, the store and the mail

Nobody == "nobody"

ASSUME OnboardingAssumption ==
  /\ IsFiniteSet(Threads) /\ Nobody \notin Threads
  /\ Files \subseteq [extension : STRING, type : STRING,
                      size : {"empty", "small", "over 2 MB", "over 50 MB"}]
  /\ MaxRequests \in Nat /\ MaxFaults \in Nat

VARIABLES
  tenants,    \* committed tenants, as their slugs
  logo,       \* committed logo_url of each tenant
  accounts,   \* committed users: [Emails -> account or NoAccount]
  invites,    \* invitations handed to the transport, as <<email, password>>
  blobs,      \* logos in the object store, as <<request, file>>
  holder,     \* thread whose open transaction has inserted a slug
  job,        \* the request each thread runs
  requests,   \* requests received so far; numbers them
  faults      \* faults so far

store == <<tenants, logo, accounts, invites, blobs>>
vars == <<store, holder, at, job, requests, faults>>

NoAccount == [role |-> "none", tenant |-> 0, password |-> 0]
NoLogo == <<"none", 0>>
NoJob == [request |-> 0, slug |-> "", email |-> "", tenant |-> 0, file |-> NoLogo]

TypeOK ==
  /\ tenants \in Seq(Slugs) /\ Len(logo) = Len(tenants)
  /\ \A e \in Emails :
       accounts[e] \in [role : {"none", "consultancy_owner", "student"},
                        tenant : 0..Len(tenants), password : 0..requests]
  /\ invites \subseteq Emails \X (1..requests)
  /\ blobs \subseteq (1..requests) \X Files
  /\ holder \in [Slugs -> Threads \cup {Nobody}]
  /\ faults \in 0..MaxFaults

Init ==
  /\ tenants = <<>> /\ logo = <<>> /\ invites = {} /\ blobs = {}
  /\ accounts = [e \in Emails |-> NoAccount]
  /\ holder = [s \in Slugs |-> Nobody]
  /\ at = [t \in Threads |-> "idle"]
  /\ job = [t \in Threads |-> NoJob]
  /\ requests = 0 /\ faults = 0

Available(e) == accounts[e] = NoAccount

Begin(t, step, request) ==
  /\ at[t] = "idle" /\ requests < MaxRequests
  /\ at' = [at EXCEPT ![t] = step]
  /\ job' = [job EXCEPT ![t] = [request EXCEPT !.request = requests + 1]]
  /\ requests' = requests + 1
  /\ UNCHANGED <<store, holder, faults>>

Go(t, step) == at' = [at EXCEPT ![t] = step] /\ UNCHANGED job

\* Mutant: the session keeps its transaction.
Answer(t) ==
  /\ at' = [at EXCEPT ![t] = "idle"]
  /\ job' = [job EXCEPT ![t] = NoJob]
  /\ UNCHANGED holder

\* The request ends, and its session with it, whatever it had flushed.
End(t) ==
  /\ at' = [at EXCEPT ![t] = "idle"]
  /\ job' = [job EXCEPT ![t] = NoJob]
  /\ holder' = [s \in Slugs |-> IF holder[s] = t THEN Nobody ELSE holder[s]]

Strike == faults < MaxFaults /\ faults' = faults + 1

-----------------------------------------------------------------------------
(* A tenant and its owner: create_tenant                                    *)

BeginTenant(t) ==
  \E s \in Slugs, e \in Emails :
    Available(e) /\ Begin(t, "flush", [NoJob EXCEPT !.slug = s, !.email = e])

\* The insert waits while another transaction holds the slug, and fails on a
\* committed one.
FlushTenant(t) ==
  LET s == job[t].slug IN
  /\ at[t] = "flush"
  /\ holder[s] = Nobody
  /\ \/ s \in ToSet(tenants) /\ End(t) /\ UNCHANGED faults
     \/ End(t) /\ Strike
     \/ /\ s \notin ToSet(tenants)
        /\ holder' = [holder EXCEPT ![s] = t]
        /\ Go(t, "invite") /\ UNCHANGED faults
  /\ UNCHANGED <<store, requests>>

\* Mutant: a mail that fails is passed over.
InviteOrNot(t) ==
  /\ at[t] = "invite"
  /\ Go(t, "create")
  /\ \/ invites' = invites \cup {<<job[t].email, job[t].request>>} /\ UNCHANGED faults
     \/ UNCHANGED invites /\ Strike
  /\ UNCHANGED <<tenants, logo, accounts, blobs, holder, requests>>

\* The temporary password is the request's own; a mail that fails ends it.
Invite(t) ==
  /\ at[t] = "invite"
  /\ \/ /\ invites' = invites \cup {<<job[t].email, job[t].request>>}
        /\ Go(t, "create") /\ UNCHANGED <<holder, faults>>
     \/ End(t) /\ Strike /\ UNCHANGED invites
  /\ UNCHANGED <<tenants, logo, accounts, blobs, requests>>

\* The commit flushes the owner: an address taken meanwhile rolls it all back.
CreateTenant(t) ==
  LET s == job[t].slug
      e == job[t].email
  IN
  /\ at[t] = "create"
  /\ \/ /\ Available(e) /\ s \notin ToSet(tenants)
        /\ tenants' = Append(tenants, s) /\ logo' = Append(logo, NoLogo)
        /\ accounts' = [accounts EXCEPT ![e] =
             [role |-> "consultancy_owner", tenant |-> Len(tenants'),
              password |-> job[t].request]]
        /\ UNCHANGED faults
     \/ ~(Available(e) /\ s \notin ToSet(tenants))
        /\ UNCHANGED <<tenants, logo, accounts, faults>>
     \/ Strike /\ UNCHANGED <<tenants, logo, accounts>>
  /\ End(t)
  /\ UNCHANGED <<invites, blobs, requests>>

-----------------------------------------------------------------------------
(* Another account for the same address: register_student                   *)

BeginStudent(t) ==
  \E k \in DOMAIN tenants, e \in Emails :
    Available(e) /\ Begin(t, "register", [NoJob EXCEPT !.tenant = k, !.email = e])

CreateStudent(t) ==
  LET e == job[t].email IN
  /\ at[t] = "register"
  /\ \/ /\ Available(e)
        /\ accounts' = [accounts EXCEPT ![e] =
             [role |-> "student", tenant |-> job[t].tenant, password |-> job[t].request]]
        /\ UNCHANGED faults
     \/ ~Available(e) /\ UNCHANGED <<accounts, faults>>
     \/ Strike /\ UNCHANGED accounts
  /\ End(t)
  /\ UNCHANGED <<tenants, logo, invites, blobs, requests>>

-----------------------------------------------------------------------------
(* The logo: upload_tenant_logo and update_tenant_branding                  *)

LogoTypes == {<<".png", "image/png">>, <<".jpg", "image/jpeg">>,
              <<".jpeg", "image/jpeg">>, <<".webp", "image/webp">>}

\* validate_logo_file_size, validate_logo_file_type, and what comes before them
Accepted(f) == f.size = "small" /\ <<f.extension, f.type>> \in LogoTypes

\* The tenant is loaded, and the body read and validated, before the bytes are stored.
BeginLogo(t) ==
  \E k \in DOMAIN tenants, f \in Files :
    /\ Accepted(f)
    /\ Begin(t, "store", [NoJob EXCEPT !.tenant = k, !.file = <<"blob", f>>])

\* Mutant: the key is committed before the bytes are stored.
StoreLater(t) ==
  /\ at[t] = "store"
  /\ Go(t, "name")
  /\ UNCHANGED <<store, holder, requests, faults>>

\* Each upload is stored under a key of its own.
StoreLogo(t) ==
  /\ at[t] = "store"
  /\ \/ /\ blobs' = blobs \cup {<<job[t].request, job[t].file[2]>>}
        /\ Go(t, "name") /\ UNCHANGED <<holder, faults>>
     \/ End(t) /\ Strike /\ UNCHANGED blobs
  /\ UNCHANGED <<tenants, logo, accounts, invites, requests>>

\* A commit that fails leaves the stored bytes behind.
NameLogo(t) ==
  /\ at[t] = "name"
  /\ \/ logo' = [logo EXCEPT ![job[t].tenant] = <<"key", job[t].request>>] /\ UNCHANGED faults
     \/ Strike /\ UNCHANGED logo
  /\ End(t)
  /\ UNCHANGED <<tenants, accounts, invites, blobs, requests>>

\* Branding names a logo by its https URL, or clears it.
BeginBranding(t) ==
  \E k \in DOMAIN tenants, url \in {NoLogo, <<"url", 0>>} :
    Begin(t, "brand", [NoJob EXCEPT !.tenant = k, !.file = url])

Brand(t) ==
  /\ at[t] = "brand"
  /\ \/ logo' = [logo EXCEPT ![job[t].tenant] = job[t].file] /\ UNCHANGED faults
     \/ Strike /\ UNCHANGED logo
  /\ End(t)
  /\ UNCHANGED <<tenants, accounts, invites, blobs, requests>>

-----------------------------------------------------------------------------
Serve(t) ==
  \/ FlushTenant(t) \/ Invite(t) \/ CreateTenant(t)
  \/ CreateStudent(t)
  \/ StoreLogo(t) \/ NameLogo(t) \/ Brand(t)

Receive(t) == BeginTenant(t) \/ BeginStudent(t) \/ BeginLogo(t) \/ BeginBranding(t)

Next == \E t \in Threads : Receive(t) \/ Serve(t)

Spec == Init /\ [][Next]_vars

\* A request that can go on goes on; that clients send more is not assumed.
FairSpec == Spec /\ \A t \in Threads : WF_vars(Serve(t))

-----------------------------------------------------------------------------
(* Tenants and owners belong together one to one, under slugs of their own, *)
(* and every owner has been mailed the password of the account, whoever     *)
(* raced for the slug or the address (tenants.py:80-151).                   *)
OwnersCanSignIn ==
  LET owned(k) == {e \in Emails : accounts[e].role = "consultancy_owner"
                                    /\ accounts[e].tenant = k}
  IN  /\ TypeOK
      /\ IsInjective(tenants)
      /\ \A k \in DOMAIN tenants : \E e \in owned(k) :
           owned(k) = {e} /\ <<e, accounts[e].password>> \in invites

(* The invitation goes out before the account is committed, so it may name  *)
(* a password that opens nothing; unless something failed, its reader then  *)
(* has another account: a slug that is taken never gets as far as the mail  *)
(* (tenants.py:101, :126, :139).                                            *)
StrayInvitesLostARace ==
  \A i \in invites :
    \/ \E t \in Threads : at[t] = "create" /\ job[t].request = i[2]
    \/ ~Available(i[1])
    \/ faults > 0

(* An invitation opens the account it names, or somebody else got it.       *)
InvitesOpenAccounts == OwnersCanSignIn /\ StrayInvitesLostARace

(* A tenant's logo is a URL, or the key of an accepted image that is in the *)
(* store; uploads that fail or overlap leave bytes without a row at most    *)
(* (tenants.py:437-456).                                                    *)
LogosAreInTheStore ==
  \A k \in DOMAIN logo :
    logo[k][1] = "key" => \E b \in blobs : b[1] = logo[k][2] /\ Accepted(b[2])

(* Every request ends: one that waits for the slug of another gets its turn *)
(* however that one ends (tenants.py:102-151, db/database.py get_db).       *)
RequestsEnd == \A t \in Threads : at[t] # "idle" ~> at[t] = "idle"
=============================================================================
