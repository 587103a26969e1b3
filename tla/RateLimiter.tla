---------------------------- MODULE RateLimiter ----------------------------
(***************************************************************************)
(* The in-process sliding-window limiter in front of the public sign-in    *)
(* endpoints (backend/app/auth/rate_limit.py).  A bucket is a queue of the *)
(* times of admitted hits.  A hit reads the monotonic clock first and only *)
(* then takes the limiter's lock, so hits may be recorded in another order *)
(* than that of their times.  Login hits two buckets in turn, its client's *)
(* and its account's; a refused hit reads the clock again to tell the      *)
(* client how long to wait.  All endpoints with one bucket behave alike,   *)
(* so an identifier stands for a pair of endpoint and client.              *)
(***************************************************************************)
EXTENDS Server, Integers, Sequences, FiniteSets

CONSTANTS
  Clients,      \* client addresses
  Accounts,     \* e-mails that logins name
  NoAccount,    \* the body names none, or the endpoint is not login
  MaxHits,      \* max_requests of the endpoint
  Window,       \* window_seconds
  Second,       \* clock readings in a second: time is finer than seconds
  MaxClock,     \* bound: the clock stops there
  MaxRequests   \* bound: requests

Keys == Clients \cup Accounts

ASSUME LimiterAssumption ==
  /\ Clients \cap Accounts = {} /\ NoAccount \notin Keys
  /\ Clients # {} /\ Threads # {} /\ IsFiniteSet(Threads)
  /\ {MaxHits, Window, Second} \subseteq Nat \ {0}
  /\ {MaxClock, MaxRequests} \subseteq Nat

VARIABLES
  clock,     \* the monotonic clock, in readings
  bucket,    \* the recorded times of each identifier
  job,       \* the client and account of each thread, and the time it read
  hits,      \* the times of all hits admitted for each identifier, in the
             \* order they were recorded (history)
  told,      \* the last refusal of each identifier: when it was asked, the
             \* seconds it was told to wait, and whether the window it was
             \* refused for was over by then (history)
  requests   \* requests so far

vars == <<clock, bucket, at, job, hits, told, requests>>

Span == Window * Second

Steps == {"idle", "client", "account_clock", "account", "client_refused",
          "client_told", "account_refused", "account_told"}

Job == [client : Clients, account : Accounts \cup {NoAccount}, now : 0..MaxClock]

NotRefused == [asked |-> 0, seconds |-> 0, over |-> FALSE]

TypeOK ==
  /\ clock \in 0..MaxClock
  /\ bucket \in [Keys -> Seq(0..MaxClock)]
  /\ at \in [Threads -> Steps]
  /\ job \in [Threads -> Job]
  /\ hits \in [Keys -> Seq(0..MaxClock)]
  /\ told \in [Keys -> [asked : 0..MaxClock, seconds : Nat \ {0}, over : BOOLEAN]
                         \cup {NotRefused}]
  /\ requests \in Nat

NoJob == [client |-> CHOOSE c \in Clients : TRUE, account |-> NoAccount, now |-> 0]

Init ==
  /\ clock = 0
  /\ bucket = [k \in Keys |-> <<>>]
  /\ at = [t \in Threads |-> "idle"]
  /\ job = [t \in Threads |-> NoJob]
  /\ hits = [k \in Keys |-> <<>>]
  /\ told = [k \in Keys |-> NotRefused]
  /\ requests = 0

-----------------------------------------------------------------------------
Expired(stamp, now) == stamp <= now - Span

(* Mutant: the window starts afresh once its oldest time has expired.      *)
EvictedAtOnce(times, now) ==
  IF times # <<>> /\ Expired(times[1], now) THEN <<>> ELSE times

(* _evict_expired pops from the left until it meets a time that counts,    *)
(* whatever comes after it.                                                *)
Evicted(times, now) ==
  LET kept == {i \in 1..Len(times) :
                 \E j \in 1..i : ~Expired(times[j], now)}
  IN SubSeq(times, Len(times) - Cardinality(kept) + 1, Len(times))

Admits(times) == Len(times) < MaxHits

Arrive(t) ==
  /\ at[t] = "idle"
  /\ requests < MaxRequests
  /\ requests' = requests + 1
  /\ \E c \in Clients, a \in Accounts \cup {NoAccount} :
       job' = [job EXCEPT ![t] = [client |-> c, account |-> a, now |-> clock]]
  /\ at' = [at EXCEPT ![t] = "client"]
  /\ UNCHANGED <<clock, bucket, hits, told>>

(* hit: under the lock, evict and then record the time or refuse.  Whoever *)
(* was told to come back after a window that is over finds its place taken *)
(* by the next hit; told forgets it.                                       *)
Hit(t, key, admit, refuse) ==
  LET times == Evicted(bucket[key], job[t].now) IN
  IF Admits(times)
  THEN /\ bucket' = [bucket EXCEPT ![key] = Append(times, job[t].now)]
       /\ hits' = [hits EXCEPT ![key] = Append(@, job[t].now)]
       /\ told' = [told EXCEPT ![key] = IF @.over THEN NotRefused ELSE @]
       /\ at' = [at EXCEPT ![t] = admit]
  ELSE /\ bucket' = [bucket EXCEPT ![key] = times]
       /\ at' = [at EXCEPT ![t] = refuse]
       /\ UNCHANGED <<hits, told>>

HitClient(t) ==
  /\ at[t] = "client"
  /\ Hit(t, job[t].client,
         IF job[t].account = NoAccount THEN "idle" ELSE "account_clock",
         "client_refused")
  /\ UNCHANGED <<clock, job, requests>>

HitAccount(t) ==
  /\ at[t] = "account"
  /\ Hit(t, job[t].account, "idle", "account_refused")
  /\ UNCHANGED <<clock, job, requests>>

(* The second hit of a login and every retry_after read the clock afresh,  *)
(* before they take the lock.                                              *)
AfterClock == [account_clock |-> "account", client_refused |-> "client_told",
               account_refused |-> "account_told"]

ReadClock(t) ==
  /\ at[t] \in DOMAIN AfterClock
  /\ job' = [job EXCEPT ![t].now = clock]
  /\ at' = [at EXCEPT ![t] = AfterClock[at[t]]]
  /\ UNCHANGED <<clock, bucket, hits, told, requests>>

(* Mutant: the remaining time is rounded down.                             *)
RetryAfterRoundedDown(times, now) ==
  IF times = <<>> \/ Expired(times[1], now) THEN 1
  ELSE (times[1] + Span - now) \div Second

(* Whole seconds until the oldest recorded hit leaves the window.          *)
RetryAfter(times, now) ==
  IF times = <<>> \/ Expired(times[1], now) THEN 1
  ELSE (times[1] + Span - now) \div Second + 1

Refuse(t, key) ==
  LET times == bucket[key]
      now   == job[t].now
  IN
  /\ told' = [told EXCEPT ![key] =
       [asked |-> now, seconds |-> RetryAfter(times, now),
        over |-> times = <<>> \/ Expired(times[1], now)]]
  /\ at' = [at EXCEPT ![t] = "idle"]
  /\ UNCHANGED <<clock, bucket, job, hits, requests>>

RefuseClient(t) == at[t] = "client_told" /\ Refuse(t, job[t].client)

RefuseAccount(t) == at[t] = "account_told" /\ Refuse(t, job[t].account)

Tick ==
  /\ clock < MaxClock
  /\ clock' = clock + 1
  /\ UNCHANGED <<bucket, at, job, hits, told, requests>>

Next ==
  \/ \E t \in Threads :
       \/ Arrive(t)
       \/ HitClient(t) \/ ReadClock(t) \/ HitAccount(t)
       \/ RefuseClient(t) \/ RefuseAccount(t)
  \/ Tick

Spec == Init /\ [][Next]_vars

-----------------------------------------------------------------------------
(* What should hold.                                                       *)

HitsInWindow(k, last) ==
  Cardinality({i \in DOMAIN hits[k] : hits[k][i] \in (last - Span + 1)..last})

InOrder(times) == \A i, j \in DOMAIN times : i <= j => times[i] <= times[j]

(* However threads overtake each other between the clock and the lock, no  *)
(* window of the admitted hits' times holds the budget and as many hits    *)
(* more as there are threads.                                              *)
OvertakingIsBounded ==
  \A k \in Keys, last \in 0..clock :
    HitsInWindow(k, last) < MaxHits + Cardinality(Threads)

(* auth/rate_limit.py, a "sliding-window rate limiter": while the hits of  *)
(* an identifier are recorded in the order of their times, no window of    *)
(* the length configured admits more than max_requests of them.            *)
OrderedWindowsKeepBudget ==
  \A k \in Keys, last \in 0..clock :
    InOrder(hits[k]) => HitsInWindow(k, last) <= MaxHits

(* Windows hold what they should, in order or not.                         *)
WindowsKeepBudget == TypeOK /\ OvertakingIsBounded /\ OrderedWindowsKeepBudget

(* A client that was refused, waits the seconds it was told and finds that *)
(* no hit after its question was admitted is admitted ("Round up so we     *)
(* never tell the caller retry now when they are still inside the window").*)
(* Hits that were on their way when it asked take nothing from it, unless  *)
(* the window it was refused for was over by then.                         *)
RetryAfterSuffices ==
  \A k \in {refused \in Keys : told[refused] # NotRefused} :
    LET retry == told[k].asked + told[k].seconds * Second IN
    (\A i \in DOMAIN hits[k] : hits[k][i] <= told[k].asked) =>
      Admits(Evicted(bucket[k], retry))
=============================================================================
