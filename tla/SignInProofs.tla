---------------------------- MODULE SignInProofs ----------------------------
(***************************************************************************)
(* Proofs about RateLimiter, for every pool of threads, clients and        *)
(* accounts, budget, window and resolution of the clock, and about         *)
(* AccountAccess, for every pool of threads, set of standings and          *)
(* lifetimes.  The two share the server's threads and nothing else.        *)
(*                                                                         *)
(* Limiter: what is in a bucket is a run of the newest hits, and what      *)
(* eviction has dropped was over by then (Held). A told wait is long       *)
(* enough because the time it was counted from stays in the bucket         *)
(* (Waiting). A hit can only overrun a window if its thread read the clock *)
(* in that window and recorded after a later hit: such threads are counted *)
(* (Overtakes).                                                            *)
(*                                                                         *)
(* Access: what a token may say depends on what the thread that issues it  *)
(* has read, so the invariant relates reads to the row: a read that no     *)
(* longer matches is older than the last change, and there is none unless  *)
(* a change raced with it. How often a link is used depends on the resets  *)
(* that have opened it: uses and open resets are together no more than the *)
(* threads.                                                                *)
(***************************************************************************)
EXTENDS RateLimiter, AccountAccess, FiniteSetTheorems, SequenceTheorems, WellFoundedInduction, TLAPS

-----------------------------------------------------------------------------
(* Constants, sequences of times, eviction.                                *)

LEMMA LimiterConstants ==
  /\ MaxHits \in Nat /\ MaxHits >= 1 /\ MaxClock \in Nat /\ MaxRequests \in Nat
  /\ Window \in Nat /\ Window >= 1 /\ Second \in Nat /\ Second >= 1
  /\ Span \in Nat /\ Span >= 1
  <1>1. Window \in Nat /\ Window >= 1 /\ Second \in Nat /\ Second >= 1
    BY LimiterAssumption
  <1>2. Span \in Nat /\ Span >= 1
    BY <1>1 DEF Span
  <1>. QED
    BY <1>1, <1>2, LimiterAssumption

(* A set of naturals has a least element: of its initial segments one      *)
(* contains no other.                                                      *)
LEMMA Least ==
  ASSUME NEW S \in SUBSET Nat, S # {}
  PROVE  \E m \in S : \A i \in S : m <= i
  <1>. DEFINE segments == {1..i : i \in S}
  <1>1. segments \subseteq FiniteSubsetsOf(Nat) /\ segments # {}
    <2>1. ASSUME NEW i \in S PROVE 1..i \in SUBSET Nat /\ IsFiniteSet(1..i)
      BY FS_Interval
    <2>2. ASSUME NEW i \in S PROVE 1..i \in FiniteSubsetsOf(Nat)
      BY <2>1 DEF FiniteSubsetsOf
    <2>. QED
      BY <2>2
  <1>2. PICK x \in segments : \A y \in segments : ~(<<y, x>> \in StrictSubsetOrdering(Nat))
    <2>. HIDE DEF segments
    <2>. QED
      BY <1>1, FS_StrictSubsetOrderingWellFounded, WFMin
  <1>3. PICK m \in S : x = 1..m
    OBVIOUS
  <1>4. ASSUME NEW i \in S, i < m PROVE FALSE
    <2>1. 1..i \in segments /\ (1..i) \subseteq Nat /\ x \subseteq Nat
      BY <1>3
    <2>2. 1..i \subseteq x /\ m \in x /\ m \notin 1..i
      BY <1>3, <1>4
    <2>. QED
      BY <1>2, <2>1, <2>2 DEF StrictSubsetOrdering
  <1>. QED
    BY <1>4

Times == Seq(0..MaxClock)

LEMMA TimesAre ==
  ASSUME NEW times \in Times
  PROVE  /\ Len(times) \in Nat
         /\ \A i \in 1..Len(times) : times[i] \in 0..MaxClock /\ times[i] \in Nat
  <1>. DEFINE S == 0..MaxClock
  <1>1. times \in Seq(S)
    BY DEF Times
  <1>2. S \subseteq Nat
    BY LimiterConstants
  <1>. HIDE DEF S
  <1>3. Len(times) \in Nat /\ \A i \in 1..Len(times) : times[i] \in S
    BY <1>1, ElementOfSeq
  <1>. QED
    BY <1>2, <1>3 DEF S

(* Eviction cuts a prefix of expired times, as long as it can be.          *)
LEMMA EvictedSuffix ==
  ASSUME NEW times \in Times, NEW now \in Nat
  PROVE  \E e \in 0..Len(times) :
           /\ Evicted(times, now) = SubSeq(times, e + 1, Len(times))
           /\ \A i \in 1..e : Expired(times[i], now)
           /\ e < Len(times) => ~Expired(times[e + 1], now)
  <1>. DEFINE n == Len(times)
              live == {i \in 1..n : ~Expired(times[i], now)}
              kept == {i \in 1..n : \E j \in 1..i : ~Expired(times[j], now)}
  <1>1. n \in Nat
    BY DEF Times
  <1>. HIDE DEF n
  <1>2. CASE live = {}
    <2>1. kept = {}
      <3>1. ASSUME NEW i \in 1..n, NEW j \in 1..i PROVE Expired(times[j], now)
        BY <1>1, <1>2
      <3>. QED
        BY <3>1
    <2>2. Evicted(times, now) = SubSeq(times, n - 0 + 1, n)
      BY <2>1, FS_EmptySet DEF Evicted, n
    <2>3. n \in 0..n /\ ~(n < n) /\ n - 0 + 1 = n + 1
      BY <1>1
    <2>4. \A i \in 1..n : Expired(times[i], now)
      BY <1>2
    <2>. QED
      BY <2>2, <2>3, <2>4 DEF n
  <1>3. CASE live # {}
    <2>1. PICK m \in live : \A i \in live : m <= i
      <3>1. live \in SUBSET Nat
        BY <1>1
      <3>. HIDE DEF live
      <3>. QED
        BY <1>3, <3>1, Least
    <2>3. m \in 1..n /\ ~Expired(times[m], now)
      BY <2>1
    <2>2. kept = m..n
      <3>1. ASSUME NEW i \in m..n PROVE i \in kept
        BY <2>3, <1>1
      <3>2. ASSUME NEW i \in kept PROVE i \in m..n
        <4>1. PICK j \in 1..i : ~Expired(times[j], now)
          OBVIOUS
        <4>2. j \in live /\ i \in 1..n
          BY <4>1, <1>1
        <4>. QED
          BY <4>2, <2>1, <2>3, <1>1
      <3>. QED
        BY <3>1, <3>2
    <2>4. Cardinality(kept) = n - m + 1
      <3>1. m \in Int /\ n \in Int /\ ~(m > n)
        BY <2>3, <1>1
      <3>2. Cardinality(m..n) = n - m + 1
        BY <3>1, FS_Interval
      <3>. QED
        BY <3>2, <2>2
    <2>5. Evicted(times, now) = SubSeq(times, n - (n - m + 1) + 1, n)
      BY <2>4 DEF Evicted, n
    <2>6. /\ n - (n - m + 1) + 1 = (m - 1) + 1 /\ m - 1 \in 0..n /\ (m - 1) + 1 = m
      BY <2>3, <1>1
    <2>7. ~Expired(times[m], now)
      BY <2>1
    <2>8. \A i \in 1..(m - 1) : Expired(times[i], now)
      <3>. SUFFICES ASSUME NEW i \in 1..(m - 1), ~Expired(times[i], now) PROVE FALSE
        OBVIOUS
      <3>1. i \in live
        BY <2>3, <1>1
      <3>. QED
        BY <3>1, <2>1, <2>3
    <2>. QED
      BY <2>5, <2>6, <2>7, <2>8 DEF n
  <1>. QED
    BY <1>2, <1>3

-----------------------------------------------------------------------------
(* What a hit does.                                                        *)

(* The oldest e times leave the bucket, and the hit's enters it.           *)
Admitted(t, key, e) ==
  LET times == bucket[key]
      now   == job[t].now
  IN
  /\ e \in 0..Len(times) /\ Len(times) - e < MaxHits
  /\ \A i \in 1..e : times[i] + Span <= now
  /\ e < Len(times) => times[e + 1] + Span > now
  /\ bucket' = [bucket EXCEPT ![key] = Append(SubSeq(times, e + 1, Len(times)), now)]
  /\ hits' = [hits EXCEPT ![key] = Append(@, now)]
  /\ told' = [told EXCEPT ![key] = IF @.over THEN NotRefused ELSE @]

Refused(key) == Len(bucket[key]) >= MaxHits /\ UNCHANGED <<bucket, hits, told>>

(* A bucket never holds more than the budget, so that whatever is evicted  *)
(* makes room: a refusal leaves the bucket as it was.                      *)
LEMMA HitCases ==
  ASSUME TypeOK, NEW t \in Threads, NEW key \in Keys, NEW admit, NEW refuse,
         Len(bucket[key]) <= MaxHits, Hit(t, key, admit, refuse)
  PROVE  \/ at' = [at EXCEPT ![t] = admit] /\ \E e \in Nat : Admitted(t, key, e)
         \/ at' = [at EXCEPT ![t] = refuse] /\ Refused(key)
  <1>. DEFINE b == bucket[key]
              now == job[t].now
              n == Len(b)
  <1>1. /\ b \in Times /\ bucket \in [Keys -> Times] /\ now \in 0..MaxClock
        /\ n \in Nat /\ \A i \in 1..n : b[i] \in 0..MaxClock
    <2>1. b \in Times /\ bucket \in [Keys -> Times] /\ now \in 0..MaxClock
      BY DEF TypeOK, Times, Job
    <2>. QED
      BY <2>1, TimesAre
  <1>2. now \in Nat
    BY <1>1, LimiterConstants
  <1>3. PICK e \in 0..n :
           /\ Evicted(b, now) = SubSeq(b, e + 1, n)
           /\ \A i \in 1..e : Expired(b[i], now)
           /\ e < n => ~Expired(b[e + 1], now)
    BY <1>1, <1>2, EvictedSuffix
  <1>4. /\ Len(SubSeq(b, e + 1, n)) = n - e
        /\ e = 0 => SubSeq(b, e + 1, n) = b
    BY <1>1 DEF Times
  <1>5. /\ \A i \in 1..e : b[i] + Span <= now
        /\ e < n => b[e + 1] + Span > now
    <2>. HIDE DEF b, now, n
    <2>1. \A i \in 1..n : b[i] \in Nat /\ (Expired(b[i], now) <=> b[i] + Span <= now)
      BY <1>1, <1>2, LimiterConstants DEF Expired
    <2>2. 1..e \subseteq 1..n /\ (e < n => e + 1 \in 1..n)
      BY <1>1
    <2>. QED
      BY <1>2, <1>3, <2>1, <2>2, LimiterConstants
  <1>6. CASE Admits(Evicted(b, now))
    <2>1. n - e < MaxHits
      BY <1>3, <1>4, <1>6 DEF Admits
    <2>2. /\ bucket' = [bucket EXCEPT ![key] = Append(SubSeq(b, e + 1, n), now)]
          /\ hits' = [hits EXCEPT ![key] = Append(@, now)]
          /\ told' = [told EXCEPT ![key] = IF @.over THEN NotRefused ELSE @]
          /\ at' = [at EXCEPT ![t] = admit]
      BY <1>3, <1>6 DEF Hit
    <2>3. e \in Nat
      OBVIOUS
    <2>. QED
      BY <1>3, <1>5, <2>1, <2>2, <2>3 DEF Admitted
  <1>7. CASE ~Admits(Evicted(b, now))
    <2>1. e = 0 /\ n >= MaxHits
      BY <1>1, <1>3, <1>4, <1>7, LimiterConstants DEF Admits
    <2>2. Evicted(b, now) = b
      BY <1>3, <1>4, <2>1
    <2>3. /\ bucket' = [bucket EXCEPT ![key] = b] /\ UNCHANGED <<hits, told>>
          /\ at' = [at EXCEPT ![t] = refuse]
      BY <1>7, <2>2 DEF Hit
    <2>4. bucket' = bucket
      BY <1>1, <2>3
    <2>. QED
      BY <2>1, <2>3, <2>4 DEF Refused
  <1>. QED
    BY <1>6, <1>7

LEMMA Rest ==
  ASSUME NEW times \in Times, NEW e \in 0..Len(times)
  PROVE  /\ SubSeq(times, e + 1, Len(times)) \in Times
         /\ Len(SubSeq(times, e + 1, Len(times))) = Len(times) - e
         /\ \A i \in 1..(Len(times) - e) : SubSeq(times, e + 1, Len(times))[i] = times[e + i]
  <1>. DEFINE n == Len(times)
  <1>1. n \in Nat /\ \A i \in 1..n : times[i] \in 0..MaxClock
    BY TimesAre
  <1>2. e + 1 \in 1..(n + 1) /\ n \in Nat
    BY <1>1
  <1>3. \A i \in (e + 1)..n : times[i] \in 0..MaxClock
    BY <1>1
  <1>4. SubSeq(times, e + 1, n) = [i \in 1..(n - (e + 1) + 1) |-> times[i + (e + 1) - 1]]
    BY <1>1 DEF Times
  <1>5. n - (e + 1) + 1 = n - e /\ n - e \in Nat /\ \A i \in 1..(n - e) : i + (e + 1) - 1 = e + i
    BY <1>1
  <1>6. SubSeq(times, e + 1, n) \in Times /\ Len(SubSeq(times, e + 1, n)) = n - e
    <2>. DEFINE S == 0..MaxClock
    <2>1. e + 1 \in Int /\ n \in Int /\ \A i \in (e + 1)..n : times[i] \in S
      BY <1>2, <1>3
    <2>2. /\ SubSeq(times, e + 1, n) \in Seq(S)
          /\ Len(SubSeq(times, e + 1, n)) = IF e + 1 <= n THEN n - (e + 1) + 1 ELSE 0
      <3>. HIDE DEF S, n
      <3>. QED
        BY <2>1, SubSeqProperties
    <2>3. (IF e + 1 <= n THEN n - (e + 1) + 1 ELSE 0) = n - e
      BY <1>1
    <2>. QED
      BY <2>2, <2>3 DEF Times
  <1>8. \A i \in 1..(n - e) : SubSeq(times, e + 1, n)[i] = times[e + i]
    BY <1>4, <1>5
  <1>. QED
    BY <1>6, <1>8

(* Bucket and hits after an admission, time by time.                       *)
LEMMA AdmittedTimes ==
  ASSUME TypeOK, NEW t \in Threads, NEW key \in Keys, NEW e \in Nat, Admitted(t, key, e)
  PROVE  LET b == bucket[key]
             h == hits[key]
             now == job[t].now
         IN
         /\ Len(b) \in Nat /\ Len(h) \in Nat /\ now \in 0..MaxClock /\ e <= Len(b)
         /\ bucket'[key] \in Times /\ hits'[key] \in Times
         /\ Len(bucket'[key]) = Len(b) - e + 1
         /\ \A i \in 1..(Len(b) - e) : bucket'[key][i] = b[e + i]
         /\ bucket'[key][Len(b) - e + 1] = now
         /\ Len(hits'[key]) = Len(h) + 1
         /\ \A i \in 1..Len(h) : hits'[key][i] = h[i]
         /\ hits'[key][Len(h) + 1] = now
         /\ \A k \in Keys \ {key} : bucket'[k] = bucket[k] /\ hits'[k] = hits[k]
                                    /\ told'[k] = told[k]
  <1>. DEFINE b == bucket[key]
              h == hits[key]
              now == job[t].now
              rest == SubSeq(b, e + 1, Len(b))
  <1>1. /\ b \in Times /\ h \in Times /\ now \in 0..MaxClock
        /\ Len(b) \in Nat /\ Len(h) \in Nat /\ e <= Len(b)
    BY DEF TypeOK, Times, Job, Admitted
  <1>2. bucket'[key] = Append(rest, now) /\ hits'[key] = Append(h, now)
    BY DEF Admitted, TypeOK
  <1>3. \A k \in Keys \ {key} : bucket'[k] = bucket[k] /\ hits'[k] = hits[k]
                                /\ told'[k] = told[k]
    BY DEF Admitted, TypeOK
  <1>4. /\ rest \in Times /\ Len(rest) = Len(b) - e
        /\ \A i \in 1..(Len(b) - e) : rest[i] = b[e + i]
    <2>1. b \in Times /\ e \in 0..Len(b)
      BY <1>1
    <2>. HIDE DEF b, h, now
    <2>. QED
      BY <2>1, Rest
  <1>5. /\ Append(rest, now) \in Times /\ Len(Append(rest, now)) = Len(rest) + 1
        /\ \A i \in 1..Len(rest) : Append(rest, now)[i] = rest[i]
        /\ Append(rest, now)[Len(rest) + 1] = now
    <2>. HIDE DEF rest
    <2>. QED
      BY <1>1, <1>4 DEF Times
  <1>6. /\ Append(h, now) \in Times /\ Len(Append(h, now)) = Len(h) + 1
        /\ \A i \in 1..Len(h) : Append(h, now)[i] = h[i]
        /\ Append(h, now)[Len(h) + 1] = now
    BY <1>1 DEF Times
  <1>. HIDE DEF rest, b, h, now
  <1>7. /\ Len(bucket'[key]) = Len(b) - e + 1
        /\ \A i \in 1..(Len(b) - e) : bucket'[key][i] = b[e + i]
        /\ bucket'[key][Len(b) - e + 1] = now
    BY <1>1, <1>2, <1>4, <1>5
  <1>. QED
    BY <1>1, <1>2, <1>3, <1>5, <1>6, <1>7 DEF b, h, now

-----------------------------------------------------------------------------
(* What always holds.                                                      *)

AccountSteps == {"account_clock", "account", "account_refused", "account_told"}

(* A request knows no time to come and has met a bucket that was full,     *)
(* which no eviction ever empties.                                         *)
Served(t) ==
  /\ job[t].now <= clock
  /\ at[t] \in AccountSteps => job[t].account \in Accounts
  /\ at[t] \in {"client_refused", "client_told"} => Len(bucket[job[t].client]) > 0
  /\ at[t] \in {"account_refused", "account_told"} => Len(bucket[job[t].account]) > 0

(* A bucket is what is left of the hits; each of the others made room for  *)
(* a hit that came a window later, and was no more than the budget away.   *)
Left(k) ==
  LET gone == Len(hits[k]) - Len(bucket[k]) IN
  /\ gone >= 0
  /\ \A i \in 1..Len(bucket[k]) : bucket[k][i] = hits[k][gone + i]
  /\ \A i \in 1..gone : \E m \in (i + 1)..(i + MaxHits) :
       m <= Len(hits[k]) /\ hits[k][i] + Span <= hits[k][m]

Held(k) ==
  /\ Len(bucket[k]) <= MaxHits
  /\ \A i \in 1..Len(hits[k]) : hits[k][i] <= clock
  /\ Left(k)

Base == TypeOK /\ (\A t \in Threads : Served(t)) /\ (\A k \in Keys : Held(k))

(* The kinds of step: a hit is recorded, or refused; a refusal is answered. *)
Records(t, key, e) ==
  /\ at[t] \in {"client", "account"} /\ Admitted(t, key, e)
  /\ \E step \in {"idle", "account_clock"} :
       /\ at' = [at EXCEPT ![t] = step]
       /\ step = "account_clock" => job[t].account \in Accounts
  /\ UNCHANGED <<clock, job, requests>>

TurnsAway(t, key) ==
  /\ at[t] \in {"client", "account"} /\ Refused(key)
  /\ \/ key = job[t].client /\ at' = [at EXCEPT ![t] = "client_refused"]
     \/ key = job[t].account /\ at' = [at EXCEPT ![t] = "account_refused"]
  /\ UNCHANGED <<clock, job, requests>>

Answers(t, key) ==
  /\ at[t] \in {"client_told", "account_told"} /\ Len(bucket[key]) > 0 /\ Refuse(t, key)

LEMMA JobKeys ==
  ASSUME Base, NEW t \in Threads
  PROVE  /\ job[t].client \in Keys /\ job[t].client \in Clients
         /\ job[t].now \in 0..MaxClock /\ job[t].now \in Nat /\ job[t] \in Job
         /\ job[t].account \in Accounts => job[t].account \in Keys
         /\ job[t].account \in Accounts \/ job[t].account = NoAccount
         /\ clock \in 0..MaxClock /\ clock \in Nat
  <1>1. job[t] \in Job /\ clock \in 0..MaxClock
    BY DEF Base, TypeOK
  <1>2. job[t].client \in Clients /\ job[t].now \in 0..MaxClock
        /\ job[t].account \in Accounts \cup {NoAccount}
    BY <1>1 DEF Job
  <1>. QED
    BY <1>1, <1>2, LimiterConstants DEF Keys

LEMMA ClockIs == ASSUME Base PROVE clock \in 0..MaxClock /\ clock \in Nat
  BY LimiterConstants DEF Base, TypeOK

LEMMA HitStep ==
  ASSUME Base, NEW t \in Threads, HitClient(t) \/ HitAccount(t)
  PROVE  \E key \in Keys : TurnsAway(t, key) \/ \E e \in Nat : Records(t, key, e)
  <1>1. CASE HitClient(t)
    <2>. DEFINE key == job[t].client
                step == IF job[t].account = NoAccount THEN "idle" ELSE "account_clock"
    <2>1. key \in Keys /\ Len(bucket[key]) <= MaxHits /\ TypeOK
      BY JobKeys DEF Base, Held
    <2>2. at[t] = "client" /\ Hit(t, key, step, "client_refused")
          /\ UNCHANGED <<clock, job, requests>>
      BY <1>1 DEF HitClient
    <2>3. step \in {"idle", "account_clock"}
          /\ (step = "account_clock" => job[t].account \in Accounts)
      BY JobKeys
    <2>4. \/ at' = [at EXCEPT ![t] = step] /\ \E e \in Nat : Admitted(t, key, e)
          \/ at' = [at EXCEPT ![t] = "client_refused"] /\ Refused(key)
      <3>. HIDE DEF key, step
      <3>. QED
        BY <2>1, <2>2, HitCases
    <2>. QED
      BY <2>1, <2>2, <2>3, <2>4 DEF Records, TurnsAway
  <1>2. CASE HitAccount(t)
    <2>. DEFINE key == job[t].account
    <2>1. key \in Keys /\ Len(bucket[key]) <= MaxHits /\ TypeOK
      BY <1>2, JobKeys DEF Base, Held, Served, HitAccount, AccountSteps
    <2>2. at[t] = "account" /\ Hit(t, key, "idle", "account_refused")
          /\ UNCHANGED <<clock, job, requests>>
      BY <1>2 DEF HitAccount
    <2>4. \/ at' = [at EXCEPT ![t] = "idle"] /\ \E e \in Nat : Admitted(t, key, e)
          \/ at' = [at EXCEPT ![t] = "account_refused"] /\ Refused(key)
      <3>. HIDE DEF key
      <3>. QED
        BY <2>1, <2>2, HitCases
    <2>. QED
      BY <2>1, <2>2, <2>4 DEF Records, TurnsAway
  <1>. QED
    BY <1>1, <1>2

LEMMA AnswerStep ==
  ASSUME Base, NEW t \in Threads, RefuseClient(t) \/ RefuseAccount(t)
  PROVE  \E key \in Keys : Answers(t, key)
  <1>1. CASE RefuseClient(t)
    BY <1>1, JobKeys DEF RefuseClient, Answers, Base, Served
  <1>2. CASE RefuseAccount(t)
    BY <1>2, JobKeys DEF RefuseAccount, Answers, Base, Served, AccountSteps
  <1>. QED
    BY <1>1, <1>2

(* Every step is of one of these kinds.                                    *)
LEMMA StepKinds ==
  ASSUME Base, [Next]_vars
  PROVE  \/ \E t \in Threads, key \in Keys :
              \/ TurnsAway(t, key) \/ Answers(t, key)
              \/ \E e \in Nat : Records(t, key, e)
         \/ \E t \in Threads : Arrive(t) \/ ReadClock(t)
         \/ Tick \/ UNCHANGED vars
  BY HitStep, AnswerStep DEF Next

-----------------------------------------------------------------------------
LEMMA StartHolds == Init => Base
  <1>. SUFFICES ASSUME Init PROVE Base
    OBVIOUS
  <1>1. NoJob \in Job
    BY LimiterAssumption, LimiterConstants DEF NoJob, Job
  <1>2. TypeOK
    BY <1>1, LimiterConstants DEF Init, TypeOK, Steps
  <1>3. \A t \in Threads : Served(t)
    <2>. SUFFICES ASSUME NEW t \in Threads PROVE Served(t)
      OBVIOUS
    <2>1. at[t] = "idle" /\ job[t].now = 0 /\ clock = 0
      BY DEF Init, NoJob
    <2>. QED
      BY <2>1 DEF Served, AccountSteps
  <1>4. \A k \in Keys : Held(k)
    <2>. SUFFICES ASSUME NEW k \in Keys PROVE Held(k)
      OBVIOUS
    <2>1. Len(bucket[k]) = 0 /\ Len(hits[k]) = 0
      BY DEF Init
    <2>. QED
      BY <2>1, LimiterConstants DEF Held, Left
  <1>. QED
    BY <1>2, <1>3, <1>4 DEF Base

(* Steps that leave buckets and hits alone: the clock never goes back.     *)
LEMMA QuietHeld ==
  ASSUME Base, NEW k \in Keys, bucket' = bucket, hits' = hits,
         clock' \in Nat, clock <= clock'
  PROVE  Held(k)'
  <1>1. hits[k] \in Times /\ clock \in Nat
    BY JobKeys, LimiterConstants DEF Base, TypeOK, Times
  <1>2. \A i \in 1..Len(hits[k]) : hits[k][i] <= clock'
    BY <1>1, TimesAre DEF Base, Held
  <1>. QED
    BY <1>2 DEF Base, Held, Left

(* What other threads' steps leave to a thread.                            *)
LEMMA StaysServed ==
  ASSUME Base, NEW u \in Threads, at'[u] = at[u], job'[u] = job[u],
         clock' \in Nat, clock <= clock',
         \A k \in Keys : Len(bucket[k]) > 0 => Len(bucket'[k]) > 0
  PROVE  Served(u)'
  <1>1. Served(u)
    BY DEF Base
  <1>2. job[u].now <= clock'
    BY <1>1, JobKeys DEF Served
  <1>. QED
    BY <1>1, <1>2, JobKeys DEF Served, AccountSteps

LEMMA ArriveKeeps ==
  ASSUME Base, NEW t \in Threads, Arrive(t)
  PROVE  Base'
  <1>. USE LimiterConstants
  <1>1. PICK c \in Clients, a \in Accounts \cup {NoAccount} :
          job' = [job EXCEPT ![t] = [client |-> c, account |-> a, now |-> clock]]
    BY DEF Arrive
  <1>2. [client |-> c, account |-> a, now |-> clock] \in Job
    BY JobKeys DEF Job
  <1>3. TypeOK'
    BY <1>1, <1>2 DEF Base, TypeOK, Arrive, Steps
  <1>4. clock' = clock /\ bucket' = bucket /\ hits' = hits /\ clock \in Nat /\ clock <= clock
    BY JobKeys DEF Arrive
  <1>5. Served(t)'
    BY <1>1, <1>4 DEF Served, Base, TypeOK, Arrive, AccountSteps
  <1>6. \A u \in Threads \ {t} : at'[u] = at[u] /\ job'[u] = job[u]
    BY <1>1 DEF Base, TypeOK, Arrive
  <1>7. \A u \in Threads : Served(u)'
    BY <1>4, <1>5, <1>6, StaysServed
  <1>. QED
    BY <1>3, <1>4, <1>7, QuietHeld DEF Base

LEMMA ReadClockKeeps ==
  ASSUME Base, NEW t \in Threads, ReadClock(t)
  PROVE  Base'
  <1>. USE LimiterConstants
  <1>1. job' = [job EXCEPT ![t].now = clock] /\ at' = [at EXCEPT ![t] = AfterClock[at[t]]]
        /\ at[t] \in {"account_clock", "client_refused", "account_refused"}
    BY DEF ReadClock, AfterClock
  <1>2. job[t] \in Job /\ job'[t] \in Job /\ job'[t].now = clock
        /\ job'[t].client = job[t].client /\ job'[t].account = job[t].account
    BY <1>1, JobKeys DEF Job, Base, TypeOK
  <1>3. /\ at'[t] = AfterClock[at[t]] /\ at'[t] \in Steps
        /\ at'[t] \in {"account", "client_told", "account_told"}
        /\ at'[t] = "account" => at[t] = "account_clock"
        /\ at'[t] = "client_told" => at[t] = "client_refused"
        /\ at'[t] = "account_told" => at[t] = "account_refused"
    BY <1>1 DEF AfterClock, Base, TypeOK, Steps
  <1>4. clock' = clock /\ bucket' = bucket /\ hits' = hits /\ told' = told
        /\ requests' = requests /\ clock \in Nat /\ clock <= clock
    BY JobKeys DEF ReadClock
  <1>5. TypeOK'
    <2>1. at' \in [Threads -> Steps] /\ job' \in [Threads -> Job]
      BY <1>1, <1>2, <1>3 DEF Base, TypeOK
    <2>. QED
      BY <1>4, <2>1 DEF Base, TypeOK
  <1>6. Served(t)'
    <2>1. Served(t)
      BY DEF Base
    <2>2. at'[t] \in {"account", "account_told"} => job[t].account \in Accounts
      BY <1>3, <2>1 DEF Served, AccountSteps
    <2>3. at'[t] = "client_told" => Len(bucket[job[t].client]) > 0
      BY <1>3, <2>1 DEF Served
    <2>4. at'[t] = "account_told" => Len(bucket[job[t].account]) > 0
      BY <1>3, <2>1 DEF Served
    <2>. QED
      BY <1>2, <1>3, <1>4, <2>2, <2>3, <2>4 DEF Served, AccountSteps
  <1>7. \A u \in Threads \ {t} : at'[u] = at[u] /\ job'[u] = job[u]
    BY <1>1 DEF Base, TypeOK
  <1>8. \A u \in Threads : Served(u)'
    BY <1>4, <1>6, <1>7, StaysServed
  <1>. QED
    BY <1>4, <1>5, <1>8, QuietHeld DEF Base

LEMMA TickKeeps == ASSUME Base, Tick PROVE Base'
  <1>. USE LimiterConstants
  <1>1. /\ clock' = clock + 1 /\ clock < MaxClock /\ clock \in Nat
        /\ bucket' = bucket /\ at' = at /\ job' = job /\ hits' = hits /\ told' = told
        /\ requests' = requests
    BY ClockIs DEF Tick
  <1>2. clock' \in Nat /\ clock <= clock' /\ clock' \in 0..MaxClock
    BY <1>1
  <1>3. TypeOK'
    BY <1>1, <1>2 DEF Base, TypeOK
  <1>. QED
    BY <1>1, <1>2, <1>3, QuietHeld, StaysServed DEF Base

LEMMA TurnsAwayKeeps ==
  ASSUME Base, NEW t \in Threads, NEW key \in Keys, TurnsAway(t, key)
  PROVE  Base'
  <1>. USE LimiterConstants
  <1>1. /\ UNCHANGED <<bucket, hits, told, clock, job, requests>>
        /\ clock \in Nat /\ clock <= clock
    BY JobKeys DEF TurnsAway, Refused
  <1>2. TypeOK'
    BY <1>1 DEF Base, TypeOK, TurnsAway, Steps
  <1>3. \A u \in Threads \ {t} : at'[u] = at[u]
    BY DEF Base, TypeOK, TurnsAway
  <1>4. Served(t)'
    <2>1. Len(bucket[key]) > 0
      <3>1. Len(bucket[key]) \in Nat
        BY TimesAre DEF Base, TypeOK, Times
      <3>. QED
        BY <3>1 DEF TurnsAway, Refused
    <2>2. at[t] = "account" => job[t].account \in Accounts
      BY DEF Base, Served, AccountSteps
    <2>3. Served(t)
      BY DEF Base
    <2>4. CASE key = job[t].client /\ at' = [at EXCEPT ![t] = "client_refused"]
      BY <1>1, <2>1, <2>3, <2>4 DEF Served, Base, TypeOK, AccountSteps
    <2>5. CASE key = job[t].account /\ at' = [at EXCEPT ![t] = "account_refused"]
      <3>1. job[t].account \in Accounts
        BY <2>5, JobKeys, LimiterAssumption
      <3>. QED
        BY <1>1, <2>1, <2>3, <2>5, <3>1 DEF Served, Base, TypeOK, AccountSteps
    <2>. QED
      BY <2>4, <2>5 DEF TurnsAway
  <1>5. \A u \in Threads : Served(u)'
    BY <1>1, <1>3, <1>4, StaysServed
  <1>. QED
    BY <1>1, <1>2, <1>5, QuietHeld DEF Base

(* The hit takes its place at the end of both queues.                      *)
LEMMA RecordHeld ==
  ASSUME Base, NEW t \in Threads, NEW key \in Keys, NEW e \in Nat, Records(t, key, e)
  PROVE  Held(key)'
  <1>. DEFINE b == bucket[key]
              h == hits[key]
              now == job[t].now
              g == Len(h) - Len(b)
  <1>1. /\ Len(b) \in Nat /\ Len(h) \in Nat /\ now \in Nat /\ e <= Len(b) /\ g \in Nat
        /\ Len(bucket'[key]) = Len(b) - e + 1 /\ Len(hits'[key]) = Len(h) + 1
        /\ \A i \in 1..(Len(b) - e) : bucket'[key][i] = b[e + i]
        /\ bucket'[key][Len(b) - e + 1] = now /\ hits'[key][Len(h) + 1] = now
        /\ \A i \in 1..Len(h) : hits'[key][i] = h[i]
    <2>1. TypeOK /\ Admitted(t, key, e)
      BY DEF Base, Records
    <2>2. g >= 0
      BY DEF Base, Held, Left
    <2>3. now \in Nat
      BY JobKeys
    <2>4. /\ Len(b) \in Nat /\ Len(h) \in Nat /\ e <= Len(b)
          /\ Len(bucket'[key]) = Len(b) - e + 1 /\ Len(hits'[key]) = Len(h) + 1
          /\ \A i \in 1..(Len(b) - e) : bucket'[key][i] = b[e + i]
          /\ bucket'[key][Len(b) - e + 1] = now /\ hits'[key][Len(h) + 1] = now
          /\ \A i \in 1..Len(h) : hits'[key][i] = h[i]
      BY <2>1, AdmittedTimes
    <2>5. g \in Nat
      BY <2>2, <2>4
    <2>. QED
      BY <2>3, <2>4, <2>5
  <1>2. /\ \A i \in 1..Len(b) : b[i] = h[g + i]
        /\ \A i \in 1..g : \E m \in (i + 1)..(i + MaxHits) : m <= Len(h) /\ h[i] + Span <= h[m]
        /\ \A i \in 1..Len(h) : h[i] <= clock
    BY DEF Base, Held, Left
  <1>3. /\ Len(b) - e < MaxHits /\ now <= clock /\ clock' = clock
        /\ \A i \in 1..e : b[i] + Span <= now
    BY DEF Records, Admitted, Base, Served
  <1>. HIDE DEF b, h, now, g
  <1>4. Len(bucket'[key]) <= MaxHits
    BY <1>1, <1>3, LimiterConstants
  <1>10. Len(b) \in Nat /\ Len(h) \in Nat /\ e <= Len(b) /\ g \in Nat /\ g + Len(b) = Len(h)
    BY <1>1 DEF g
  <1>9. Len(b) <= MaxHits
    BY DEF Base, Held, b
  <1>5. \A i \in 1..Len(hits'[key]) : hits'[key][i] <= clock'
    <2>. SUFFICES ASSUME NEW i \in 1..(Len(h) + 1) PROVE hits'[key][i] <= clock'
      BY <1>1
    <2>1. i \in 1..Len(h) \/ i = Len(h) + 1
      BY <1>1
    <2>. QED
      BY <1>1, <1>2, <1>3, <2>1
  <1>6. Len(hits'[key]) - Len(bucket'[key]) = g + e
    BY <1>1 DEF g
  <1>7. \A i \in 1..Len(bucket'[key]) : bucket'[key][i] = hits'[key][(g + e) + i]
    <2>. SUFFICES ASSUME NEW i \in 1..(Len(b) - e + 1)
                  PROVE  bucket'[key][i] = hits'[key][(g + e) + i]
      BY <1>1
    <2>1. CASE i \in 1..(Len(b) - e)
      <3>1. /\ e + i \in 1..Len(b) /\ g + (e + i) \in 1..Len(h) /\ (g + e) + i = g + (e + i)
        BY <1>1, <2>1 DEF g
      <3>. QED
        BY <1>1, <1>2, <2>1, <3>1
    <2>2. CASE i = Len(b) - e + 1
      <3>1. (g + e) + i = Len(h) + 1
        BY <1>1, <2>2 DEF g
      <3>. QED
        BY <1>1, <2>2, <3>1
    <2>3. i \in 1..(Len(b) - e) \/ i = Len(b) - e + 1
      BY <1>1
    <2>. QED
      BY <2>1, <2>2, <2>3
  <1>8. \A i \in 1..(g + e) : \E m \in (i + 1)..(i + MaxHits) :
          m <= Len(h) + 1 /\ hits'[key][i] + Span <= hits'[key][m]
    <2>. SUFFICES ASSUME NEW i \in 1..(g + e)
                  PROVE  \E m \in (i + 1)..(i + MaxHits) :
                           m <= Len(h) + 1 /\ hits'[key][i] + Span <= hits'[key][m]
      OBVIOUS
    <2>1. CASE i \in 1..g
      <3>1. PICK m \in (i + 1)..(i + MaxHits) : m <= Len(h) /\ h[i] + Span <= h[m]
        BY <1>2, <2>1
      <3>2. i \in 1..Len(h) /\ m \in 1..Len(h) /\ m <= Len(h) + 1
        BY <1>10, <2>1, <3>1, LimiterConstants
      <3>. QED
        BY <1>1, <3>1, <3>2
    <2>2. CASE i \notin 1..g
      <3>1. /\ i - g \in 1..e /\ i - g \in 1..Len(b) /\ g + (i - g) = i /\ i \in 1..Len(h)
            /\ Len(h) + 1 \in (i + 1)..(i + MaxHits)
        BY <1>9, <1>10, <2>2, LimiterConstants
      <3>2. b[i - g] + Span <= now /\ b[i - g] = h[i]
        BY <1>2, <1>3, <3>1
      <3>3. hits'[key][i] + Span <= hits'[key][Len(h) + 1]
        BY <1>1, <3>1, <3>2
      <3>4. Len(h) + 1 <= Len(h) + 1
        BY <1>1
      <3>. QED
        BY <3>1, <3>3, <3>4
    <2>. QED
      BY <2>1, <2>2
  <1>11. Left(key)'
    <2>. DEFINE gone == Len(hits'[key]) - Len(bucket'[key])
    <2>1. gone = g + e /\ gone >= 0 /\ Len(hits'[key]) = Len(h) + 1
      BY <1>1, <1>6, <1>10
    <2>. HIDE DEF gone
    <2>2. /\ \A i \in 1..Len(bucket'[key]) : bucket'[key][i] = hits'[key][gone + i]
          /\ \A i \in 1..gone : \E m \in (i + 1)..(i + MaxHits) :
               m <= Len(hits'[key]) /\ hits'[key][i] + Span <= hits'[key][m]
      BY <1>7, <1>8, <2>1
    <2>. QED
      BY <2>1, <2>2 DEF Left, gone
  <1>. QED
    BY <1>4, <1>5, <1>11 DEF Held

LEMMA RecordsKeeps ==
  ASSUME Base, NEW t \in Threads, NEW key \in Keys, NEW e \in Nat, Records(t, key, e)
  PROVE  Base'
  <1>. USE LimiterConstants
  <1>1. /\ clock' = clock /\ job' = job /\ requests' = requests
        /\ clock \in Nat /\ clock <= clock
    BY JobKeys DEF Records
  <1>2. /\ bucket'[key] \in Times /\ hits'[key] \in Times /\ Len(bucket'[key]) > 0
        /\ \A k \in Keys \ {key} : bucket'[k] = bucket[k] /\ hits'[k] = hits[k]
    BY AdmittedTimes DEF Base, Records
  <1>3. TypeOK'
    <2>1. /\ bucket' = [bucket EXCEPT ![key] = bucket'[key]]
          /\ hits' = [hits EXCEPT ![key] = hits'[key]]
      BY DEF Records, Admitted, Base, TypeOK
    <2>2. bucket' \in [Keys -> Times] /\ hits' \in [Keys -> Times]
      BY <1>2, <2>1 DEF Base, TypeOK, Times
    <2>3. told' \in [Keys -> [asked : 0..MaxClock, seconds : Nat \ {0}, over : BOOLEAN]
                             \cup {NotRefused}]
      BY DEF Records, Admitted, Base, TypeOK
    <2>4. at' \in [Threads -> Steps]
      BY DEF Records, Base, TypeOK, Steps
    <2>. QED
      BY <1>1, <2>2, <2>3, <2>4 DEF Base, TypeOK, Times
  <1>4. \A k \in Keys : Len(bucket[k]) > 0 => Len(bucket'[k]) > 0
    BY <1>2
  <1>5. Served(t)'
    <2>1. Served(t) /\ at'[t] \in {"idle", "account_clock"}
          /\ (at'[t] = "account_clock" => job[t].account \in Accounts)
      BY DEF Base, Records, TypeOK
    <2>. QED
      BY <1>1, <2>1 DEF Served, AccountSteps
  <1>6. \A u \in Threads \ {t} : at'[u] = at[u]
    BY DEF Base, TypeOK, Records
  <1>7. \A u \in Threads : Served(u)'
    BY <1>1, <1>4, <1>5, <1>6, StaysServed
  <1>8. \A k \in Keys \ {key} : Held(k)'
    <2>. SUFFICES ASSUME NEW k \in Keys \ {key} PROVE Held(k)'
      OBVIOUS
    <2>1. Held(k) /\ bucket'[k] = bucket[k] /\ hits'[k] = hits[k] /\ clock' = clock
      BY <1>1, <1>2 DEF Base
    <2>2. Left(k)'
      BY <2>1 DEF Held, Left
    <2>. QED
      BY <2>1, <2>2 DEF Held
  <1>. QED
    BY <1>3, <1>7, <1>8, RecordHeld DEF Base

(* The seconds told are whole, at least one, and reach beyond the window   *)
(* of the oldest time.                                                     *)
LEMMA WaitIsEnough ==
  ASSUME NEW times \in Times, NEW now \in Nat, Len(times) > 0
  PROVE  /\ RetryAfter(times, now) \in Nat \ {0}
         /\ Expired(times[1], now + RetryAfter(times, now) * Second)
  <1>. DEFINE left == times[1] + Span - now
  <1>1. times[1] \in Nat /\ times # <<>>
    BY TimesAre
  <1>2. CASE Expired(times[1], now)
    BY <1>1, <1>2, LimiterConstants DEF RetryAfter, Expired
  <1>3. CASE ~Expired(times[1], now)
    <2>1. left \in Nat /\ left > 0
      BY <1>1, <1>3, LimiterConstants DEF Expired
    <2>2. RetryAfter(times, now) = left \div Second + 1
      BY <1>1, <1>3 DEF RetryAfter
    <2>. HIDE DEF left
    <2>3. left \div Second \in Nat /\ left < (left \div Second + 1) * Second
          /\ (left \div Second + 1) * Second \in Nat
      BY <2>1, LimiterConstants
    <2>7. times[1] = left + now - Span
      BY <1>1, LimiterConstants DEF left
    <2>. DEFINE wait == (left \div Second + 1) * Second
    <2>8. wait \in Nat /\ left <= wait
      BY <2>1, <2>3
    <2>4. times[1] <= (now + wait) - Span
      <3>. HIDE DEF wait
      <3>. QED
        BY <2>1, <2>7, <2>8, LimiterConstants
    <2>5. Expired(times[1], now + (left \div Second + 1) * Second)
      BY <2>4 DEF Expired
    <2>6. left \div Second + 1 \in Nat \ {0}
      BY <2>3
    <2>. QED
      BY <2>2, <2>5, <2>6
  <1>. QED
    BY <1>2, <1>3

LEMMA AnswersKeeps ==
  ASSUME Base, NEW t \in Threads, NEW key \in Keys, Answers(t, key)
  PROVE  Base'
  <1>. DEFINE answer == [asked |-> job[t].now, seconds |-> RetryAfter(bucket[key], job[t].now),
                over |-> bucket[key] = <<>> \/ Expired(bucket[key][1], job[t].now)]
  <1>1. /\ clock' = clock /\ bucket' = bucket /\ job' = job /\ hits' = hits
        /\ requests' = requests /\ at' = [at EXCEPT ![t] = "idle"]
        /\ told' = [told EXCEPT ![key] = answer]
        /\ clock \in Nat /\ clock <= clock
    BY JobKeys DEF Answers, Refuse
  <1>2. answer \in [asked : 0..MaxClock, seconds : Nat \ {0}, over : BOOLEAN]
    <2>1. bucket[key] \in Times /\ job[t].now \in 0..MaxClock /\ job[t].now \in Nat
          /\ Len(bucket[key]) > 0
      BY JobKeys DEF Base, TypeOK, Times, Answers
    <2>. QED
      BY <2>1, WaitIsEnough
  <1>. HIDE DEF answer
  <1>3. TypeOK'
    BY <1>1, <1>2 DEF Base, TypeOK, Steps
  <1>4. \A u \in Threads \ {t} : at'[u] = at[u]
    BY <1>1 DEF Base, TypeOK
  <1>5. Served(t)'
    BY <1>1 DEF Base, TypeOK, Served, AccountSteps
  <1>6. \A u \in Threads : Served(u)'
    BY <1>1, <1>4, <1>5, StaysServed
  <1>. QED
    BY <1>1, <1>3, <1>6, QuietHeld DEF Base

LEMMA StutterKeeps == ASSUME Base, UNCHANGED vars PROVE Base'
  BY DEF vars, Base, TypeOK, Served, Held, Left

LEMMA StepKeepsBase == ASSUME Base, [Next]_vars PROVE Base'
  BY StepKinds, ArriveKeeps, ReadClockKeeps, TickKeeps, TurnsAwayKeeps, RecordsKeeps,
     AnswersKeeps, StutterKeeps

LEMMA BaseAlways == Spec => []Base
  <1>1. Base /\ [Next]_vars => Base'
    BY StepKeepsBase
  <1>. QED
    BY <1>1, StartHolds, PTL DEF Spec

-----------------------------------------------------------------------------
(* How long a refused client waits.                                        *)

Answered(k) == told[k] # NotRefused

NoneSince(k) == \A i \in 1..Len(hits[k]) : hits[k][i] <= told[k].asked

(* The oldest time of a bucket has expired when the client may come back,  *)
(* and until then it is still the oldest: either the window was over when  *)
(* the client asked and nobody has come, or nothing older than the         *)
(* question evicts that time.                                              *)
Waiting(k) ==
  Answered(k) =>
    /\ Len(bucket[k]) > 0
    /\ NoneSince(k) =>
         /\ Expired(bucket[k][1], told[k].asked + told[k].seconds * Second)
         /\ ~told[k].over => told[k].asked < bucket[k][1] + Span

LEMMA WaitingStays ==
  ASSUME NEW k, Waiting(k), bucket'[k] = bucket[k], hits'[k] = hits[k], told'[k] = told[k]
  PROVE  Waiting(k)'
  BY DEF Waiting, Answered, NoneSince

LEMMA AnswerWaits ==
  ASSUME Base, NEW t \in Threads, NEW key \in Keys, Answers(t, key)
  PROVE  Waiting(key)'
  <1>. DEFINE times == bucket[key]
              now == job[t].now
  <1>1. /\ times \in Times /\ now \in Nat /\ Len(times) > 0 /\ times # <<>>
    BY JobKeys DEF Base, TypeOK, Times, Answers
  <1>2. times[1] \in Nat
    BY <1>1, TimesAre
  <1>3. /\ bucket' = bucket
        /\ told'[key] = [asked |-> now, seconds |-> RetryAfter(times, now),
                         over |-> times = <<>> \/ Expired(times[1], now)]
    BY DEF Answers, Refuse, Base, TypeOK
  <1>4. Expired(times[1], now + RetryAfter(times, now) * Second)
    BY <1>1, WaitIsEnough
  <1>5. ~Expired(times[1], now) => now < times[1] + Span
    BY <1>1, <1>2, LimiterConstants DEF Expired
  <1>. DEFINE seconds == RetryAfter(times, now)
  <1>6. /\ told'[key].asked = now /\ told'[key].seconds = seconds
        /\ told'[key].over = (times = <<>> \/ Expired(times[1], now))
    BY <1>3
  <1>7. bucket'[key] = times
    BY <1>3
  <1>. HIDE DEF now, times, seconds
  <1>8. /\ Expired(bucket'[key][1], told'[key].asked + told'[key].seconds * Second)
        /\ ~told'[key].over => told'[key].asked < bucket'[key][1] + Span
    BY <1>4, <1>5, <1>6, <1>7 DEF seconds
  <1>. QED
    BY <1>1, <1>7, <1>8 DEF Waiting

LEMMA RecordWaits ==
  ASSUME Base, NEW t \in Threads, NEW key \in Keys, NEW e \in Nat, Records(t, key, e),
         Waiting(key)
  PROVE  Waiting(key)'
  <1>. DEFINE b == bucket[key]
              h == hits[key]
              now == job[t].now
              was == told[key]
  <1>1. TypeOK /\ Admitted(t, key, e)
    BY DEF Base, Records
  <1>2. /\ Len(b) \in Nat /\ Len(h) \in Nat /\ e <= Len(b) /\ now \in 0..MaxClock
        /\ bucket'[key] \in Times
        /\ Len(bucket'[key]) = Len(b) - e + 1 /\ Len(hits'[key]) = Len(h) + 1
        /\ \A i \in 1..(Len(b) - e) : bucket'[key][i] = b[e + i]
        /\ hits'[key][Len(h) + 1] = now
        /\ \A i \in 1..Len(h) : hits'[key][i] = h[i]
    BY <1>1, AdmittedTimes
  <1>3. told'[key] = IF was.over THEN NotRefused ELSE was
    BY <1>1 DEF Admitted, TypeOK
  <1>4. Len(bucket'[key]) > 0
    BY <1>2
  <1>5. ASSUME Answered(key)', NoneSince(key)'
        PROVE  /\ Expired(bucket'[key][1], was.asked + was.seconds * Second)
               /\ was.asked < bucket'[key][1] + Span
    <2>1. ~was.over /\ told'[key] = was /\ Answered(key)
      BY <1>3, <1>5 DEF Answered
    <2>2. Len(hits'[key]) \in Nat /\ Len(h) + 1 \in 1..Len(hits'[key])
      BY <1>2
    <2>3. now <= was.asked /\ NoneSince(key)
      <3>1. \A i \in 1..Len(hits'[key]) : hits'[key][i] <= was.asked
        BY <1>5, <2>1 DEF NoneSince
      <3>2. now <= was.asked
        BY <1>2, <2>2, <3>1
      <3>3. \A i \in 1..Len(h) : i \in 1..Len(hits'[key])
        BY <1>2
      <3>4. \A i \in 1..Len(h) : h[i] <= was.asked
        BY <1>2, <3>1, <3>3
      <3>. QED
        BY <3>2, <3>4 DEF NoneSince
    <2>4. /\ Len(b) > 0 /\ was.asked < b[1] + Span
          /\ Expired(b[1], was.asked + was.seconds * Second)
      BY <2>1, <2>3 DEF Waiting
    <2>5. b \in Times /\ b[1] \in Nat
      BY <1>1, <2>4, TimesAre DEF TypeOK, Times
    <2>6. e = 0
      <3>1. was.asked \in Nat
        BY <1>1, <2>1, LimiterConstants DEF TypeOK, Answered
      <3>2. e > 0 => b[1] + Span <= now
        BY <1>1 DEF Admitted
      <3>3. now \in Nat /\ now <= was.asked /\ was.asked < b[1] + Span /\ b[1] \in Nat
        BY <1>2, <2>3, <2>4, <2>5, LimiterConstants
      <3>. HIDE DEF b, h, now, was
      <3>. QED
        BY <3>1, <3>2, <3>3, LimiterConstants
    <2>7. bucket'[key][1] = b[1]
      BY <1>2, <2>4, <2>6
    <2>. QED
      BY <2>4, <2>7
  <1>. QED
    BY <1>3, <1>4, <1>5 DEF Waiting, Answered

LEMMA WaitingKeeps ==
  ASSUME Base, \A k \in Keys : Waiting(k), [Next]_vars
  PROVE  \A k \in Keys : Waiting(k)'
  <1>1. CASE UNCHANGED <<bucket, hits, told>>
    BY <1>1, WaitingStays
  <1>2. ASSUME NEW t \in Threads, NEW key \in Keys, NEW e \in Nat, Records(t, key, e)
        PROVE  \A k \in Keys : Waiting(k)'
    <2>1. \A k \in Keys \ {key} : bucket'[k] = bucket[k] /\ hits'[k] = hits[k]
                                  /\ told'[k] = told[k]
      BY <1>2, AdmittedTimes DEF Base, Records
    <2>. QED
      BY <1>2, <2>1, RecordWaits, WaitingStays
  <1>3. ASSUME NEW t \in Threads, NEW key \in Keys, Answers(t, key)
        PROVE  \A k \in Keys : Waiting(k)'
    <2>1. bucket' = bucket /\ hits' = hits /\ \A k \in Keys \ {key} : told'[k] = told[k]
      BY <1>3 DEF Base, TypeOK, Answers, Refuse
    <2>. QED
      BY <1>3, <2>1, AnswerWaits, WaitingStays
  <1>4. UNCHANGED <<bucket, hits, told>>
        \/ \E t \in Threads, key \in Keys : Answers(t, key) \/ \E e \in Nat : Records(t, key, e)
    BY StepKinds DEF TurnsAway, Refused, Arrive, ReadClock, Tick, vars
  <1>. QED
    BY <1>1, <1>2, <1>3, <1>4

LEMMA WaitingSuffices ==
  ASSUME Base, \A k \in Keys : Waiting(k)
  PROVE  RetryAfterSuffices
  <1>. SUFFICES ASSUME NEW k \in Keys, Answered(k),
                       \A i \in DOMAIN hits[k] : hits[k][i] <= told[k].asked
                PROVE  Admits(Evicted(bucket[k], told[k].asked + told[k].seconds * Second))
    BY DEF RetryAfterSuffices, Answered
  <1>. DEFINE b == bucket[k]
              retry == told[k].asked + told[k].seconds * Second
  <1>1. b \in Times /\ hits[k] \in Times /\ Len(b) \in Nat /\ Len(b) <= MaxHits
    BY TimesAre DEF Base, TypeOK, Times, Held
  <1>2. retry \in Nat
    <2>1. told[k].asked \in Nat /\ told[k].seconds \in Nat
      BY LimiterConstants DEF Base, TypeOK, Answered
    <2>2. told[k].seconds * Second \in Nat
      BY <2>1, LimiterConstants
    <2>. QED
      BY <2>1, <2>2
  <1>3. NoneSince(k)
    BY <1>1 DEF NoneSince, Times
  <1>4. Len(b) > 0 /\ Expired(b[1], retry)
    BY <1>3 DEF Waiting
  <1>. HIDE DEF b, retry
  <1>5. PICK e \in 0..Len(b) :
           /\ Evicted(b, retry) = SubSeq(b, e + 1, Len(b))
           /\ e < Len(b) => ~Expired(b[e + 1], retry)
    BY <1>1, <1>2, EvictedSuffix
  <1>6. e > 0
    BY <1>1, <1>4, <1>5
  <1>7. Len(Evicted(b, retry)) = Len(b) - e
    BY <1>1, <1>5, Rest
  <1>. QED
    BY <1>1, <1>6, <1>7, LimiterConstants DEF Admits, b, retry

(* A client that comes back when it was told to is admitted.               *)
THEOREM RetrySuffices == Spec => []RetryAfterSuffices
  <1>1. Init => \A k \in Keys : Waiting(k)
    BY DEF Init, Waiting, Answered
  <1>2. Base /\ (\A k \in Keys : Waiting(k)) /\ [Next]_vars => (\A k \in Keys : Waiting(k))'
    BY WaitingKeeps
  <1>3. Base /\ (\A k \in Keys : Waiting(k)) => RetryAfterSuffices
    BY WaitingSuffices
  <1>. QED
    BY <1>1, <1>2, <1>3, BaseAlways, PTL DEF Spec

-----------------------------------------------------------------------------
(* How many hits fit into a window.                                        *)

Within(k, last) == {i \in DOMAIN hits[k] : hits[k][i] \in (last - Span + 1)..last}

LEMMA WithinCounted ==
  ASSUME Base, NEW k \in Keys, NEW last \in Nat
  PROVE  /\ Len(hits[k]) \in Nat /\ DOMAIN hits[k] = 1..Len(hits[k])
         /\ \A i \in DOMAIN hits[k] : hits[k][i] \in Nat
         /\ Within(k, last) \in SUBSET (1..Len(hits[k]))
         /\ IsFiniteSet(Within(k, last)) /\ Cardinality(Within(k, last)) \in Nat
         /\ HitsInWindow(k, last) = Cardinality(Within(k, last))
  <1>1. hits[k] \in Times
    BY DEF Base, TypeOK, Times
  <1>2. Len(hits[k]) \in Nat /\ \A i \in 1..Len(hits[k]) : hits[k][i] \in Nat
    BY <1>1, TimesAre
  <1>3. DOMAIN hits[k] = 1..Len(hits[k])
    BY <1>1, LenProperties DEF Times
  <1>4. Within(k, last) \in SUBSET (1..Len(hits[k]))
    BY <1>3 DEF Within
  <1>5. IsFiniteSet(1..Len(hits[k]))
    BY <1>2, FS_Interval
  <1>6. IsFiniteSet(Within(k, last)) /\ Cardinality(Within(k, last)) \in Nat
    BY <1>4, <1>5, FS_Subset, FS_CardinalityType
  <1>. QED
    BY <1>2, <1>3, <1>4, <1>6 DEF HitsInWindow, Within

(* So many hits that each lies among `many' in a row.                      *)
LEMMA AmongFew ==
  ASSUME NEW S, NEW from \in Int, NEW many \in Nat, S \subseteq from..(from + many - 1)
  PROVE  Cardinality(S) <= many
  <1>1. IsFiniteSet(from..(from + many - 1)) /\ Cardinality(from..(from + many - 1)) = many
    <2>1. from + many - 1 \in Int
      OBVIOUS
    <2>2. /\ IsFiniteSet(from..(from + many - 1))
          /\ Cardinality(from..(from + many - 1)) =
               IF from > from + many - 1 THEN 0 ELSE (from + many - 1) - from + 1
      BY <2>1, FS_Interval
    <2>3. (IF from > from + many - 1 THEN 0 ELSE (from + many - 1) - from + 1) = many
      OBVIOUS
    <2>. QED
      BY <2>2, <2>3
  <1>2. S \in SUBSET (from..(from + many - 1))
    OBVIOUS
  <1>. QED
    BY <1>1, <1>2, FS_Subset

(* While hits come in order, those that are the budget apart are a window  *)
(* apart.                                                                  *)
LEMMA OrderedApart ==
  ASSUME Base, NEW k \in Keys, InOrder(hits[k]),
         NEW i \in DOMAIN hits[k], NEW j \in DOMAIN hits[k], i + MaxHits <= j
  PROVE  hits[k][i] + Span <= hits[k][j]
  <1>. DEFINE h == hits[k]
              n == Len(h)
              size == Len(bucket[k])
  <1>1. n \in Nat /\ DOMAIN h = 1..n /\ \A x \in DOMAIN h : h[x] \in Nat
    BY WithinCounted, LimiterConstants
  <1>2. size \in Nat /\ size <= MaxHits
    BY TimesAre DEF Base, TypeOK, Times, Held
  <1>3. \A x \in 1..(n - size) : \E m \in (x + 1)..(x + MaxHits) : m <= n /\ h[x] + Span <= h[m]
    BY DEF Base, Held, Left
  <1>4. \A x, y \in DOMAIN h : x <= y => h[x] <= h[y]
    BY DEF InOrder
  <1>. HIDE DEF h, n, size
  <1>5. i \in 1..(n - size) /\ i \in 1..n /\ j \in 1..n
    BY <1>1, <1>2, LimiterConstants DEF h
  <1>6. PICK m \in (i + 1)..(i + MaxHits) : m <= n /\ h[i] + Span <= h[m]
    BY <1>3, <1>5
  <1>7. m \in 1..n /\ m <= j
    BY <1>1, <1>5, <1>6, LimiterConstants
  <1>8. h[m] <= h[j] /\ h[m] \in Nat /\ h[j] \in Nat /\ h[i] \in Nat
    BY <1>1, <1>4, <1>5, <1>7
  <1>. QED
    BY <1>6, <1>8, LimiterConstants DEF h

LEMMA OrderedKeepBudget ==
  ASSUME Base, NEW k \in Keys, NEW last \in Nat, InOrder(hits[k])
  PROVE  HitsInWindow(k, last) <= MaxHits
  <1>. DEFINE S == Within(k, last)
  <1>1. S \in SUBSET Nat /\ DOMAIN hits[k] \subseteq Nat
    <2>. DEFINE n == Len(hits[k])
    <2>1. n \in Nat /\ DOMAIN hits[k] = 1..n /\ S \in SUBSET (1..n)
      BY WithinCounted
    <2>. HIDE DEF n, S
    <2>. QED
      BY <2>1
  <1>2. CASE S = {}
    <2>1. HitsInWindow(k, last) = Cardinality(S)
      BY WithinCounted
    <2>2. Cardinality(S) = 0
      BY <1>2, FS_EmptySet
    <2>. QED
      BY <2>1, <2>2, LimiterConstants
  <1>3. CASE S # {}
    <2>1. PICK first \in S : \A i \in S : first <= i
      <3>. HIDE DEF S
      <3>. QED
        BY <1>1, <1>3, Least
    <2>2. ASSUME NEW i \in S PROVE i <= first + MaxHits - 1
      <3>1. SUFFICES ASSUME first + MaxHits <= i PROVE FALSE
        BY <1>1, LimiterConstants
      <3>2. first \in DOMAIN hits[k] /\ i \in DOMAIN hits[k]
        BY DEF Within
      <3>3. hits[k][first] + Span <= hits[k][i]
        BY <3>1, <3>2, OrderedApart
      <3>4. hits[k][first] \in (last - Span + 1)..last /\ hits[k][i] \in (last - Span + 1)..last
        BY DEF Within
      <3>. QED
        BY <3>3, <3>4, LimiterConstants
    <2>3. S \subseteq first..(first + MaxHits - 1) /\ first \in Int
      <3>1. \A i \in S : i \in Int /\ first <= i /\ i <= first + MaxHits - 1 /\ first \in Int
        BY <1>1, <2>1, <2>2
      <3>. HIDE DEF S
      <3>. QED
        BY <3>1, LimiterConstants
    <2>. QED
      BY <2>3, AmongFew, LimiterConstants, WithinCounted
  <1>. QED
    BY <1>2, <1>3

(* Hits of a window are never evicted by hits of the window or before it:  *)
(* until a later one is recorded, all are in the bucket.                   *)
LEMMA AllInBucket ==
  ASSUME Base, NEW k \in Keys, NEW last \in Nat,
         \A i \in DOMAIN hits[k] : hits[k][i] <= last
  PROVE  Cardinality(Within(k, last)) <= MaxHits
  <1>. DEFINE h == hits[k]
              n == Len(h)
              size == Len(bucket[k])
              S == Within(k, last)
  <1>1. n \in Nat /\ DOMAIN h = 1..n /\ (\A x \in DOMAIN h : h[x] \in Nat) /\ S \in SUBSET (1..n)
    BY WithinCounted
  <1>2. size \in Nat /\ size <= MaxHits
    BY TimesAre DEF Base, TypeOK, Times, Held
  <1>3. \A x \in 1..(n - size) : \E m \in (x + 1)..(x + MaxHits) : m <= n /\ h[x] + Span <= h[m]
    BY DEF Base, Held, Left
  <1>4. \A x \in S : h[x] \in (last - Span + 1)..last
    BY DEF Within
  <1>5. \A x \in DOMAIN h : h[x] <= last
    OBVIOUS
  <1>. HIDE DEF h, n, size, S
  <1>6. ASSUME NEW x \in S PROVE x \in (n - size + 1)..n
    <2>1. SUFFICES ASSUME x \in 1..(n - size) PROVE FALSE
      BY <1>1, <1>2
    <2>2. PICK m \in (x + 1)..(x + MaxHits) : m <= n /\ h[x] + Span <= h[m]
      BY <1>3, <2>1
    <2>3. m \in 1..n
      BY <1>1, <1>2, <2>1, <2>2, LimiterConstants
    <2>4. h[m] <= last /\ h[m] \in Nat /\ h[x] >= last - Span + 1 /\ h[x] \in Int
      BY <1>1, <1>4, <1>5, <2>3, LimiterConstants
    <2>. QED
      BY <2>2, <2>4, LimiterConstants
  <1>7. n - size + 1 \in Int /\ (n - size + 1) + size - 1 = n
    BY <1>1, <1>2
  <1>8. Cardinality(S) <= size
    BY <1>2, <1>6, <1>7, AmongFew
  <1>9. Cardinality(S) \in Nat
    BY WithinCounted DEF S
  <1>. QED
    BY <1>2, <1>8, <1>9, LimiterConstants DEF S

(* Requests that read the clock in time for the window and have not used   *)
(* what they read.                                                         *)
Late(last) == {t \in Threads : at[t] \in {"client", "account"} /\ job[t].now <= last}

Passed(k, last) == \E i \in DOMAIN hits[k] : hits[k][i] > last

N == Cardinality(Threads)

(* Once a hit after the window is recorded, whoever may still record one   *)
(* in it is late, and late are at most the other threads.                  *)
Overtakes(k, last) ==
  Passed(k, last) => Cardinality(Within(k, last)) + Cardinality(Late(last)) < MaxHits + N

LEMMA ThreadsCounted == N \in Nat /\ N >= 1 /\ IsFiniteSet(Threads)
  BY LimiterAssumption, FS_CardinalityType, FS_EmptySet DEF N

LEMMA LateCounted ==
  ASSUME NEW last
  PROVE  /\ IsFiniteSet(Late(last)) /\ Cardinality(Late(last)) \in Nat
         /\ IsFiniteSet(Late(last)') /\ Cardinality(Late(last)') \in Nat
  <1>1. Late(last) \in SUBSET Threads /\ Late(last)' \in SUBSET Threads
    BY DEF Late
  <1>. QED
    BY <1>1, ThreadsCounted, FS_Subset, FS_CardinalityType

(* A step after which no more are late keeps the count of an identifier    *)
(* whose hits stay.                                                        *)
LEMMA OvertakesStays ==
  ASSUME Base, NEW k \in Keys, NEW last \in Nat, Overtakes(k, last),
         hits'[k] = hits[k], Passed(k, last) => Late(last)' \subseteq Late(last)
  PROVE  Overtakes(k, last)'
  <1>1. SUFFICES ASSUME Passed(k, last)'
                 PROVE  Cardinality(Within(k, last)') + Cardinality(Late(last)') < MaxHits + N
    BY DEF Overtakes, N
  <1>2. Passed(k, last) /\ Within(k, last)' = Within(k, last)
    BY <1>1 DEF Passed, Within
  <1>3. Cardinality(Late(last)') <= Cardinality(Late(last))
    BY <1>2, LateCounted, FS_Subset
  <1>. QED
    BY <1>2, <1>3, LateCounted, WithinCounted, ThreadsCounted, LimiterConstants DEF Overtakes

(* Who reads the clock after a hit beyond the window is not late.          *)
LEMMA LateShrinks ==
  ASSUME Base, NEW t \in Threads, NEW k \in Keys, NEW last \in Nat, Passed(k, last),
         \A u \in Threads \ {t} : at'[u] = at[u] /\ job'[u] = job[u],
         at'[t] \in {"client", "account"} => job'[t].now = clock
  PROVE  Late(last)' \subseteq Late(last)
  <1>1. PICK i \in DOMAIN hits[k] : hits[k][i] > last
    BY DEF Passed
  <1>2. hits[k][i] <= clock /\ hits[k][i] \in Nat
    BY WithinCounted DEF Base, Held
  <1>3. clock > last
    BY <1>1, <1>2, ClockIs
  <1>. QED
    BY <1>3, ClockIs DEF Late

LEMMA RecordOvertakes ==
  ASSUME Base, NEW t \in Threads, NEW key \in Keys, NEW e \in Nat, Records(t, key, e),
         NEW last \in Nat, Overtakes(key, last)
  PROVE  Overtakes(key, last)'
  <1>. DEFINE h == hits[key]
              n == Len(h)
              now == job[t].now
  <1>1. SUFFICES ASSUME Passed(key, last)'
                 PROVE  Cardinality(Within(key, last)') + Cardinality(Late(last)') < MaxHits + N
    BY DEF Overtakes, N
  <1>2. /\ n \in Nat /\ DOMAIN h = 1..n /\ now \in Nat
        /\ \A i \in 1..n : h[i] \in Nat
    BY WithinCounted, JobKeys
  <1>3. /\ Len(hits'[key]) = n + 1 /\ hits'[key][n + 1] = now
        /\ \A i \in 1..n : hits'[key][i] = h[i]
        /\ DOMAIN hits'[key] = 1..(n + 1)
    <2>1. TypeOK /\ Admitted(t, key, e)
      BY DEF Base, Records
    <2>2. /\ Len(hits'[key]) = n + 1 /\ hits'[key][n + 1] = now
          /\ \A i \in 1..n : hits'[key][i] = h[i]
          /\ hits'[key] \in Times
      BY <2>1, AdmittedTimes
    <2>. QED
      BY <2>2, LenProperties DEF Times
  <1>4. Late(last)' = Late(last) \ {t}
    BY DEF Records, Base, TypeOK, Late
  <1>5. t \in Late(last) <=> now <= last
    BY DEF Records, Late
  <1>. HIDE DEF h, n, now
  <1>6. Within(key, last)' \subseteq Within(key, last) \cup {n + 1}
    BY <1>2, <1>3 DEF Within, h
  <1>7. ASSUME now > last PROVE Within(key, last)' \subseteq Within(key, last)
    BY <1>2, <1>3, <1>7 DEF Within, h
  <1>8. /\ Cardinality(Within(key, last)) \in Nat /\ IsFiniteSet(Within(key, last))
        /\ Cardinality(Late(last)) \in Nat /\ IsFiniteSet(Late(last))
    BY WithinCounted, LateCounted
  <1>9. IsFiniteSet(Within(key, last)') /\ Cardinality(Within(key, last)') \in Nat
        /\ Cardinality(Within(key, last)') <= Cardinality(Within(key, last)) + 1
    <2>. DEFINE more == Within(key, last) \cup {n + 1}
    <2>1. IsFiniteSet(more) /\ Cardinality(more) <= Cardinality(Within(key, last)) + 1
      <3>. DEFINE S == Within(key, last)
                  x == n + 1
      <3>1. IsFiniteSet(S) /\ Cardinality(S) \in Nat
        BY <1>8
      <3>. HIDE DEF S, x
      <3>2. IsFiniteSet(S \cup {x})
            /\ Cardinality(S \cup {x}) = IF x \in S THEN Cardinality(S) ELSE Cardinality(S) + 1
        BY <3>1, FS_AddElement
      <3>3. Cardinality(S \cup {x}) <= Cardinality(S) + 1
        BY <3>1, <3>2
      <3>. QED
        BY <3>2, <3>3 DEF S, x
    <2>2. Cardinality(more) \in Nat
      BY <2>1, FS_CardinalityType
    <2>3. Within(key, last)' \in SUBSET more
      BY <1>6
    <2>. HIDE DEF more
    <2>. QED
      BY <1>8, <2>1, <2>2, <2>3, FS_Subset, FS_CardinalityType
  <1>10. CASE now <= last
    <2>1. Cardinality(Late(last)') = Cardinality(Late(last)) - 1
      BY <1>4, <1>5, <1>8, <1>10, FS_RemoveElement
    <2>2. Passed(key, last)
      <3>1. PICK i \in 1..(n + 1) : hits'[key][i] > last
        BY <1>1, <1>3 DEF Passed
      <3>2. i \in 1..n
        BY <1>2, <1>3, <1>10, <3>1
      <3>. QED
        BY <1>2, <1>3, <3>1, <3>2 DEF Passed, h
    <2>3. Cardinality(Within(key, last)) + Cardinality(Late(last)) < MaxHits + N
      BY <2>2 DEF Overtakes
    <2>. QED
      BY <1>8, <1>9, <2>1, <2>3, ThreadsCounted, LimiterConstants
  <1>11. CASE now > last
    <2>1. Cardinality(Within(key, last)') <= Cardinality(Within(key, last))
      BY <1>7, <1>8, <1>11, FS_Subset
    <2>2. CASE Passed(key, last)
      <3>1. Cardinality(Late(last)') <= Cardinality(Late(last))
        BY <1>4, <1>8, FS_Subset
      <3>2. Cardinality(Within(key, last)) + Cardinality(Late(last)) < MaxHits + N
        BY <2>2 DEF Overtakes
      <3>3. Cardinality(Late(last)') \in Nat
        BY LateCounted
      <3>. QED
        BY <1>8, <1>9, <2>1, <3>1, <3>2, <3>3, ThreadsCounted, LimiterConstants
    <2>3. CASE ~Passed(key, last)
      <3>1. Cardinality(Within(key, last)) <= MaxHits
        <4>1. \A i \in DOMAIN hits[key] : hits[key][i] <= last
          BY <1>2, <2>3 DEF Passed, h
        <4>. QED
          BY <4>1, AllInBucket
      <3>2. Late(last)' \in SUBSET (Threads \ {t})
        BY <1>4 DEF Late
      <3>3. IsFiniteSet(Threads \ {t}) /\ Cardinality(Threads \ {t}) = N - 1
        BY ThreadsCounted, FS_RemoveElement DEF N
      <3>4. Cardinality(Late(last)') <= N - 1 /\ Cardinality(Late(last)') \in Nat
        BY <3>2, <3>3, FS_Subset, LateCounted
      <3>. QED
        BY <1>8, <1>9, <2>1, <3>1, <3>4, ThreadsCounted, LimiterConstants
    <2>. QED
      BY <2>2, <2>3
  <1>. QED
    BY <1>2, <1>10, <1>11

OvertakingInv == \A k \in Keys, last \in Nat : Overtakes(k, last)

LEMMA OvertakingKeeps ==
  ASSUME Base, OvertakingInv, [Next]_vars
  PROVE  OvertakingInv'
  <1>. SUFFICES ASSUME NEW k \in Keys, NEW last \in Nat, Overtakes(k, last)
                PROVE  Overtakes(k, last)'
    BY DEF OvertakingInv
  <1>1. CASE \E t \in Threads : Arrive(t) \/ ReadClock(t)
    <2>1. PICK t \in Threads : Arrive(t) \/ ReadClock(t)
      BY <1>1
    <2>2. /\ hits' = hits
          /\ \A u \in Threads \ {t} : at'[u] = at[u] /\ job'[u] = job[u]
          /\ at'[t] \in {"client", "account"} => job'[t].now = clock
      BY <2>1, JobKeys DEF Arrive, ReadClock, Base, TypeOK, Job
    <2>. QED
      BY <2>2, LateShrinks, OvertakesStays
  <1>2. ASSUME NEW t \in Threads, NEW key \in Keys, TurnsAway(t, key) \/ Answers(t, key)
        PROVE  Overtakes(k, last)'
    <2>1. /\ hits' = hits /\ job' = job
          /\ \A u \in Threads \ {t} : at'[u] = at[u]
          /\ at'[t] \notin {"client", "account"}
      BY <1>2 DEF TurnsAway, Answers, Refuse, Refused, Base, TypeOK
    <2>. QED
      BY <2>1, LateShrinks, OvertakesStays
  <1>3. ASSUME NEW t \in Threads, NEW key \in Keys, NEW e \in Nat, Records(t, key, e)
        PROVE  Overtakes(k, last)'
    <2>1. CASE k = key
      BY <1>3, <2>1, RecordOvertakes
    <2>2. CASE k # key
      <3>1. /\ hits'[k] = hits[k] /\ job' = job
            /\ \A u \in Threads \ {t} : at'[u] = at[u]
            /\ at'[t] \notin {"client", "account"}
        BY <1>3, <2>2 DEF Records, Admitted, Base, TypeOK
      <3>. QED
        BY <3>1, LateShrinks, OvertakesStays
    <2>. QED
      BY <2>1, <2>2
  <1>4. CASE Tick \/ UNCHANGED vars
    <2>1. hits' = hits /\ at' = at /\ job' = job
      BY <1>4 DEF Tick, vars
    <2>2. Late(last)' = Late(last)
      BY <2>1 DEF Late
    <2>. QED
      BY <2>1, <2>2, OvertakesStays
  <1>. QED
    BY <1>1, <1>2, <1>3, <1>4, StepKinds

LEMMA WindowsKept ==
  ASSUME Base, OvertakingInv
  PROVE  WindowsKeepBudget
  <1>1. ASSUME NEW k \in Keys, NEW last \in 0..clock
        PROVE  /\ HitsInWindow(k, last) < MaxHits + Cardinality(Threads)
               /\ InOrder(hits[k]) => HitsInWindow(k, last) <= MaxHits
    <2>1. last \in Nat
      OBVIOUS
    <2>2. /\ HitsInWindow(k, last) = Cardinality(Within(k, last))
          /\ Cardinality(Within(k, last)) \in Nat
          /\ \A i \in DOMAIN hits[k] : hits[k][i] \in Nat
      BY <2>1, WithinCounted
    <2>3. CASE Passed(k, last)
      <3>1. Cardinality(Within(k, last)) + Cardinality(Late(last)) < MaxHits + N
        BY <2>1, <2>3 DEF OvertakingInv, Overtakes
      <3>. QED
        BY <2>1, <2>2, <3>1, LateCounted, ThreadsCounted, LimiterConstants, OrderedKeepBudget DEF N
    <2>4. CASE ~Passed(k, last)
      <3>1. \A i \in DOMAIN hits[k] : hits[k][i] <= last
        BY <2>1, <2>2, <2>4 DEF Passed
      <3>2. Cardinality(Within(k, last)) <= MaxHits
        BY <2>1, <3>1, AllInBucket
      <3>. QED
        BY <2>2, <3>2, ThreadsCounted, LimiterConstants DEF N
    <2>. QED
      BY <2>3, <2>4
  <1>. QED
    BY <1>1 DEF WindowsKeepBudget, OvertakingIsBounded, OrderedWindowsKeepBudget, Base

(* No window holds more hits than the budget while they come in order, and *)
(* never as many more as there are threads.                                *)
THEOREM WindowsHold == Spec => []WindowsKeepBudget
  <1>1. Init => OvertakingInv
    <2>. SUFFICES ASSUME Init, NEW k \in Keys, NEW last \in Nat, Passed(k, last) PROVE FALSE
      BY DEF OvertakingInv, Overtakes
    <2>. QED
      BY DEF Init, Passed
  <1>2. Base /\ OvertakingInv /\ [Next]_vars => OvertakingInv'
    BY OvertakingKeeps
  <1>3. Base /\ OvertakingInv => WindowsKeepBudget
    BY WindowsKept
  <1>. QED
    BY <1>1, <1>2, <1>3, BaseAlways, PTL DEF Spec

-----------------------------------------------------------------------------
(* Account access: threads.                                                *)

LEMMA PoolCounted == N \in Nat
  BY AccessAssumption, FS_CardinalityType DEF N

-----------------------------------------------------------------------------
(* Types.                                                                  *)

Link == [expires : Nat, used : BOOLEAN]
Claims == [claims : Standings, at : 0..MaxTime]
TokenRecord ==
  [kind : {"access", "refresh"}, claims : Standings, expires : Nat, read : 0..MaxTime]

RowTyped ==
  /\ time \in 0..MaxTime /\ changed \in 0..MaxTime /\ changes \in 0..MaxChanges
  /\ active \in BOOLEAN /\ standing \in Standings /\ raced \in BOOLEAN

LinksTyped ==
  /\ links \in Seq(Link) /\ Len(links) <= MaxLinks
  /\ resets \in Seq(Nat) /\ Len(resets) = Len(links)
  /\ mailed \subseteq 1..Len(links)

(* Whoever serves a link serves one that exists.                           *)
ThreadsTyped ==
  /\ at \in [Threads -> AccessSteps]
  /\ read \in [Threads -> Claims]
  /\ link \in [Threads -> 0..Len(links)]
  /\ \A t \in Threads : at[t] \in {"mail", "set_password"} => link[t] \in 1..Len(links)

Typed == RowTyped /\ LinksTyped /\ ThreadsTyped /\ tokens \subseteq TokenRecord

LEMMA TypedIsTypeOK == Typed => AccessTypeOK /\ MailedLinksExist
  <1>. SUFFICES ASSUME Typed PROVE AccessTypeOK /\ MailedLinksExist
    OBVIOUS
  <1>1. /\ DOMAIN links = 1..Len(links) /\ Len(links) \in Nat
        /\ resets \in [DOMAIN links -> Nat]
    BY LenProperties DEF Typed, LinksTyped
  <1>2. mailed \subseteq 1..MaxLinks /\ MailedLinksExist
    BY <1>1, AccessAssumption DEF Typed, LinksTyped, MailedLinksExist
  <1>. QED
    BY <1>1, <1>2 DEF AccessTypeOK, Typed, RowTyped, LinksTyped, ThreadsTyped, Link, Claims,
      TokenRecord

LEMMA InitTyped == AccessInit => Typed
  <1>. SUFFICES ASSUME AccessInit PROVE Typed
    OBVIOUS
  <1>1. NothingRead \in Claims
    BY AccessAssumption DEF NothingRead, AccessInit, Claims
  <1>2. LinksTyped
    BY AccessAssumption DEF AccessInit, LinksTyped
  <1>3. RowTyped
    <2>1. time = 0 /\ changed = 0 /\ changes = 0 /\ standing \in Standings
      BY DEF AccessInit
    <2>2. active \in BOOLEAN /\ raced \in BOOLEAN
      BY Zenon DEF AccessInit
    <2>. QED
      BY <2>1, <2>2, AccessAssumption DEF RowTyped
  <1>4. ThreadsTyped
    BY <1>1 DEF AccessInit, ThreadsTyped, AccessSteps
  <1>. QED
    BY <1>2, <1>3, <1>4 DEF AccessInit, Typed

LEMMA RowStep == Typed /\ [AccessNext]_accessVars => RowTyped'
  <1>. SUFFICES ASSUME Typed, [AccessNext]_accessVars PROVE RowTyped'
    OBVIOUS
  <1>. USE DEF Typed, RowTyped
  <1>1. ASSUME NEW t \in Threads, ChangeRow(t) PROVE RowTyped'
    <2>1. active' \in BOOLEAN /\ standing' \in Standings
      BY <1>1 DEF ChangeRow
    <2>2. changes' \in 0..MaxChanges /\ changed' \in 0..MaxTime
      BY <1>1, AccessAssumption DEF ChangeRow
    <2>3. raced' \in BOOLEAN /\ time' = time
      BY <1>1 DEF ChangeRow
    <2>. QED
      BY <2>1, <2>2, <2>3
  <1>2. ASSUME TimePasses PROVE RowTyped'
    BY <1>2, AccessAssumption DEF TimePasses, row
  <1>3. ASSUME UNCHANGED <<time, row>> PROVE RowTyped'
    BY <1>3 DEF row
  <1>. QED
    BY <1>1, <1>2, <1>3 DEF AccessNext, Login, Refresh, Issue, Forgot, StoreLink, Mail, OpenLink,
      SetPassword, Fail, accessVars, row

LEMMA TokensStep == Typed /\ [AccessNext]_accessVars => (tokens \subseteq TokenRecord)'
  <1>. SUFFICES ASSUME Typed, [AccessNext]_accessVars PROVE tokens' \subseteq TokenRecord
    OBVIOUS
  <1>1. ASSUME NEW t \in Threads, Issue(t) PROVE tokens' \subseteq TokenRecord
    <2>1. /\ Token(t, "access", AccessLife) \in TokenRecord
          /\ Token(t, "refresh", RefreshLife) \in TokenRecord
      <3>1. read[t] \in Claims /\ time \in Nat
        BY AccessAssumption DEF Typed, RowTyped, ThreadsTyped
      <3>2. time + AccessLife \in Nat /\ time + RefreshLife \in Nat
        BY <3>1, AccessAssumption
      <3>. QED
        BY <3>1, <3>2 DEF Token, Claims, TokenRecord
    <2>. QED
      BY <1>1, <2>1 DEF Issue, Typed
  <1>2. ASSUME UNCHANGED tokens PROVE tokens' \subseteq TokenRecord
    BY <1>2 DEF Typed
  <1>. QED
    BY <1>1, <1>2 DEF AccessNext, Login, Refresh, Forgot, StoreLink, Mail, OpenLink,
      SetPassword, Fail, ChangeRow, TimePasses, accessVars

(* What storing a link and setting a password do to the two sequences.     *)
LEMMA Stored ==
  ASSUME Typed, NEW t \in Threads, StoreLink(t)
  PROVE  /\ links' \in Seq(Link) /\ Len(links') = Len(links) + 1 /\ Len(links') <= MaxLinks
         /\ resets' \in Seq(Nat) /\ Len(resets') = Len(links')
         /\ \A i \in 1..Len(links) : links'[i] = links[i] /\ resets'[i] = resets[i]
         /\ resets'[Len(links')] = 0
  <1>. DEFINE new == [expires |-> time + ResetLife, used |-> FALSE]
  <1>1. new \in Link
    BY AccessAssumption DEF Link, Typed, RowTyped
  <1>2. /\ links' = Append(links, new) /\ resets' = Append(resets, 0)
        /\ Len(links) < MaxLinks
    BY DEF StoreLink
  <1>. HIDE DEF new
  <1>3. /\ links \in Seq(Link) /\ resets \in Seq(Nat) /\ Len(resets) = Len(links)
        /\ Len(links) \in Nat
    BY DEF Typed, LinksTyped
  <1>4. links' \in Seq(Link) /\ Len(links') = Len(links) + 1
    BY <1>1, <1>2, <1>3, AppendProperties
  <1>5. resets' \in Seq(Nat) /\ Len(resets') = Len(resets) + 1
    BY <1>2, <1>3, AppendProperties
  <1>6. \A i \in 1..Len(links) : links'[i] = links[i]
    BY <1>1, <1>2, <1>3, AppendProperties
  <1>7. (\A i \in 1..Len(resets) : resets'[i] = resets[i]) /\ resets'[Len(resets) + 1] = 0
    BY <1>2, <1>3, AppendProperties
  <1>. QED
    BY <1>2, <1>3, <1>4, <1>5, <1>6, <1>7, AccessAssumption

LEMMA Used ==
  ASSUME Typed, NEW t \in Threads, SetPassword(t)
  PROVE  /\ link[t] \in 1..Len(links)
         /\ links' \in Seq(Link) /\ Len(links') = Len(links)
         /\ resets' \in Seq(Nat) /\ Len(resets') = Len(links')
         /\ \A i \in 1..Len(links) :
              i # link[t] => links'[i] = links[i] /\ resets'[i] = resets[i]
         /\ links'[link[t]].used /\ resets'[link[t]] = resets[link[t]] + 1
  <1>. DEFINE new == [links[link[t]] EXCEPT !.used = TRUE]
  <1>1. /\ links \in Seq(Link) /\ resets \in Seq(Nat) /\ Len(resets) = Len(links)
        /\ link[t] \in 1..Len(links)
    BY DEF Typed, LinksTyped, ThreadsTyped, SetPassword
  <1>2. links[link[t]] \in Link /\ resets[link[t]] + 1 \in Nat
    BY <1>1, ElementOfSeq
  <1>3. new \in Link /\ new.used
    BY <1>2 DEF Link
  <1>4. /\ links' = [links EXCEPT ![link[t]] = new]
        /\ resets' = [resets EXCEPT ![link[t]] = resets[link[t]] + 1]
    BY DEF SetPassword
  <1>. HIDE DEF new
  <1>5. /\ links' \in Seq(Link) /\ Len(links') = Len(links)
        /\ \A i \in 1..Len(links) : links'[i] = IF i = link[t] THEN new ELSE links[i]
    BY <1>1, <1>3, <1>4, ExceptSeq
  <1>6. /\ resets' \in Seq(Nat) /\ Len(resets') = Len(resets)
        /\ \A i \in 1..Len(resets) :
             resets'[i] = IF i = link[t] THEN resets[link[t]] + 1 ELSE resets[i]
    BY <1>1, <1>2, <1>4, ExceptSeq
  <1>. QED
    BY <1>1, <1>3, <1>5, <1>6

LEMMA LinksStep == Typed /\ [AccessNext]_accessVars => LinksTyped'
  <1>. SUFFICES ASSUME Typed, [AccessNext]_accessVars PROVE LinksTyped'
    OBVIOUS
  <1>1. ASSUME NEW t \in Threads, StoreLink(t) PROVE LinksTyped'
    <2>1. mailed' = mailed /\ mailed \subseteq 1..Len(links) /\ Len(links) \in Nat
      BY <1>1 DEF StoreLink, Typed, LinksTyped
    <2>. QED
      BY <1>1, <2>1, Stored DEF LinksTyped
  <1>2. ASSUME NEW t \in Threads, SetPassword(t) PROVE LinksTyped'
    <2>1. mailed' = mailed
      BY <1>2 DEF SetPassword
    <2>. QED
      BY <1>2, <2>1, Used DEF Typed, LinksTyped
  <1>3. ASSUME NEW t \in Threads, Mail(t) PROVE LinksTyped'
    <2>1. UNCHANGED <<links, resets>> /\ mailed' \in {mailed, mailed \cup {link[t]}}
      BY <1>3 DEF Mail
    <2>2. link[t] \in 1..Len(links)
      BY <1>3 DEF Mail, Typed, ThreadsTyped
    <2>. QED
      BY <2>1, <2>2 DEF Typed, LinksTyped
  <1>4. ASSUME UNCHANGED <<links, mailed, resets>> PROVE LinksTyped'
    BY <1>4 DEF Typed, LinksTyped
  <1>. QED
    BY <1>1, <1>2, <1>3, <1>4 DEF AccessNext, Login, Refresh, Issue, Forgot, OpenLink, Fail,
      ChangeRow, TimePasses, accessVars

LEMMA ThreadsStep == Typed /\ [AccessNext]_accessVars => ThreadsTyped'
  <1>. SUFFICES ASSUME Typed, [AccessNext]_accessVars PROVE ThreadsTyped'
    OBVIOUS
  <1>. USE DEF ThreadsTyped, AccessSteps
  <1>0. /\ NothingRead \in Claims
        /\ [claims |-> standing, at |-> time] \in Claims
        /\ Len(links) \in Nat /\ ThreadsTyped
    BY AccessAssumption DEF NothingRead, Claims, Typed, RowTyped, LinksTyped
  <1>1. ASSUME NEW t \in Threads, Login(t) \/ Refresh(t) PROVE ThreadsTyped'
    <2>1. /\ at' = [at EXCEPT ![t] = "issue"]
          /\ read' = [read EXCEPT ![t] = [claims |-> standing, at |-> time]]
          /\ UNCHANGED <<links, link>>
      BY <1>1 DEF Login, Refresh, Go, ReadRow
    <2>. QED
      BY <1>0, <2>1
  <1>2. ASSUME NEW t \in Threads, NEW step \in {"store_link"},
               at' = [at EXCEPT ![t] = step], UNCHANGED <<links, link, read>>
        PROVE  ThreadsTyped'
    BY <1>0, <1>2
  <1>3. ASSUME NEW t \in Threads, StoreLink(t) PROVE ThreadsTyped'
    <2>1. /\ at' = [at EXCEPT ![t] = "mail"] /\ UNCHANGED read
          /\ link' = [link EXCEPT ![t] = Len(links')]
      BY <1>3 DEF StoreLink, Go
    <2>2. Len(links') = Len(links) + 1
      BY <1>3, Stored
    <2>. QED
      BY <1>0, <2>1, <2>2
  <1>4. ASSUME NEW t \in Threads, OpenLink(t) PROVE ThreadsTyped'
    <2>1. PICK i \in 1..Len(links) : link' = [link EXCEPT ![t] = i]
      BY <1>4 DEF OpenLink, Typed, LinksTyped
    <2>2. at' = [at EXCEPT ![t] = "set_password"] /\ UNCHANGED <<links, read>>
      BY <1>4 DEF OpenLink, Go
    <2>. QED
      BY <1>0, <2>1, <2>2
  <1>5. ASSUME NEW t \in Threads, Finish(t), Len(links') = Len(links) PROVE ThreadsTyped'
    BY <1>0, <1>5 DEF Finish, Go
  <1>6. ASSUME NEW t \in Threads, SetPassword(t) PROVE ThreadsTyped'
    BY <1>5, <1>6, Used DEF SetPassword
  <1>7. ASSUME NEW t \in Threads, Issue(t) \/ Mail(t) \/ Fail(t) PROVE ThreadsTyped'
    BY <1>5, <1>7 DEF Issue, Mail, Fail
  <1>8. ASSUME NEW t \in Threads, Forgot(t) PROVE ThreadsTyped'
    BY <1>2, <1>8 DEF Forgot, Go
  <1>9. ASSUME UNCHANGED <<links, at, read, link>> PROVE ThreadsTyped'
    BY <1>0, <1>9
  <1>. QED
    BY <1>1, <1>3, <1>4, <1>6, <1>7, <1>8, <1>9 DEF AccessNext, ChangeRow, TimePasses, accessVars

LEMMA TypedStep == Typed /\ [AccessNext]_accessVars => Typed'
  BY RowStep, TokensStep, LinksStep, ThreadsStep DEF Typed

-----------------------------------------------------------------------------
(* What tokens say.                                                        *)

(* Nothing was read or changed in the future.                              *)
PastIsPast ==
  /\ changed <= time
  /\ \A t \in Threads : read[t].at <= time
  /\ \A token \in tokens :
       /\ token.read <= time
       /\ token.kind = "access" => token.expires <= time + AccessLife

Outdated(t) == ~active \/ read[t].claims # standing

ReadsPredateChange == \A t \in Threads : at[t] = "issue" /\ Outdated(t) => read[t].at <= changed

(* Unless a change came between, what a thread is about to issue is true.  *)
ReadsAreTrue == ~raced => \A t \in Threads : at[t] = "issue" => ~Outdated(t)

(* Unless a change came between, what is stale was issued before it.       *)
StaleIsOld ==
  ~raced => \A token \in tokens :
    token.kind = "access" /\ Stale(token) => token.expires <= changed + AccessLife

ClaimsInv ==
  /\ PastIsPast
  /\ ReadsPredateChange
  /\ ReadsAreTrue
  /\ StaleIsOld
  /\ StaleClaimsPredateChange

LEMMA ClaimsInit == AccessInit => ClaimsInv
  BY AccessAssumption
  DEF AccessInit, NothingRead, ClaimsInv, PastIsPast, ReadsPredateChange, ReadsAreTrue, StaleIsOld,
      StaleClaimsPredateChange

(* A step that changes neither row nor tokens, and reads nothing or the    *)
(* row of an active account.                                               *)
LEMMA ReadingKeepsClaims ==
  ASSUME Typed, Typed', ClaimsInv, NEW t \in Threads,
         UNCHANGED <<time, row, tokens>>,
         \A s \in Threads \ {t} : read'[s] = read[s] /\ at'[s] = at[s],
         \/ at'[t] # "issue" /\ read'[t] \in {read[t], NothingRead}
         \/ active /\ read'[t] = [claims |-> standing, at |-> time]
  PROVE  ClaimsInv'
  <1>. USE DEF ClaimsInv, Typed, RowTyped, ThreadsTyped, Claims, TokenRecord, row
  <1>1. read'[t].at <= time
    BY AccessAssumption DEF PastIsPast, NothingRead
  <1>2. PastIsPast'
    BY <1>1 DEF PastIsPast
  <1>3. ASSUME NEW s \in Threads, at'[s] = "issue", Outdated(s)'
        PROVE  at[s] = "issue" /\ Outdated(s) /\ read'[s] = read[s]
    <2>1. CASE s = t
      BY <1>3, <2>1 DEF Outdated
    <2>2. CASE s # t
      BY <1>3, <2>2 DEF Outdated
    <2>. QED
      BY <2>1, <2>2
  <1>4. ReadsPredateChange'
    BY <1>3 DEF ReadsPredateChange
  <1>5. ReadsAreTrue'
    BY <1>3 DEF ReadsAreTrue
  <1>6. StaleIsOld' /\ StaleClaimsPredateChange'
    BY DEF StaleIsOld, StaleClaimsPredateChange, Stale
  <1>. QED
    BY <1>2, <1>4, <1>5, <1>6

LEMMA IssueKeepsClaims ==
  ASSUME Typed, Typed', ClaimsInv, NEW t \in Threads, Issue(t)
  PROVE  ClaimsInv'
  <1>. USE DEF ClaimsInv, Typed, RowTyped, ThreadsTyped, Claims, TokenRecord, row
  <1>1. UNCHANGED <<time, active, standing, changed, changes, raced>>
    BY DEF Issue
  <1>2. /\ at' = [at EXCEPT ![t] = "idle"]
        /\ read' = [read EXCEPT ![t] = NothingRead]
        /\ at[t] = "issue"
    BY DEF Issue, Finish, Go
  <1>3. \A s \in Threads : at'[s] = "issue" => at[s] = "issue" /\ read'[s] = read[s]
    BY <1>2
  <1>4. ReadsPredateChange' /\ ReadsAreTrue'
    BY <1>1, <1>3 DEF ReadsPredateChange, ReadsAreTrue, Outdated
  <1>5. ASSUME NEW token \in tokens'
        PROVE  \/ token \in tokens
               \/ /\ token.claims = read[t].claims /\ token.read = read[t].at
                  /\ token.kind = "access" => token.expires = time + AccessLife
    BY <1>5 DEF Issue, Token
  <1>6. PastIsPast'
    <2>1. read[t].at <= time /\ NothingRead.at <= time
      BY DEF PastIsPast, NothingRead
    <2>2. \A s \in Threads : read'[s].at <= time'
      BY <1>1, <1>2, <2>1 DEF PastIsPast
    <2>3. ASSUME NEW token \in tokens'
          PROVE  /\ token.read <= time'
                 /\ token.kind = "access" => token.expires <= time' + AccessLife
      <3>1. time \in Nat /\ time' = time /\ AccessLife \in Nat
        BY <1>1, AccessAssumption
      <3>2. CASE token \in tokens
        BY <3>1, <3>2 DEF PastIsPast
      <3>3. CASE token \notin tokens
        <4>1. token.read = read[t].at /\ (token.kind = "access" => token.expires = time + AccessLife)
          BY <1>5, <2>3, <3>3
        <4>. QED
          BY <2>1, <3>1, <4>1
      <3>. QED
        BY <3>2, <3>3
    <2>. QED
      BY <1>1, <2>2, <2>3 DEF PastIsPast
  <1>7. StaleIsOld'
    <2>. SUFFICES ASSUME ~raced', NEW token \in tokens', token.kind = "access", Stale(token)'
                  PROVE  token.expires <= changed' + AccessLife
      BY DEF StaleIsOld
    <2>1. Stale(token) /\ ~raced
      BY <1>1 DEF Stale
    <2>2. token \in tokens
      BY <1>2, <1>5, <2>1 DEF Stale, ReadsAreTrue, Outdated
    <2>. QED
      BY <1>1, <2>1, <2>2 DEF StaleIsOld
  <1>8. StaleClaimsPredateChange'
    <2>. SUFFICES ASSUME NEW token \in tokens', Stale(token)'
                  PROVE  token.read <= changed'
      BY DEF StaleClaimsPredateChange
    <2>1. Stale(token)
      BY <1>1 DEF Stale
    <2>. QED
      BY <1>1, <1>2, <1>5, <2>1
      DEF Stale, StaleClaimsPredateChange, ReadsPredateChange, Outdated
  <1>. QED
    BY <1>4, <1>6, <1>7, <1>8

LEMMA ChangeKeepsClaims ==
  ASSUME Typed, Typed', ClaimsInv, NEW t \in Threads, ChangeRow(t)
  PROVE  ClaimsInv'
  <1>. USE DEF ClaimsInv, Typed, RowTyped, ThreadsTyped, Claims, TokenRecord
  <1>1. /\ changed' = time
        /\ UNCHANGED <<time, tokens, at, read>>
    BY DEF ChangeRow
  <1>2. ~raced' => \A s \in Threads : at[s] # "issue"
    BY DEF ChangeRow
  <1>3. PastIsPast' /\ ReadsPredateChange' /\ StaleClaimsPredateChange'
    BY <1>1 DEF PastIsPast, ReadsPredateChange, StaleClaimsPredateChange
  <1>4. ReadsAreTrue'
    BY <1>1, <1>2 DEF ReadsAreTrue
  <1>5. StaleIsOld'
    BY <1>1 DEF StaleIsOld, PastIsPast
  <1>. QED
    BY <1>3, <1>4, <1>5

LEMMA ClaimsStep == Typed /\ ClaimsInv /\ [AccessNext]_accessVars => ClaimsInv'
  <1>. SUFFICES ASSUME Typed, ClaimsInv, [AccessNext]_accessVars PROVE ClaimsInv'
    OBVIOUS
  <1>0. Typed'
    BY TypedStep
  <1>. USE DEF Typed, RowTyped, ThreadsTyped
  <1>1. ASSUME NEW t \in Threads, Login(t) \/ Refresh(t) PROVE ClaimsInv'
    <2>1. /\ active /\ UNCHANGED <<time, row, tokens>>
          /\ at' = [at EXCEPT ![t] = "issue"]
          /\ read' = [read EXCEPT ![t] = [claims |-> standing, at |-> time]]
      BY <1>1 DEF Login, Refresh, Go, ReadRow
    <2>. QED
      BY <1>0, <2>1, ReadingKeepsClaims
  <1>2. ASSUME NEW t \in Threads, NEW step \in AccessSteps \ {"issue"},
               UNCHANGED <<time, row, tokens>>,
               at' = [at EXCEPT ![t] = step],
               read' \in {read, [read EXCEPT ![t] = NothingRead]}
        PROVE  ClaimsInv'
    BY <1>0, <1>2, ReadingKeepsClaims
  <1>3. ASSUME NEW t \in Threads,
               \/ Forgot(t) \/ StoreLink(t) \/ Mail(t) \/ OpenLink(t)
               \/ SetPassword(t) \/ Fail(t)
        PROVE  ClaimsInv'
    <2>1. /\ UNCHANGED <<time, row, tokens>>
          /\ \E step \in AccessSteps \ {"issue"} : at' = [at EXCEPT ![t] = step]
          /\ read' \in {read, [read EXCEPT ![t] = NothingRead]}
      BY <1>3 DEF Forgot, StoreLink, Mail, OpenLink, SetPassword, Fail, Finish, Go, AccessSteps
    <2>. QED
      BY <1>2, <2>1
  <1>4. ASSUME TimePasses PROVE ClaimsInv'
    <2>1. time' = time + 1 /\ UNCHANGED <<row, tokens, at, read>>
      BY <1>4 DEF TimePasses
    <2>2. PastIsPast'
      BY <2>1, AccessAssumption DEF ClaimsInv, PastIsPast, row, Claims, TokenRecord
    <2>3. ReadsPredateChange' /\ ReadsAreTrue' /\ StaleIsOld' /\ StaleClaimsPredateChange'
      BY <2>1 DEF ClaimsInv, ReadsPredateChange, ReadsAreTrue, Outdated, StaleIsOld,
        StaleClaimsPredateChange, Stale, row
    <2>. QED
      BY <2>2, <2>3 DEF ClaimsInv
  <1>5. ASSUME UNCHANGED accessVars PROVE ClaimsInv'
    BY <1>5 DEF accessVars, row, ClaimsInv, PastIsPast, ReadsPredateChange, ReadsAreTrue, Outdated,
      StaleIsOld, StaleClaimsPredateChange, Stale
  <1>. QED
    BY <1>0, <1>1, <1>3, <1>4, <1>5, IssueKeepsClaims, ChangeKeepsClaims DEF AccessNext

LEMMA ClaimsExpire == Typed /\ ClaimsInv => StaleClaimsExpire
  <1>. SUFFICES ASSUME Typed, ClaimsInv,
                       NEW token \in tokens, token.kind = "access",
                       Valid(token), Stale(token), ~raced
                PROVE  time < changed + AccessLife
    BY TypedIsTypeOK DEF StaleClaimsExpire, StaleAccessExpires, ClaimsInv
  <1>1. token.expires <= changed + AccessLife
    BY DEF ClaimsInv, StaleIsOld
  <1>. QED
    BY <1>1, AccessAssumption DEF Valid, Typed, RowTyped, TokenRecord

-----------------------------------------------------------------------------
(* How often a link works.                                                 *)

(* Resets that have opened link i and not yet set a password.              *)
Open(i) == {t \in Threads : at[t] = "set_password" /\ link[t] = i}

UsesAndOpen(i) ==
  /\ ~links[i].used => resets[i] = 0
  /\ resets[i] + Cardinality(Open(i)) <= N

UsesInv == \A i \in 1..Len(links) : UsesAndOpen(i)

LEMMA OpenCounted ==
  ASSUME NEW i
  PROVE  /\ IsFiniteSet(Open(i))
         /\ Cardinality(Open(i)) \in Nat
         /\ Cardinality(Open(i)) <= N
  <1>1. Open(i) \in SUBSET Threads
    BY DEF Open
  <1>. QED
    BY <1>1, AccessAssumption, FS_Subset, FS_CardinalityType DEF N

LEMMA OpenCountedNext ==
  ASSUME NEW i
  PROVE  /\ IsFiniteSet(Open(i)')
         /\ Cardinality(Open(i)') \in Nat
         /\ Cardinality(Open(i)') <= N
  <1>1. Open(i)' \in SUBSET Threads
    BY DEF Open
  <1>. QED
    BY <1>1, AccessAssumption, FS_Subset, FS_CardinalityType DEF N

(* A step that uses no link and opens none.                                *)
LEMMA NothingOpened ==
  ASSUME NEW i, resets[i] \in Nat, UsesAndOpen(i),
         links'[i] = links[i], resets'[i] = resets[i], Open(i)' \subseteq Open(i)
  PROVE  UsesAndOpen(i)'
  <1>1. Cardinality(Open(i)') <= Cardinality(Open(i))
    BY OpenCounted, FS_Subset
  <1>2. Cardinality(Open(i)) \in Nat /\ Cardinality(Open(i)') \in Nat
    BY OpenCounted, OpenCountedNext
  <1>. QED
    BY <1>1, <1>2, PoolCounted DEF UsesAndOpen

LEMMA UsesStep == Typed /\ UsesInv /\ [AccessNext]_accessVars => UsesInv'
  <1>. SUFFICES ASSUME Typed, UsesInv, [AccessNext]_accessVars PROVE UsesInv'
    OBVIOUS
  <1>0. \A i \in 1..Len(links) : resets[i] \in Nat
    BY DEF Typed, LinksTyped
  <1>types. at \in [Threads -> AccessSteps] /\ link \in [Threads -> 0..Len(links)]
    BY DEF Typed, ThreadsTyped
  <1>1. ASSUME UNCHANGED <<links, resets>>,
               \A i \in 1..Len(links) : Open(i)' \subseteq Open(i)
        PROVE  UsesInv'
    BY <1>0, <1>1, NothingOpened DEF UsesInv
  <1>2. ASSUME NEW t \in Threads,
               \/ Login(t) \/ Refresh(t) \/ Issue(t) \/ Forgot(t) \/ Mail(t)
               \/ ChangeRow(t) \/ TimePasses \/ UNCHANGED accessVars
        PROVE  UsesInv'
    <2>1. UNCHANGED <<links, resets>>
      BY <1>2 DEF Login, Refresh, Issue, Forgot, Mail, ChangeRow, TimePasses, accessVars
    <2>2. \A i : Open(i)' \subseteq Open(i)
      BY <1>2, <1>types DEF Login, Refresh, Issue, Forgot, Mail, ChangeRow, TimePasses, accessVars, Open, Go,
        Finish
    <2>. QED
      BY <1>1, <2>1, <2>2
  <1>3. ASSUME NEW t \in Threads, Fail(t) PROVE UsesInv'
    <2>1. UNCHANGED <<links, resets>>
      BY <1>3 DEF Fail
    <2>2. \A i : Open(i)' \subseteq Open(i)
      BY <1>3, <1>types DEF Fail, Open, Go, Finish
    <2>. QED
      BY <1>1, <2>1, <2>2
  <1>4. ASSUME NEW t \in Threads, StoreLink(t) PROVE UsesInv'
    <2>. SUFFICES ASSUME NEW i \in 1..Len(links') PROVE UsesAndOpen(i)'
      BY DEF UsesInv
    <2>1. Open(i)' \subseteq Open(i)
      BY <1>4 DEF StoreLink, Go, Open
    <2>2. CASE i \in 1..Len(links)
      BY <1>0, <1>4, <2>1, <2>2, Stored, NothingOpened DEF UsesInv
    <2>3. CASE i \notin 1..Len(links)
      <3>1. i = Len(links')
        BY <1>4, <2>3, Stored DEF Typed, LinksTyped
      <3>2. resets'[i] = 0
        BY <1>4, <3>1, Stored
      <3>. QED
        BY <3>2, OpenCountedNext, PoolCounted DEF UsesAndOpen
    <2>. QED
      BY <2>2, <2>3
  <1>5. ASSUME NEW t \in Threads, OpenLink(t) PROVE UsesInv'
    <2>. SUFFICES ASSUME NEW i \in 1..Len(links) PROVE UsesAndOpen(i)'
      BY <1>5 DEF UsesInv, OpenLink
    <2>1. UNCHANGED <<links, resets>>
      BY <1>5 DEF OpenLink
    <2>2. CASE links[i].used
      <3>1. link'[t] # i /\ at' = [at EXCEPT ![t] = "set_password"]
        BY <1>5, <1>types, <2>2 DEF OpenLink, Go
      <3>2. \A s \in Threads \ {t} : link'[s] = link[s]
        BY <1>5 DEF OpenLink
      <3>3. Open(i)' \subseteq Open(i)
        BY <3>1, <3>2 DEF Open
      <3>. QED
        BY <1>0, <2>1, <3>3, NothingOpened DEF UsesInv
    <2>3. CASE ~links[i].used
      BY <2>1, <2>3, OpenCountedNext, PoolCounted DEF UsesInv, UsesAndOpen
    <2>. QED
      BY <2>2, <2>3
  <1>6. ASSUME NEW t \in Threads, SetPassword(t) PROVE UsesInv'
    <2>1. /\ at' = [at EXCEPT ![t] = "idle"] /\ link' = [link EXCEPT ![t] = 0]
          /\ at[t] = "set_password"
      BY <1>6 DEF SetPassword, Finish, Go
    <2>2. at \in [Threads -> AccessSteps] /\ link \in [Threads -> 0..Len(links)]
      BY <1>types
    <2>. SUFFICES ASSUME NEW i \in 1..Len(links) PROVE UsesAndOpen(i)'
      BY <1>6, Used DEF UsesInv
    <2>3. CASE i # link[t]
      <3>1. Open(i)' \subseteq Open(i)
        BY <2>1, <2>2 DEF Open
      <3>. QED
        BY <1>0, <1>6, <2>3, <3>1, Used, NothingOpened DEF UsesInv
    <2>4. CASE i = link[t]
      <3>1. t \in Open(i)
        BY <2>1, <2>4 DEF Open
      <3>2. Open(i)' = Open(i) \ {t}
        BY <2>1, <2>2 DEF Open
      <3>3. Cardinality(Open(i)') = Cardinality(Open(i)) - 1
        BY <3>1, <3>2, OpenCounted, FS_RemoveElement
      <3>4. links'[i].used /\ resets'[i] = resets[i] + 1
        BY <1>6, <2>4, Used
      <3>. QED
        BY <1>0, <3>3, <3>4, OpenCounted, PoolCounted DEF UsesInv, UsesAndOpen
    <2>. QED
      BY <2>3, <2>4
  <1>7. Threads = {} => UsesInv'
    <2>. SUFFICES ASSUME Threads = {} PROVE UsesInv'
      OBVIOUS
    <2>1. UNCHANGED <<links, resets>>
      BY DEF AccessNext, TimePasses, accessVars
    <2>2. \A i : Open(i)' \subseteq Open(i)
      BY DEF Open
    <2>. QED
      BY <1>1, <2>1, <2>2
  <1>. QED
    BY <1>2, <1>3, <1>4, <1>5, <1>6, <1>7 DEF AccessNext

LEMMA UsesBoundLinks == Typed /\ UsesInv => LinksWork
  <1>. SUFFICES ASSUME Typed, UsesInv, NEW i \in DOMAIN links PROVE resets[i] <= N
    BY TypedIsTypeOK DEF LinksWork, LinkUsesAreBounded, N
  <1>1. i \in 1..Len(links) /\ resets[i] \in Nat
    BY DEF Typed, LinksTyped
  <1>. QED
    BY <1>1, OpenCounted, PoolCounted DEF UsesInv, UsesAndOpen

-----------------------------------------------------------------------------
(* The theorems.                                                           *)

(* However logins, refreshes and changes of the account interleave, an     *)
(* access token that says what is no longer so is out of use one access    *)
(* lifetime after the last change, unless a change came between a read and *)
(* the tokens issued from it; and what a stale token says was read before  *)
(* the change.                                                             *)
THEOREM ClaimsAreShortLived == AccessSpec => []StaleClaimsExpire
  <1>. QED
    BY InitTyped, TypedStep, ClaimsInit, ClaimsStep, ClaimsExpire, PTL DEF AccessSpec

(* A reset link that reached the user is in the database, and sets at most *)
(* as many passwords as there are threads: whoever sets one had opened the *)
(* link before anyone used it.                                             *)
THEOREM LinksAreSound == AccessSpec => []LinksWork
  <1>1. AccessInit => UsesInv
    BY DEF AccessInit, UsesInv
  <1>. QED
    BY <1>1, InitTyped, TypedStep, UsesStep, UsesBoundLinks, PTL DEF AccessSpec

=============================================================================
