------------------------- MODULE AgentHarnessProofs -------------------------
(***************************************************************************)
(* Proofs about AgentHarness, for any number of tickets and of picker runs *)
(* that overlap, one verifier or both, and any MAX_ITERATIONS.             *)
(*                                                                         *)
(* None of its properties is inductive, since each label edit is a step of *)
(* its own and a property of the labels holds between two edits only by    *)
(* what is still to be edited.  The invariant (Inv) has four parts:        *)
(*   - Typed: the edits a job has left are those its step leaves it        *)
(*     (EditsAt), whoever else edits the ticket meanwhile;                 *)
(*   - LevelInv: a ticket has one iteration label, that of the Dev run     *)
(*     which works on it, or none where that run is about to add it        *)
(*     (Level), and no branch holds work of a later iteration;             *)
(*   - CapInv: of a ticket at or beyond the cap, the level and the         *)
(*     requests on their way (Requests) are together within the bound.     *)
(*     A Dev run raises the one and uses up the other, and no job asks     *)
(*     again but a picker that misread the ticket, which counts;           *)
(*   - PhaseInv: an undisturbed ticket is with Dev, or with its judges and *)
(*     finalize, or with nobody and marked, and what each of them may find *)
(*     on it (DevPhase, JudgePhase, VerdictPhase, HeldPhase).              *)
(*                                                                         *)
(* The actions are taken apart once (what each does to the runs, job by    *)
(* job, is Calm, Rest, RunGoes, RunEnds and RunAsked), and one lemma for   *)
(* each action shows that it keeps the invariant.                          *)
(***************************************************************************)
EXTENDS AgentHarness, FiniteSetTheorems, SequenceTheorems, TLAPS

-----------------------------------------------------------------------------
(* Jobs, and what each of them may hold.                                    *)

Judges == Verifiers \union {"finalize"}
Work == {Dev} \union ((Verifiers \union {"finalize", "feedback"}) \X Issues)

PcsOf(j) ==
    {"idle"} \union
    CASE j[1] = "dev" -> {"prepare", "agent", "push", "push-failed", "build", "hand-back",
                          "kick", "send", "fast-path", "send-finalize", "done"}
      [] j[1] = "picker" -> {"check", "pick", "dispatch"}
      [] j[1] \in Verifiers -> {"guard", "agent", "ensure", "send"}
      [] j[1] = "finalize" -> {"join", "checks", "merge", "kick", "kick-retry", "retry"}
      [] j[1] = "feedback" -> {}

AddReady == <<Add(ReadyForDev)>>
AddRework == <<Add(NeedsRework)>>
Verdicts == {Passed(s) : s \in Stages} \union {Failed(s) : s \in Stages}
Reset == <<Drop({NeedsRework, ReadyToMerge} \union Verdicts)>>
AddIteration(n) == <<Add(Iteration(n)), Reset[1]>>
AddFailed(s) == SetResultLabel(s, FALSE)
DropFailed(s) == <<Drop({Failed(s)})>>
DropPassed(s) == <<Drop({Passed(s)})>>
Green == FinalizeIteration(TRUE)
Red == FinalizeIteration(FALSE)
DropRework == <<Drop({NeedsRework})>>
DropMerge == <<Drop({ReadyToMerge})>>

\* The edits job j may have left at step pc of iteration n.
EditsAt(j, pc, n) ==
    CASE j[1] = "picker" /\ pc = "dispatch" -> {<<>>, AddReady}
      [] j[1] = "dev" /\ pc = "agent" -> {<<>>, Reset, AddIteration(n)}
      [] j[1] \in Verifiers /\ pc = "ensure" -> {<<>>, DropFailed(j[1]), DropPassed(j[1])}
      [] j[1] \in Verifiers /\ pc = "send" -> {<<>>, AddFailed(j[1]), DropPassed(j[1])}
      [] j[1] = "finalize" /\ pc = "checks" -> {<<>>, Green, DropRework}
      [] j[1] = "finalize" /\ pc = "kick-retry" -> {<<>>, Red, DropMerge}
      [] j[1] = "finalize" /\ pc = "kick" -> {<<>>, HandBack}
      [] j[1] = "feedback" -> {<<>>, AddRework}
      [] OTHER -> {<<>>}

AllSteps == {"idle", "prepare", "agent", "push", "push-failed", "build", "hand-back", "kick", "send",
             "fast-path", "send-finalize", "done", "check", "pick", "dispatch", "guard", "ensure",
             "join", "checks", "merge", "kick-retry", "retry"}
RunRecords == [pc : AllSteps, issue : Issues \union {0}, iteration : Nat]

JobOK(j, r, p, es) ==
    /\ r \in RunRecords /\ r.pc \in PcsOf(j)
    /\ p = <<>> \/ (p \in Issues \X Nat /\ r.pc # "idle" /\ j[1] \notin {"picker", "feedback"})
    /\ es \in EditsAt(j, r.pc, r.iteration)
    /\ (j[1] = "dev" /\ r.pc # "idle") \/ (j[1] = "picker" /\ r.pc = "dispatch") => r.issue \in Issues
    /\ j[1] \in Judges =>
         /\ r.pc # "idle" => r.issue = j[2] /\ r.iteration > 0
         /\ p # <<>> => p[1] = j[2] /\ p[2] > 0

JobsOK ==
    /\ DOMAIN run = Jobs /\ DOMAIN pending = Jobs /\ DOMAIN edits = Jobs
    /\ \A j \in Jobs : JobOK(j, run[j], pending[j], edits[j])

Typed == TypeOK /\ DOMAIN judged = Issues /\ JobsOK

DevAt(i) == run[Dev].issue = i /\ run[Dev].pc \notin {"idle", "prepare"}
Level(i) == IF LabelIsOff(i) THEN run[Dev].iteration ELSE CurrentIteration(i)

\* At most one iteration label; the one Dev works on is there but where Dev is about to add it.
LevelOf(i) ==
    /\ \A m, n \in 1..MaxLabel :
         Iteration(m) \in labels[i] /\ Iteration(n) \in labels[i] => m = n
    /\ DevAt(i) =>
         /\ run[Dev].iteration \in 1..MaxLabel
         /\ Iteration(run[Dev].iteration) \notin labels[i] =>
              /\ run[Dev].pc = "agent" /\ edits[Dev] = AddIteration(run[Dev].iteration)
              /\ \A m \in 1..MaxLabel : Iteration(m) \notin labels[i]
         /\ Iteration(run[Dev].iteration) \in labels[i] => edits[Dev] # AddIteration(run[Dev].iteration)
    /\ branch[i] <= Level(i)
LevelInv == \A i \in Issues : LevelOf(i)

Given(x) == IF x THEN 1 ELSE 0
Dispatching(i) == {p \in Pickers : run[Picker(p)].pc = "dispatch" /\ run[Picker(p)].issue = i}
Preparing(i) == run[Dev].pc = "prepare" /\ run[Dev].issue = i
Waiting(i) == pending[Dev] # <<>> /\ pending[Dev][1] = i
Retrying(i) ==
    run[Finalize(i)].pc \in {"kick-retry", "retry"} /\ run[Finalize(i)].iteration < MaxIterations

\* The requests for another iteration of issue i that are on their way.
Requests(i) ==
    Cardinality(Dispatching(i)) + Given(Preparing(i)) + Given(Waiting(i)) + Given(Retrying(i))
CapOf(i) ==
    Level(i) < MaxIterations
      \/ Level(i) + Requests(i) <= MaxIterations + Cardinality(Pickers) + 2 + misread[i]
CapInv == \A i \in Issues : CapOf(i)

-----------------------------------------------------------------------------
(* The phases of a ticket that is open and was not disturbed.               *)

Resetting(i) == DevAt(i) /\ run[Dev].pc = "agent" /\ edits[Dev] # <<>>
HasResult(i, s) == Passed(s) \in labels[i] \/ Failed(s) \in labels[i]
Joining(i) == run[Finalize(i)].pc \in {"join", "checks", "merge"}
Judged(i) ==
    \/ \E s \in Verifiers : Running(Verify(s, i))
    \/ pending[Finalize(i)] # <<>>
    \/ Joining(i)

\* While Dev works on it nobody judges it, and its verdicts are gone.
DevPhase(i) ==
    DevAt(i) =>
      /\ ~Judging(i)
      /\ ~Resetting(i) /\ run[Dev].pc # "send-finalize" => \A s \in Verifiers : ~HasResult(i, s)
      /\ run[Dev].pc = "send-finalize" => \A s \in Verifiers : HasResult(i, s)
      /\ run[Dev].pc \in {"build", "hand-back", "send", "fast-path", "send-finalize"}
           => HasResult(i, "gate")
      /\ run[Dev].pc \in {"send", "fast-path", "send-finalize"} => branch[i] # 0
      /\ run[Dev].pc \in {"kick", "done"} => NeedsRework \in labels[i]

\* Who judges it judges its iteration, and a verifier without a verdict is still at work.
JudgePhase(i) ==
    Judged(i) =>
      /\ HasResult(i, "gate") /\ branch[i] # 0
      /\ \A s \in Verifiers :
           Running(Verify(s, i)) => run[Verify(s, i)].iteration = CurrentIteration(i)
      /\ Joining(i) => run[Finalize(i)].iteration = CurrentIteration(i)
      /\ pending[Finalize(i)] # <<>> => pending[Finalize(i)][2] = CurrentIteration(i)
      /\ \A s \in Verifiers :
           \/ HasResult(i, s)
           \/ run[Verify(s, i)].pc \in {"guard", "agent", "ensure"}
           \/ run[Verify(s, i)].pc = "send" /\ edits[Verify(s, i)] = AddFailed(s)

\* A verdict is that of the verifier's one run, and what is being merged passed them all.
VerdictPhase(i) ==
    /\ \A s \in Verifiers :
      /\ pending[Verify(s, i)] = <<>>
      /\ run[Verify(s, i)].pc \in {"guard", "agent"} => ~HasResult(i, s)
      /\ edits[Verify(s, i)] = DropFailed(s) => Passed(s) \in labels[i]
      /\ edits[Verify(s, i)] = DropPassed(s) => Failed(s) \in labels[i]
      /\ ~Resetting(i) /\ Passed(s) \in labels[i] => s \in judged[i]
      /\ run[Finalize(i)].pc \in {"checks", "merge"} =>
           s \in judged[i] /\ run[Verify(s, i)].pc \notin {"guard", "agent"}
    /\ edits[Finalize(i)] = DropMerge => NeedsRework \in labels[i]

Held(i) ==
    \/ Judging(i)
    \/ Dispatching(i) # {}
    \/ Running(Dev) /\ run[Dev].issue = i
    \/ Waiting(i)
    \/ edits[Feedback(i)] # <<>>

\* A ticket begun, not done and not marked for rework is in the hands of some run.
HeldPhase(i) ==
    labels[i] # {} /\ NeedsRework \notin labels[i] /\ ReadyToMerge \notin labels[i] => Held(i)

Phase(i) == DevPhase(i) /\ JudgePhase(i) /\ VerdictPhase(i) /\ HeldPhase(i)
PhaseInv == \A i \in Issues : open[i] /\ ~Disturbed(i) => Phase(i)

Inv == Typed /\ LevelInv /\ CapInv /\ PhaseInv

-----------------------------------------------------------------------------
(* Jobs and edits.                                                          *)

\* Every job is Dev, a picker, or a job of one issue.
LEMMA JobKinds ==
    ASSUME NEW j \in Jobs
    PROVE  \/ j = Dev
           \/ \E p \in Pickers : j = Picker(p)
           \/ \E s \in Verifiers, i \in Issues : j = Verify(s, i)
           \/ \E i \in Issues : j = Finalize(i)
           \/ \E i \in Issues : j = Feedback(i)
BY DEF Jobs, Dev, Picker, Verify, Finalize, Feedback

LEMMA JobNames ==
    /\ Dev \in Jobs /\ Dev[1] = "dev"
    /\ \A p \in Pickers : Picker(p) \in Jobs /\ Picker(p)[1] = "picker" /\ Picker(p) # Dev
    /\ \A i \in Issues :
         /\ \A s \in Verifiers :
              /\ Verify(s, i) \in Jobs /\ Verify(s, i)[1] = s /\ Verify(s, i)[2] = i
              /\ Verify(s, i) # Dev /\ s \notin {"dev", "picker", "finalize", "feedback", "gate"}
         /\ Finalize(i) \in Jobs /\ Finalize(i)[1] = "finalize" /\ Finalize(i)[2] = i /\ Finalize(i) # Dev
         /\ Feedback(i) \in Jobs /\ Feedback(i)[1] = "feedback" /\ Feedback(i) # Dev
BY HarnessAssumption DEF Jobs, Dev, Picker, Verify, Finalize, Feedback

\* Jobs of different kinds or issues are different jobs.
LEMMA JobsDiffer ==
    /\ \A p, q \in Pickers : Picker(p) = Picker(q) => p = q
    /\ \A p \in Pickers, i \in Issues :
         /\ Picker(p) # Finalize(i) /\ Picker(p) # Feedback(i)
         /\ \A s \in Verifiers : Picker(p) # Verify(s, i)
    /\ \A i, k \in Issues :
         /\ Finalize(i) # Feedback(k)
         /\ Finalize(i) = Finalize(k) => i = k
         /\ Feedback(i) = Feedback(k) => i = k
         /\ \A s \in Verifiers :
              /\ Verify(s, i) # Finalize(k) /\ Verify(s, i) # Feedback(k)
              /\ \A t \in Verifiers : Verify(s, i) = Verify(t, k) => s = t /\ i = k
BY HarnessAssumption DEF Picker, Verify, Finalize, Feedback

LEMMA Steps ==
    /\ PcsOf(Dev) = {"idle", "prepare", "agent", "push", "push-failed", "build", "hand-back",
                     "kick", "send", "fast-path", "send-finalize", "done"}
    /\ FirstStep(Dev) = "prepare"
    /\ \A p \in Pickers : /\ PcsOf(Picker(p)) = {"idle", "check", "pick", "dispatch"}
                          /\ FirstStep(Picker(p)) = "check"
    /\ \A i \in Issues :
         /\ \A s \in Verifiers : /\ PcsOf(Verify(s, i)) = {"idle", "guard", "agent", "ensure", "send"}
                                 /\ FirstStep(Verify(s, i)) = "guard"
         /\ PcsOf(Finalize(i)) = {"idle", "join", "checks", "merge", "kick", "kick-retry", "retry"}
         /\ FirstStep(Finalize(i)) = "join"
         /\ PcsOf(Feedback(i)) = {"idle"}
<1>1. /\ PcsOf(Dev) = {"idle", "prepare", "agent", "push", "push-failed", "build", "hand-back",
                       "kick", "send", "fast-path", "send-finalize", "done"}
      /\ FirstStep(Dev) = "prepare"
  BY JobNames, HarnessAssumption DEF PcsOf, FirstStep
<1>2. ASSUME NEW p \in Pickers
      PROVE  /\ PcsOf(Picker(p)) = {"idle", "check", "pick", "dispatch"}
             /\ FirstStep(Picker(p)) = "check"
  BY JobNames, HarnessAssumption DEF PcsOf, FirstStep
<1>3. ASSUME NEW i \in Issues
      PROVE  /\ PcsOf(Finalize(i)) = {"idle", "join", "checks", "merge", "kick", "kick-retry", "retry"}
             /\ FirstStep(Finalize(i)) = "join"
             /\ PcsOf(Feedback(i)) = {"idle"}
  BY JobNames, HarnessAssumption DEF PcsOf, FirstStep
<1>4. ASSUME NEW i \in Issues, NEW s \in Verifiers
      PROVE  /\ PcsOf(Verify(s, i)) = {"idle", "guard", "agent", "ensure", "send"}
             /\ FirstStep(Verify(s, i)) = "guard"
  BY JobNames, HarnessAssumption DEF PcsOf, FirstStep
<1> QED BY <1>1, <1>2, <1>3, <1>4

\* What the edits of each job may be, step by step.
LEMMA PickerEdits ==
    ASSUME NEW p \in Pickers, NEW pc, NEW n, NEW es
    PROVE  es \in EditsAt(Picker(p), pc, n) <=> es = <<>> \/ (pc = "dispatch" /\ es = AddReady)
BY JobNames, HarnessAssumption DEF EditsAt

LEMMA DevEdits ==
    ASSUME NEW pc, NEW n, NEW es
    PROVE  es \in EditsAt(Dev, pc, n)
             <=> es = <<>> \/ (pc = "agent" /\ (es = Reset \/ es = AddIteration(n)))
BY JobNames, HarnessAssumption DEF EditsAt

LEMMA VerifyEdits ==
    ASSUME NEW i \in Issues, NEW s \in Verifiers, NEW pc, NEW n, NEW es
    PROVE  es \in EditsAt(Verify(s, i), pc, n) <=>
             \/ es = <<>>
             \/ pc = "ensure" /\ (es = DropFailed(s) \/ es = DropPassed(s))
             \/ pc = "send" /\ (es = AddFailed(s) \/ es = DropPassed(s))
<1>1. /\ Verify(s, i)[1] = s /\ s \in Verifiers
      /\ s # "dev" /\ s # "picker" /\ s # "finalize" /\ s # "feedback"
  BY JobNames
<1>2. CASE pc = "ensure"
  BY <1>1, <1>2 DEF EditsAt
<1>3. CASE pc = "send"
  BY <1>1, <1>3 DEF EditsAt
<1>4. CASE pc \notin {"ensure", "send"}
  BY <1>1, <1>4 DEF EditsAt
<1> QED BY <1>2, <1>3, <1>4

LEMMA FinalizeEdits ==
    ASSUME NEW i \in Issues, NEW pc, NEW n, NEW es
    PROVE  es \in EditsAt(Finalize(i), pc, n) <=>
             \/ es = <<>>
             \/ pc = "checks" /\ (es = Green \/ es = DropRework)
             \/ pc = "kick-retry" /\ (es = Red \/ es = DropMerge)
             \/ pc = "kick" /\ es = HandBack
BY JobNames, HarnessAssumption DEF EditsAt

LEMMA FeedbackEdits ==
    ASSUME NEW i \in Issues, NEW pc, NEW n, NEW es
    PROVE  es \in EditsAt(Feedback(i), pc, n) <=> es = <<>> \/ es = AddRework
BY JobNames, HarnessAssumption DEF EditsAt

\* Sequences of one and of two edits.
LEMMA Edits12 ==
    \A x, y : /\ Head(<<x>>) = x /\ Tail(<<x>>) = <<>> /\ <<x>> # <<>>
              /\ Head(<<x, y>>) = x /\ Tail(<<x, y>>) = <<y>> /\ <<x, y>> # <<>>
              /\ <<x, y>> # <<x>> /\ \A z : <<x, y>> # <<z>> /\ (<<x>> = <<z>> => x = z)
OBVIOUS

\* Labels are different labels.
LEMMA LabelsDiffer ==
    /\ \A n \in Nat : Iteration(n) \notin Verdicts \union {ReadyForDev, ReadyToMerge, NeedsRework}
    /\ \A m, n \in Nat : Iteration(m) = Iteration(n) => m = n
    /\ {ReadyForDev, ReadyToMerge, NeedsRework} \intersect Verdicts = {}
    /\ ReadyForDev # ReadyToMerge /\ ReadyForDev # NeedsRework /\ ReadyToMerge # NeedsRework
    /\ \A s, t \in Stages : /\ Passed(s) # Failed(t)
                            /\ Passed(s) = Passed(t) => s = t
                            /\ Failed(s) = Failed(t) => s = t
    /\ \A s \in Stages : Passed(s) \in Verdicts /\ Failed(s) \in Verdicts
BY HarnessAssumption DEF Iteration, Verdicts, Passed, Failed, ReadyForDev, ReadyToMerge, NeedsRework, Stages

\* The edits that a job may have left begin with these.
LEMMA Heads ==
    /\ Head(AddReady) = Add(ReadyForDev) /\ Tail(AddReady) = <<>>
    /\ Head(AddRework) = Add(NeedsRework) /\ Tail(AddRework) = <<>>
    /\ Head(Reset) = Drop({NeedsRework, ReadyToMerge} \union Verdicts) /\ Tail(Reset) = <<>>
    /\ \A n : Head(AddIteration(n)) = Add(Iteration(n)) /\ Tail(AddIteration(n)) = Reset
    /\ \A s : /\ Head(AddFailed(s)) = Add(Failed(s)) /\ Tail(AddFailed(s)) = DropPassed(s)
              /\ Head(DropFailed(s)) = Drop({Failed(s)}) /\ Tail(DropFailed(s)) = <<>>
              /\ Head(DropPassed(s)) = Drop({Passed(s)}) /\ Tail(DropPassed(s)) = <<>>
    /\ Head(Green) = [add |-> {ReadyToMerge}, drop |-> {ReadyForDev}] /\ Tail(Green) = DropRework
    /\ Head(Red) = [add |-> {NeedsRework}, drop |-> {ReadyForDev}] /\ Tail(Red) = DropMerge
    /\ Head(DropRework) = Drop({NeedsRework}) /\ Tail(DropRework) = <<>>
    /\ Head(DropMerge) = Drop({ReadyToMerge}) /\ Tail(DropMerge) = <<>>
    /\ Head(HandBack) = [add |-> {NeedsRework}, drop |-> {ReadyToMerge}] /\ Tail(HandBack) = <<>>
BY Edits12 DEF AddReady, AddRework, Reset, AddIteration, AddFailed, DropFailed, DropPassed, Green,
     Red, DropRework, DropMerge, HandBack, FinalizeIteration, SetResultLabel

LEMMA EditsDiffer ==
    /\ AddReady # <<>> /\ AddRework # <<>> /\ Reset # <<>> /\ Green # <<>> /\ Red # <<>>
    /\ DropRework # <<>> /\ DropMerge # <<>> /\ HandBack # <<>>
    /\ \A n : AddIteration(n) # <<>> /\ AddIteration(n) # Reset
    /\ \A s : AddFailed(s) # <<>> /\ DropFailed(s) # <<>> /\ DropPassed(s) # <<>>
    /\ \A s : AddFailed(s) # DropPassed(s) /\ AddFailed(s) # DropFailed(s)
    /\ \A s \in Stages : DropPassed(s) # DropFailed(s)
    /\ Red # DropMerge /\ Green # DropMerge /\ DropRework # DropMerge /\ HandBack # DropMerge
<1>1. /\ AddReady # <<>> /\ AddRework # <<>> /\ Reset # <<>> /\ Green # <<>> /\ Red # <<>>
      /\ DropRework # <<>> /\ DropMerge # <<>> /\ HandBack # <<>>
      /\ \A n : AddIteration(n) # <<>> /\ AddIteration(n) # Reset
      /\ \A s : AddFailed(s) # <<>> /\ DropFailed(s) # <<>> /\ DropPassed(s) # <<>>
      /\ \A s : AddFailed(s) # DropPassed(s) /\ AddFailed(s) # DropFailed(s)
      /\ Red # DropMerge /\ Green # DropMerge
  BY Edits12 DEF AddReady, AddRework, Reset, AddIteration, AddFailed, DropFailed, DropPassed, Green,
     Red, DropRework, DropMerge, HandBack, FinalizeIteration, SetResultLabel
<1>2. ASSUME NEW s \in Stages PROVE DropPassed(s) # DropFailed(s)
  <2>0. Head(DropPassed(s)) = Drop({Passed(s)}) /\ Head(DropFailed(s)) = Drop({Failed(s)})
    BY Heads
  <2>1. Head(DropPassed(s)).drop = {Passed(s)} /\ Head(DropFailed(s)).drop = {Failed(s)}
    BY <2>0 DEF Drop
  <2>2. Passed(s) # Failed(s)
    BY LabelsDiffer
  <2> QED BY <2>1, <2>2
<1>3. DropRework # DropMerge
  <2>1. Head(DropRework).drop # Head(DropMerge).drop
    BY Heads, LabelsDiffer DEF Drop
  <2> QED BY <2>1
<1>4. HandBack # DropMerge
  <2>1. Head(HandBack).add # Head(DropMerge).add
    BY Heads DEF Drop
  <2> QED BY <2>1
<1> QED BY <1>1, <1>2, <1>3, <1>4

-----------------------------------------------------------------------------
(* Runs, requests and history, taken apart.                                 *)

Q(R, P, J, M) == [run |-> R, pending |-> P, judged |-> J, misread |-> M]

LEMMA QFields ==
    \A R, P, J, M : /\ Q(R, P, J, M).run = R /\ Q(R, P, J, M).pending = P
                    /\ Q(R, P, J, M).judged = J /\ Q(R, P, J, M).misread = M
BY DEF Q

LEMMA NowIs ==
    /\ Now = Q(run, pending, judged, misread)
    /\ \A R, P, J, M : Becomes(Q(R, P, J, M)) <=>
         run' = R /\ pending' = P /\ judged' = J /\ misread' = M
BY DEF Now, Becomes, Q

LEMMA GotoIs ==
    ASSUME NEW R, NEW P, NEW J, NEW M, NEW j, NEW pc
    PROVE  Goto(Q(R, P, J, M), j, pc) = Q([R EXCEPT ![j].pc = pc], P, J, M)
BY DEF Goto, Q

LEMMA DisturbIs ==
    ASSUME NEW R, NEW P, NEW J, NEW M, NEW i
    PROVE  Disturb(Q(R, P, J, M), i) = Q(R, P, [J EXCEPT ![i] = {"disturbed"}], M)
BY DEF Disturb, Q

LEMMA PassedByIs ==
    ASSUME NEW R, NEW P, NEW J, NEW M, NEW i, NEW by
    PROVE  PassedBy(Q(R, P, J, M), i, by) =
             Q(R, P, IF Disturbed(i) THEN J ELSE [J EXCEPT ![i] = by], M)
BY DEF PassedBy, Q

LEMMA EndIs ==
    ASSUME NEW R, NEW P, NEW J, NEW M, NEW j
    PROVE  End(Q(R, P, J, M), j) =
             Q([R EXCEPT ![j] = IF P[j] = <<>> THEN Idle ELSE Started(j, P[j][1], P[j][2])],
               [P EXCEPT ![j] = <<>>], J, M)
<1> DEFINE q == Q(R, P, J, M)
           r == IF P[j] = <<>> THEN Idle ELSE Started(j, P[j][1], P[j][2])
           q1 == Q(R, [P EXCEPT ![j] = <<>>], J, M)
<1>1. q.pending = P /\ q.run = R
  BY QFields
<1> HIDE DEF q
<1>2. End(q, j) = [q EXCEPT !.pending[j] = <<>>, !.run[j] = r]
  BY <1>1 DEF End
<1> HIDE DEF r
<1>3. [q EXCEPT !.pending[j] = <<>>, !.run[j] = r] = [[q EXCEPT !.pending[j] = <<>>] EXCEPT !.run[j] = r]
  OBVIOUS
<1>4. [q EXCEPT !.pending[j] = <<>>] = q1
  BY DEF Q, q
<1>5. [Q(R, [P EXCEPT ![j] = <<>>], J, M) EXCEPT !.run[j] = r]
        = Q([R EXCEPT ![j] = r], [P EXCEPT ![j] = <<>>], J, M)
  BY DEF Q
<1> HIDE DEF q1
<1>6. End(q, j) = [q1 EXCEPT !.run[j] = r]
  BY <1>2, <1>3, <1>4
<1> QED BY <1>5, <1>6 DEF q, q1, r

\* Sent to an idle group the request runs; in a busy one it takes the place of the one
\* that waited, whose issue is disturbed if it is another one.
LEMMA SendIdle ==
    ASSUME NEW R, NEW P, NEW J, NEW M, NEW k, NEW i, NEW n, R[k].pc = "idle"
    PROVE  Send(Q(R, P, J, M), k, i, n) = Q([R EXCEPT ![k] = Started(k, i, n)], P, J, M)
<1> DEFINE st == Started(k, i, n)
<1> HIDE DEF st
<1>1. Send(Q(R, P, J, M), k, i, n) = [Q(R, P, J, M) EXCEPT !.run[k] = st]
  BY QFields DEF Send, st
<1>2. [Q(R, P, J, M) EXCEPT !.run[k] = st] = Q([R EXCEPT ![k] = st], P, J, M)
  BY DEF Q
<1> QED BY <1>1, <1>2 DEF st

LEMMA SendBusy ==
    ASSUME NEW R, NEW P, NEW J, NEW M, NEW k, NEW i, NEW n, R[k].pc # "idle",
           P[k] = <<>> \/ P[k][1] = i
    PROVE  Send(Q(R, P, J, M), k, i, n) = Q(R, [P EXCEPT ![k] = <<i, n>>], J, M)
<1>1. Send(Q(R, P, J, M), k, i, n) = [Q(R, P, J, M) EXCEPT !.pending[k] = <<i, n>>]
  BY QFields DEF Send
<1>2. [Q(R, P, J, M) EXCEPT !.pending[k] = <<i, n>>] = Q(R, [P EXCEPT ![k] = <<i, n>>], J, M)
  BY DEF Q
<1> QED BY <1>1, <1>2

LEMMA SendReplaces ==
    ASSUME NEW R, NEW P, NEW J, NEW M, NEW k, NEW i, NEW n, R[k].pc # "idle",
           P[k] # <<>>, P[k][1] # i
    PROVE  Send(Q(R, P, J, M), k, i, n) = Disturb(Q(R, [P EXCEPT ![k] = <<i, n>>], J, M), P[k][1])
<1>1. Send(Q(R, P, J, M), k, i, n) = Disturb([Q(R, P, J, M) EXCEPT !.pending[k] = <<i, n>>], P[k][1])
  BY QFields DEF Send
<1>2. [Q(R, P, J, M) EXCEPT !.pending[k] = <<i, n>>] = Q(R, [P EXCEPT ![k] = <<i, n>>], J, M)
  BY DEF Q
<1> QED BY <1>1, <1>2

\* A kick starts an idle picker or nothing.
LEMMA KickIs ==
    ASSUME NEW R, NEW P, NEW J, NEW M
    PROVE  \/ KickPicker(Q(R, P, J, M)) = Q(R, P, J, M)
           \/ \E p \in Pickers :
                /\ R[Picker(p)].pc = "idle"
                /\ KickPicker(Q(R, P, J, M)) = Q([R EXCEPT ![Picker(p)] = Started(Picker(p), 0, 0)], P, J, M)
<1> DEFINE idle == {p \in Pickers : R[Picker(p)].pc = "idle"}
<1>1. CASE idle = {}
  BY <1>1 DEF KickPicker, Q
<1>2. CASE idle # {}
  <2> DEFINE p == CHOOSE x \in idle : TRUE
  <2>1. p \in idle
    BY <1>2
  <2>0. Q(R, P, J, M).run = R
    BY QFields
  <2>2. KickPicker(Q(R, P, J, M)) = Send(Q(R, P, J, M), Picker(p), 0, 0)
    BY <1>2, <2>0 DEF KickPicker
  <2>3. R[Picker(p)].pc = "idle"
    BY <2>1
  <2> HIDE DEF p
  <2>4. Send(Q(R, P, J, M), Picker(p), 0, 0) = Q([R EXCEPT ![Picker(p)] = Started(Picker(p), 0, 0)], P, J, M)
    <3> DEFINE k == Picker(p)
    <3> HIDE DEF k
    <3>1. R[k].pc = "idle" => Send(Q(R, P, J, M), k, 0, 0) = Q([R EXCEPT ![k] = Started(k, 0, 0)], P, J, M)
      BY SendIdle
    <3> QED BY <2>3, <3>1 DEF k
  <2> QED BY <2>1, <2>2, <2>3, <2>4
<1> QED BY <1>1, <1>2

LEMMA StartedIs ==
    ASSUME NEW j, NEW i, NEW n
    PROVE  /\ Started(j, i, n).pc = FirstStep(j) /\ Started(j, i, n).issue = i
           /\ Started(j, i, n).iteration = n
           /\ Idle.pc = "idle" /\ Idle.issue = 0
BY DEF Started, Idle

-----------------------------------------------------------------------------
(* What a step does to the runs, job by job.                                *)

Doms == DOMAIN run' = Jobs /\ DOMAIN pending' = Jobs
History == judged' = judged /\ misread' = misread
RunGoes(j, pc) ==
    /\ run'[j] \in RunRecords /\ run'[j].pc = pc
    /\ run'[j].issue = run[j].issue /\ run'[j].iteration = run[j].iteration
    /\ pending'[j] = pending[j]
RunEnds(j) ==
    /\ pending'[j] = <<>>
    /\ pending[j] = <<>> => run'[j] = Idle
    /\ pending[j] # <<>> => run'[j] = Started(j, pending[j][1], pending[j][2])
RunAsked(k, i, n) ==
    /\ ~Running(k) => run'[k] = Started(k, i, n) /\ pending'[k] = pending[k]
    /\ Running(k) => run'[k] = run[k] /\ pending'[k] = <<i, n>>
Rest(js) == \A k \in Jobs \ js : run'[k] = run[k] /\ pending'[k] = pending[k]
RestOrKicked(js) ==
    \A k \in Jobs \ js :
      /\ pending'[k] = pending[k]
      /\ \/ run'[k] = run[k]
         \/ \E p \in Pickers : k = Picker(p) /\ run[k].pc = "idle" /\ run'[k] = Started(k, 0, 0)

LEMMA RecordAt ==
    ASSUME JobsOK, NEW j \in Jobs
    PROVE  /\ run[j] \in RunRecords /\ run[j].pc \in PcsOf(j)
           /\ pending[j] = <<>> \/ (pending[j] \in Issues \X Nat /\ run[j].pc # "idle")
           /\ DOMAIN run = Jobs /\ DOMAIN pending = Jobs /\ DOMAIN edits = Jobs
BY DEF JobsOK, JobOK

LEMMA GoesTo ==
    ASSUME JobsOK, NEW j \in Jobs, NEW pc \in AllSteps, Becomes(Goto(Now, j, pc))
    PROVE  Doms /\ History /\ RunGoes(j, pc) /\ Rest({j})
<1> DEFINE R == [run EXCEPT ![j].pc = pc]
<1>0. Goto(Now, j, pc) = Q(R, pending, judged, misread)
  BY GotoIs, NowIs
<1>1. /\ DOMAIN R = Jobs /\ R[j] \in RunRecords /\ R[j].pc = pc
      /\ R[j].issue = run[j].issue /\ R[j].iteration = run[j].iteration
      /\ \A k \in Jobs \ {j} : R[k] = run[k]
  BY RecordAt DEF RunRecords
<1> HIDE DEF R
<1>2. run' = R /\ pending' = pending /\ History
  BY <1>0, NowIs DEF History
<1> QED BY <1>1, <1>2, RecordAt DEF Doms, RunGoes, Rest

LEMMA EndsRun ==
    ASSUME JobsOK, NEW j \in Jobs, Becomes(End(Now, j))
    PROVE  Doms /\ History /\ RunEnds(j) /\ Rest({j})
<1> DEFINE r == IF pending[j] = <<>> THEN Idle ELSE Started(j, pending[j][1], pending[j][2])
           R == [run EXCEPT ![j] = r]
           P == [pending EXCEPT ![j] = <<>>]
<1>0. End(Now, j) = Q(R, P, judged, misread)
  BY EndIs, NowIs
<1>2. pending[j] = <<>> => r = Idle
  OBVIOUS
<1>3. pending[j] # <<>> => r = Started(j, pending[j][1], pending[j][2])
  OBVIOUS
<1>4. DOMAIN R = Jobs /\ R[j] = r /\ \A k \in Jobs \ {j} : R[k] = run[k]
  BY RecordAt
<1>5. DOMAIN P = Jobs /\ P[j] = <<>> /\ \A k \in Jobs \ {j} : P[k] = pending[k]
  BY RecordAt
<1> HIDE DEF R, P, r
<1>1. run' = R /\ pending' = P /\ History
  BY <1>0, NowIs DEF History
<1> QED BY <1>1, <1>2, <1>3, <1>4, <1>5 DEF Doms, RunEnds, Rest

LEMMA DisturbEnds ==
    ASSUME JobsOK, NEW j \in Jobs, NEW i \in Issues, Becomes(Disturb(End(Now, j), i))
    PROVE  /\ Doms /\ RunEnds(j) /\ Rest({j})
           /\ judged' = [judged EXCEPT ![i] = {"disturbed"}] /\ misread' = misread
<1> DEFINE r == IF pending[j] = <<>> THEN Idle ELSE Started(j, pending[j][1], pending[j][2])
           R == [run EXCEPT ![j] = r]
           P == [pending EXCEPT ![j] = <<>>]
<1>0. End(Now, j) = Q(R, P, judged, misread)
  BY EndIs, NowIs
<1>2. pending[j] = <<>> => r = Idle
  OBVIOUS
<1>3. pending[j] # <<>> => r = Started(j, pending[j][1], pending[j][2])
  OBVIOUS
<1>4. DOMAIN R = Jobs /\ R[j] = r /\ \A k \in Jobs \ {j} : R[k] = run[k]
  BY RecordAt
<1>5. DOMAIN P = Jobs /\ P[j] = <<>> /\ \A k \in Jobs \ {j} : P[k] = pending[k]
  BY RecordAt
<1> HIDE DEF R, P, r
<1> DEFINE J == [judged EXCEPT ![i] = {"disturbed"}]
<1>6. Disturb(Q(R, P, judged, misread), i) = Q(R, P, J, misread)
  BY DisturbIs
<1> HIDE DEF J
<1>7. run' = R /\ pending' = P /\ judged' = J /\ misread' = misread
  BY <1>0, <1>6, NowIs
<1>1. run' = R /\ pending' = P /\ judged' = [judged EXCEPT ![i] = {"disturbed"}] /\ misread' = misread
  BY <1>7 DEF J
<1> QED BY <1>1, <1>2, <1>3, <1>4, <1>5 DEF Doms, RunEnds, Rest

LEMMA PassedGoes ==
    ASSUME JobsOK, NEW j \in Jobs, NEW pc \in AllSteps, NEW i \in Issues, NEW by,
           Becomes(PassedBy(Goto(Now, j, pc), i, by))
    PROVE  /\ Doms /\ RunGoes(j, pc) /\ Rest({j})
           /\ Disturbed(i) => judged' = judged
           /\ ~Disturbed(i) => judged' = [judged EXCEPT ![i] = by]
           /\ misread' = misread
<1> DEFINE R == [run EXCEPT ![j].pc = pc]
<1>0. Goto(Now, j, pc) = Q(R, pending, judged, misread)
  BY GotoIs, NowIs
<1>1. /\ DOMAIN R = Jobs /\ R[j] \in RunRecords /\ R[j].pc = pc
      /\ R[j].issue = run[j].issue /\ R[j].iteration = run[j].iteration
      /\ \A k \in Jobs \ {j} : R[k] = run[k]
  BY RecordAt DEF RunRecords
<1> HIDE DEF R
<1>2. /\ Disturbed(i) => PassedBy(Q(R, pending, judged, misread), i, by) = Q(R, pending, judged, misread)
      /\ ~Disturbed(i) => PassedBy(Q(R, pending, judged, misread), i, by)
                            = Q(R, pending, [judged EXCEPT ![i] = by], misread)
  BY PassedByIs
<1>3. /\ run' = R /\ pending' = pending /\ misread' = misread
      /\ Disturbed(i) => judged' = judged
      /\ ~Disturbed(i) => judged' = [judged EXCEPT ![i] = by]
  BY <1>0, <1>2, NowIs
<1> QED BY <1>1, <1>3, RecordAt DEF Doms, RunGoes, Rest

\* What a kick leaves to do: some runs R, the same as before but for a picker started.
KickedTo(R) ==
    /\ KickPicker(Now) = Q(R, pending, judged, misread)
    /\ DOMAIN R = Jobs
    /\ \A k \in Jobs :
         \/ R[k] = run[k]
         \/ \E p \in Pickers : k = Picker(p) /\ run[k].pc = "idle" /\ R[k] = Started(k, 0, 0)

LEMMA Kicks ==
    ASSUME JobsOK
    PROVE  \E R : KickedTo(R)
<1>1. CASE KickPicker(Q(run, pending, judged, misread)) = Q(run, pending, judged, misread)
  BY <1>1, NowIs DEF JobsOK, KickedTo
<1>2. ASSUME NEW p \in Pickers, run[Picker(p)].pc = "idle",
             KickPicker(Q(run, pending, judged, misread))
               = Q([run EXCEPT ![Picker(p)] = Started(Picker(p), 0, 0)], pending, judged, misread)
      PROVE  \E R : KickedTo(R)
  <2> DEFINE R == [run EXCEPT ![Picker(p)] = Started(Picker(p), 0, 0)]
  <2>1. DOMAIN R = Jobs /\ \A k \in Jobs : R[k] = IF k = Picker(p) THEN Started(k, 0, 0) ELSE run[k]
    BY DEF JobsOK
  <2>2. KickPicker(Now) = Q(R, pending, judged, misread)
    BY <1>2, NowIs
  <2> HIDE DEF R
  <2>3. KickedTo(R)
    BY <1>2, <2>1, <2>2 DEF KickedTo
  <2> QED BY <2>3
<1>3. \/ KickPicker(Q(run, pending, judged, misread)) = Q(run, pending, judged, misread)
      \/ \E p \in Pickers :
           /\ run[Picker(p)].pc = "idle"
           /\ KickPicker(Q(run, pending, judged, misread))
                = Q([run EXCEPT ![Picker(p)] = Started(Picker(p), 0, 0)], pending, judged, misread)
  BY KickIs
<1> QED BY <1>1, <1>2, <1>3

LEMMA KickGoes ==
    ASSUME JobsOK, NEW i \in Issues, NEW pc \in AllSteps,
           Becomes(Goto(KickPicker(Now), Finalize(i), pc))
    PROVE  Doms /\ History /\ RunGoes(Finalize(i), pc) /\ RestOrKicked({Finalize(i)})
<1> DEFINE j == Finalize(i)
<1>1. j \in Jobs /\ \A p \in Pickers : j # Picker(p)
  BY JobNames, JobsDiffer
<1> HIDE DEF j
<1>2. PICK R : KickedTo(R)
  BY Kicks
<1> DEFINE R2 == [R EXCEPT ![j].pc = pc]
<1>7. Goto(Q(R, pending, judged, misread), j, pc) = Q(R2, pending, judged, misread)
  BY GotoIs
<1> HIDE DEF R2
<1>8. run' = R2 /\ pending' = pending /\ History
  BY <1>2, <1>7, NowIs DEF History, j, KickedTo
<1>3. run' = [R EXCEPT ![j].pc = pc] /\ pending' = pending /\ History
  BY <1>8 DEF R2
<1>4. R[j] = run[j] /\ DOMAIN R = Jobs
  BY <1>1, <1>2 DEF KickedTo
<1>5. RunGoes(j, pc) /\ Doms
  BY <1>1, <1>2, <1>3, <1>4, RecordAt DEF Doms, RunGoes, RunRecords
<1>6. RestOrKicked({j})
  BY <1>1, <1>2, <1>3 DEF RestOrKicked, KickedTo
<1> QED BY <1>3, <1>5, <1>6 DEF j

LEMMA KickEnds ==
    ASSUME JobsOK, NEW j \in Jobs, \A p \in Pickers : j # Picker(p),
           Becomes(End(KickPicker(Now), j))
    PROVE  Doms /\ History /\ RunEnds(j) /\ RestOrKicked({j})
<1>2. PICK R : KickedTo(R)
  BY Kicks
<1> DEFINE r == IF pending[j] = <<>> THEN Idle ELSE Started(j, pending[j][1], pending[j][2])
           R2 == [R EXCEPT ![j] = r]
           P2 == [pending EXCEPT ![j] = <<>>]
<1>8. End(Q(R, pending, judged, misread), j) = Q(R2, P2, judged, misread)
  BY EndIs
<1> HIDE DEF R2, P2
<1>9. run' = R2 /\ pending' = P2 /\ History
  BY <1>2, <1>8, NowIs DEF History, KickedTo
<1>3. run' = [R EXCEPT ![j] = r] /\ pending' = [pending EXCEPT ![j] = <<>>] /\ History
  BY <1>9 DEF R2, P2
<1>4. pending[j] = <<>> => r = Idle
  OBVIOUS
<1>5. pending[j] # <<>> => r = Started(j, pending[j][1], pending[j][2])
  OBVIOUS
<1> HIDE DEF r
<1>6. RunEnds(j) /\ Doms
  BY <1>2, <1>3, <1>4, <1>5, RecordAt DEF Doms, RunEnds, KickedTo
<1>7. RestOrKicked({j})
  BY <1>2, <1>3, RecordAt DEF RestOrKicked, KickedTo
<1> QED BY <1>3, <1>6, <1>7

\* What a request leaves to do: runs R, requests P and history J.
LEMMA Sends ==
    ASSUME JobsOK, NEW k \in Jobs, NEW i, NEW n
    PROVE  \E R, P, J :
             /\ Send(Now, k, i, n) = Q(R, P, J, misread)
             /\ DOMAIN R = Jobs /\ DOMAIN P = Jobs
             /\ \A l \in Jobs \ {k} : R[l] = run[l] /\ P[l] = pending[l]
             /\ ~Running(k) => R[k] = Started(k, i, n) /\ P[k] = pending[k] /\ J = judged
             /\ Running(k) => /\ R[k] = run[k] /\ P[k] = <<i, n>>
                              /\ pending[k] = <<>> \/ pending[k][1] = i => J = judged
                              /\ pending[k] # <<>> /\ pending[k][1] # i =>
                                   J = [judged EXCEPT ![pending[k][1]] = {"disturbed"}]
<1>1. CASE ~Running(k)
  <2> DEFINE R == [run EXCEPT ![k] = Started(k, i, n)]
  <2>1. Send(Now, k, i, n) = Q(R, pending, judged, misread)
    BY <1>1, SendIdle, NowIs DEF Running
  <2>2. DOMAIN R = Jobs /\ R[k] = Started(k, i, n) /\ \A l \in Jobs \ {k} : R[l] = run[l]
    BY DEF JobsOK
  <2> HIDE DEF R
  <2> QED BY <1>1, <2>1, <2>2 DEF JobsOK
<1>2. CASE Running(k)
  <2> DEFINE P == [pending EXCEPT ![k] = <<i, n>>]
             J == [judged EXCEPT ![pending[k][1]] = {"disturbed"}]
  <2>1. run[k].pc # "idle"
    BY <1>2 DEF Running
  <2>2. DOMAIN P = Jobs /\ P[k] = <<i, n>> /\ \A l \in Jobs \ {k} : P[l] = pending[l]
    BY DEF JobsOK
  <2>3. CASE pending[k] = <<>> \/ pending[k][1] = i
    <3>1. Send(Q(run, pending, judged, misread), k, i, n) = Q(run, P, judged, misread)
      BY <2>1, <2>3, SendBusy
    <3>2. Send(Now, k, i, n) = Q(run, P, judged, misread)
      BY <3>1, NowIs
    <3> HIDE DEF P
    <3> QED BY <1>2, <2>2, <2>3, <3>2 DEF JobsOK
  <2>4. CASE pending[k] # <<>> /\ pending[k][1] # i
    <3>4. Send(Q(run, pending, judged, misread), k, i, n)
            = Disturb(Q(run, [pending EXCEPT ![k] = <<i, n>>], judged, misread), pending[k][1])
      BY <2>1, <2>4, SendReplaces
    <3> HIDE DEF P
    <3>5. Disturb(Q(run, P, judged, misread), pending[k][1]) = Q(run, P, J, misread)
      BY DisturbIs
    <3>1. Send(Q(run, pending, judged, misread), k, i, n) = Q(run, P, J, misread)
      BY <3>4, <3>5 DEF P
    <3>2. Send(Now, k, i, n) = Q(run, P, J, misread)
      BY <3>1, NowIs
    <3>3. J = [judged EXCEPT ![pending[k][1]] = {"disturbed"}]
      OBVIOUS
    <3> HIDE DEF P, J
    <3> QED BY <1>2, <2>2, <2>4, <3>2, <3>3 DEF JobsOK
  <2> QED BY <2>3, <2>4
<1> QED BY <1>1, <1>2

LEMMA SendEnds ==
    ASSUME JobsOK, NEW j \in Jobs, NEW k \in Jobs, j # k, NEW i, NEW n,
           Becomes(End(Send(Now, k, i, n), j))
    PROVE  /\ Doms /\ RunEnds(j) /\ RunAsked(k, i, n) /\ Rest({j, k}) /\ misread' = misread
           /\ ~Running(k) \/ pending[k] = <<>> \/ pending[k][1] = i => judged' = judged
           /\ Running(k) /\ pending[k] # <<>> /\ pending[k][1] # i =>
                judged' = [judged EXCEPT ![pending[k][1]] = {"disturbed"}]
<1>1. PICK R, P, J :
             /\ Send(Now, k, i, n) = Q(R, P, J, misread)
             /\ DOMAIN R = Jobs /\ DOMAIN P = Jobs
             /\ \A l \in Jobs \ {k} : R[l] = run[l] /\ P[l] = pending[l]
             /\ ~Running(k) => R[k] = Started(k, i, n) /\ P[k] = pending[k] /\ J = judged
             /\ Running(k) => /\ R[k] = run[k] /\ P[k] = <<i, n>>
                              /\ pending[k] = <<>> \/ pending[k][1] = i => J = judged
                              /\ pending[k] # <<>> /\ pending[k][1] # i =>
                                   J = [judged EXCEPT ![pending[k][1]] = {"disturbed"}]
  BY Sends
<1> DEFINE r == IF P[j] = <<>> THEN Idle ELSE Started(j, P[j][1], P[j][2])
           R2 == [R EXCEPT ![j] = r]
           P2 == [P EXCEPT ![j] = <<>>]
<1>8. End(Q(R, P, J, misread), j) = Q(R2, P2, J, misread)
  BY EndIs
<1> HIDE DEF R2, P2
<1>9. run' = R2 /\ pending' = P2 /\ judged' = J /\ misread' = misread
  BY <1>1, <1>8, NowIs
<1>2. run' = [R EXCEPT ![j] = r] /\ pending' = [P EXCEPT ![j] = <<>>] /\ judged' = J /\ misread' = misread
  BY <1>9 DEF R2, P2
<1>3. P[j] = pending[j]
  BY <1>1
<1>4. pending[j] = <<>> => r = Idle
  BY <1>3
<1>5. pending[j] # <<>> => r = Started(j, pending[j][1], pending[j][2])
  BY <1>3
<1> HIDE DEF r
<1>6. RunEnds(j) /\ Doms
  BY <1>1, <1>2, <1>4, <1>5 DEF Doms, RunEnds
<1>7. run'[k] = R[k] /\ pending'[k] = P[k] /\ Rest({j, k})
  BY <1>1, <1>2 DEF Rest
<1> QED BY <1>1, <1>2, <1>6, <1>7 DEF RunAsked

-----------------------------------------------------------------------------
(* What a job may hold, kind by kind.                                       *)

LEMMA DevOK ==
    ASSUME NEW r, NEW p, NEW es
    PROVE  JobOK(Dev, r, p, es) <=>
             /\ r \in RunRecords
             /\ r.pc \in {"idle", "prepare", "agent", "push", "push-failed", "build", "hand-back",
                          "kick", "send", "fast-path", "send-finalize", "done"}
             /\ p = <<>> \/ (p \in Issues \X Nat /\ r.pc # "idle")
             /\ es = <<>> \/ (r.pc = "agent" /\ (es = Reset \/ es = AddIteration(r.iteration)))
             /\ r.pc # "idle" => r.issue \in Issues
<1>2. es \in EditsAt(Dev, r.pc, r.iteration)
        <=> es = <<>> \/ (r.pc = "agent" /\ (es = Reset \/ es = AddIteration(r.iteration)))
  BY DevEdits
<1>3. Dev[1] = "dev" /\ "dev" \notin Judges
  BY JobNames, HarnessAssumption DEF Judges
<1> QED BY <1>2, <1>3, Steps DEF JobOK

LEMMA PickerOK ==
    ASSUME NEW q \in Pickers, NEW r, NEW p, NEW es
    PROVE  JobOK(Picker(q), r, p, es) <=>
             /\ r \in RunRecords /\ r.pc \in {"idle", "check", "pick", "dispatch"} /\ p = <<>>
             /\ es = <<>> \/ (r.pc = "dispatch" /\ es = AddReady)
             /\ r.pc = "dispatch" => r.issue \in Issues
<1>2. es \in EditsAt(Picker(q), r.pc, r.iteration) <=> es = <<>> \/ (r.pc = "dispatch" /\ es = AddReady)
  BY PickerEdits
<1>3. Picker(q)[1] = "picker" /\ "picker" \notin Judges
  BY JobNames, HarnessAssumption DEF Judges
<1> QED BY <1>2, <1>3, Steps DEF JobOK

LEMMA VerifyOK ==
    ASSUME NEW s \in Verifiers, NEW i \in Issues, NEW r, NEW p, NEW es
    PROVE  JobOK(Verify(s, i), r, p, es) <=>
             /\ r \in RunRecords /\ r.pc \in {"idle", "guard", "agent", "ensure", "send"}
             /\ p = <<>> \/ (p \in Issues \X Nat /\ r.pc # "idle" /\ p[1] = i /\ p[2] > 0)
             /\ \/ es = <<>>
                \/ r.pc = "ensure" /\ (es = DropFailed(s) \/ es = DropPassed(s))
                \/ r.pc = "send" /\ (es = AddFailed(s) \/ es = DropPassed(s))
             /\ r.pc # "idle" => r.issue = i /\ r.iteration > 0
<1>2. es \in EditsAt(Verify(s, i), r.pc, r.iteration) <=>
                \/ es = <<>>
                \/ r.pc = "ensure" /\ (es = DropFailed(s) \/ es = DropPassed(s))
                \/ r.pc = "send" /\ (es = AddFailed(s) \/ es = DropPassed(s))
  BY VerifyEdits
<1>3. Verify(s, i)[1] = s /\ Verify(s, i)[2] = i /\ s \in Judges /\ s \notin {"dev", "picker", "feedback"}
  BY JobNames DEF Judges
<1> QED BY <1>2, <1>3, Steps DEF JobOK

LEMMA FinalizeOK ==
    ASSUME NEW i \in Issues, NEW r, NEW p, NEW es
    PROVE  JobOK(Finalize(i), r, p, es) <=>
             /\ r \in RunRecords
             /\ r.pc \in {"idle", "join", "checks", "merge", "kick", "kick-retry", "retry"}
             /\ p = <<>> \/ (p \in Issues \X Nat /\ r.pc # "idle" /\ p[1] = i /\ p[2] > 0)
             /\ \/ es = <<>>
                \/ r.pc = "checks" /\ (es = Green \/ es = DropRework)
                \/ r.pc = "kick-retry" /\ (es = Red \/ es = DropMerge)
                \/ r.pc = "kick" /\ es = HandBack
             /\ r.pc # "idle" => r.issue = i /\ r.iteration > 0
<1>2. es \in EditsAt(Finalize(i), r.pc, r.iteration) <=>
                \/ es = <<>>
                \/ r.pc = "checks" /\ (es = Green \/ es = DropRework)
                \/ r.pc = "kick-retry" /\ (es = Red \/ es = DropMerge)
                \/ r.pc = "kick" /\ es = HandBack
  BY FinalizeEdits
<1>3. Finalize(i)[1] = "finalize" /\ Finalize(i)[2] = i /\ "finalize" \in Judges
  BY JobNames DEF Judges
<1> QED BY <1>2, <1>3, Steps DEF JobOK

LEMMA FeedbackOK ==
    ASSUME NEW i \in Issues, NEW r, NEW p, NEW es
    PROVE  JobOK(Feedback(i), r, p, es) <=>
             r \in RunRecords /\ r.pc = "idle" /\ p = <<>> /\ (es = <<>> \/ es = AddRework)
<1>3. Feedback(i)[1] = "feedback" /\ "feedback" \notin Judges
  BY JobNames, HarnessAssumption DEF Judges
<1>2. es \in EditsAt(Feedback(i), r.pc, r.iteration) <=> es = <<>> \/ es = AddRework
  BY FeedbackEdits
<1> QED BY <1>2, <1>3, Steps DEF JobOK

LEMMA StartsOK ==
    ASSUME NEW n \in Nat
    PROVE
    /\ Idle \in RunRecords /\ Idle.pc = "idle"
    /\ \A i \in Issues :
         /\ Started(Dev, i, n) \in RunRecords
         /\ Started(Dev, i, n).pc = "prepare" /\ Started(Dev, i, n).issue = i
         /\ Started(Dev, i, n).iteration = n
         /\ Started(Finalize(i), i, n) \in RunRecords
         /\ Started(Finalize(i), i, n).pc = "join" /\ Started(Finalize(i), i, n).issue = i
         /\ Started(Finalize(i), i, n).iteration = n
         /\ \A s \in Verifiers :
              /\ Started(Verify(s, i), i, n) \in RunRecords
              /\ Started(Verify(s, i), i, n).pc = "guard" /\ Started(Verify(s, i), i, n).issue = i
              /\ Started(Verify(s, i), i, n).iteration = n
    /\ \A p \in Pickers : /\ Started(Picker(p), 0, 0) \in RunRecords
                          /\ Started(Picker(p), 0, 0).pc = "check"
<1>1. Idle \in RunRecords /\ Idle.pc = "idle"
  <2>1. 0 \in Issues \union {0} /\ 0 \in Nat /\ "idle" \in AllSteps
    BY DEF AllSteps
  <2> QED BY <2>1, StartedIs DEF Idle, RunRecords
<1>2. ASSUME NEW i \in Issues \union {0}, NEW j, FirstStep(j) \in AllSteps, NEW m \in Nat
      PROVE  /\ Started(j, i, m) \in RunRecords /\ Started(j, i, m).pc = FirstStep(j)
             /\ Started(j, i, m).issue = i /\ Started(j, i, m).iteration = m
  BY <1>2 DEF Started, RunRecords
<1>3. ASSUME NEW i \in Issues
      PROVE  /\ FirstStep(Dev) = "prepare" /\ FirstStep(Finalize(i)) = "join"
             /\ \A s \in Verifiers : FirstStep(Verify(s, i)) = "guard"
  BY Steps
<1>4. \A p \in Pickers : FirstStep(Picker(p)) = "check"
  BY Steps
<1>5. 0 \in Nat
  OBVIOUS
<1>6. ASSUME NEW i \in Issues
      PROVE  /\ Started(Dev, i, n) \in RunRecords
             /\ Started(Dev, i, n).pc = "prepare" /\ Started(Dev, i, n).issue = i
             /\ Started(Dev, i, n).iteration = n
             /\ Started(Finalize(i), i, n) \in RunRecords
             /\ Started(Finalize(i), i, n).pc = "join" /\ Started(Finalize(i), i, n).issue = i
             /\ Started(Finalize(i), i, n).iteration = n
  <2>1. FirstStep(Dev) = "prepare" /\ FirstStep(Finalize(i)) = "join"
    BY <1>3
  <2>2. "prepare" \in AllSteps /\ "join" \in AllSteps /\ "guard" \in AllSteps
    BY DEF AllSteps
  <2> QED BY <2>1, <2>2, <1>2
<1>7. ASSUME NEW i \in Issues, NEW s \in Verifiers
      PROVE  /\ Started(Verify(s, i), i, n) \in RunRecords
             /\ Started(Verify(s, i), i, n).pc = "guard" /\ Started(Verify(s, i), i, n).issue = i
             /\ Started(Verify(s, i), i, n).iteration = n
  <2>1. FirstStep(Verify(s, i)) = "guard"
    BY <1>3
  <2>2. "prepare" \in AllSteps /\ "join" \in AllSteps /\ "guard" \in AllSteps
    BY DEF AllSteps
  <2> QED BY <2>1, <2>2, <1>2
<1>8. ASSUME NEW p \in Pickers
      PROVE  Started(Picker(p), 0, 0) \in RunRecords /\ Started(Picker(p), 0, 0).pc = "check"
  <2>1. FirstStep(Picker(p)) = "check"
    BY <1>4
  <2>2. "check" \in AllSteps
    BY DEF AllSteps
  <2> QED BY <2>1, <2>2, <1>2, <1>5
<1> QED BY <1>1, <1>6, <1>7, <1>8

\* A run that ends leaves its group as it may be.
LEMMA EndedOK ==
    ASSUME JobsOK, NEW j \in Jobs, edits[j] = <<>>, edits'[j] = <<>>, RunEnds(j)
    PROVE  /\ JobOK(j, run'[j], pending'[j], edits'[j])
           /\ pending[j] = <<>> => run'[j].pc = "idle"
           /\ j = Dev /\ pending[j] # <<>> => run'[j].pc = "prepare" /\ run'[j].issue = pending[j][1]
           /\ \A i \in Issues :
                /\ j = Finalize(i) /\ pending[j] # <<>> =>
                     run'[j].pc = "join" /\ run'[j].iteration = pending[j][2]
                /\ \A s \in Verifiers : j = Verify(s, i) /\ pending[j] # <<>> => run'[j].pc = "guard"
<1> USE JobsOK DEF RunEnds
<1>0. JobOK(j, run[j], pending[j], <<>>)
  BY DEF JobsOK
<1>1. pending[j] = <<>> => run'[j] = Idle /\ Idle \in RunRecords /\ Idle.pc = "idle"
  BY StartsOK
<1>2. CASE j = Dev
  BY <1>0, <1>1, <1>2, DevOK, StartsOK
<1>3. ASSUME NEW p \in Pickers, j = Picker(p) PROVE JobOK(j, run'[j], pending'[j], edits'[j]) /\ pending[j] = <<>>
  BY <1>0, <1>1, <1>3, PickerOK, StartsOK
<1>4. ASSUME NEW s \in Verifiers, NEW i \in Issues, j = Verify(s, i)
      PROVE  /\ JobOK(j, run'[j], pending'[j], edits'[j])
             /\ pending[j] # <<>> => run'[j].pc = "guard"
  BY <1>0, <1>1, <1>4, VerifyOK, StartsOK
<1>5. ASSUME NEW i \in Issues, j = Finalize(i)
      PROVE  /\ JobOK(j, run'[j], pending'[j], edits'[j])
             /\ pending[j] # <<>> => run'[j].pc = "join" /\ run'[j].iteration = pending[j][2]
  BY <1>0, <1>1, <1>5, FinalizeOK, StartsOK
<1>6. ASSUME NEW i \in Issues, j = Feedback(i) PROVE JobOK(j, run'[j], pending'[j], edits'[j]) /\ pending[j] = <<>>
  BY <1>0, <1>1, <1>6, FeedbackOK, StartsOK
<1> QED BY <1>1, <1>2, <1>3, <1>4, <1>5, <1>6, JobKinds, JobsDiffer, JobNames

-----------------------------------------------------------------------------
(* What an edit changes of the labels that anyone decides by.               *)

AllLabels == Stages \X {"pass", "fail"} \union {ReadyForDev, ReadyToMerge, NeedsRework}
               \union {Iteration(n) : n \in 1..MaxLabel}

Edited(i, e) == \A l : l \in labels'[i] <=> (l \in labels[i] /\ l \notin e.drop) \/ l \in e.add
SameVerdict(i, s) ==
    /\ Passed(s) \in labels'[i] <=> Passed(s) \in labels[i]
    /\ Failed(s) \in labels'[i] <=> Failed(s) \in labels[i]
SameVerdicts(i) == \A s \in Stages : SameVerdict(i, s)
SameIterations(i) == \A n \in 1..MaxLabel : Iteration(n) \in labels'[i] <=> Iteration(n) \in labels[i]
SameRework(i) == NeedsRework \in labels'[i] <=> NeedsRework \in labels[i]
SameMerge(i) == ReadyToMerge \in labels'[i] <=> ReadyToMerge \in labels[i]

LEMMA LabelNames ==
    /\ ReadyForDev \in AllLabels /\ ReadyToMerge \in AllLabels /\ NeedsRework \in AllLabels
    /\ \A s \in Stages : Passed(s) \in AllLabels /\ Failed(s) \in AllLabels
    /\ \A n \in 1..MaxLabel : Iteration(n) \in AllLabels
    /\ TypeOK => labels \in [Issues -> SUBSET AllLabels]
    /\ Verifiers \subseteq Stages /\ "dev" \in Stages /\ "gate" \in Stages
    /\ "dev" \notin Verifiers /\ "gate" \notin Verifiers
BY HarnessAssumption DEF AllLabels, Passed, Failed, TypeOK, Stages

\* One edit is made of issue i, and job j has the others still to make.
LEMMA EditIs ==
    ASSUME Typed, NEW j \in Jobs, NEW i \in Issues, NEW es, Edit(j, i, es)
    PROVE  /\ DOMAIN edits' = Jobs /\ edits'[j] = Tail(es)
           /\ \A k \in Jobs \ {j} : edits'[k] = edits[k]
           /\ DOMAIN labels' = Issues /\ Edited(i, Head(es))
           /\ \A k \in Issues \ {i} : labels'[k] = labels[k]
           /\ Head(es).add \subseteq AllLabels => labels' \in [Issues -> SUBSET AllLabels]
<1>1. labels \in [Issues -> SUBSET AllLabels] /\ DOMAIN edits = Jobs
  BY LabelNames DEF Typed, JobsOK
<1> DEFINE e == Head(es)
           tail == Tail(es)
<1>2. /\ labels' = [labels EXCEPT ![i] = (labels[i] \ e.drop) \union e.add]
      /\ edits' = [edits EXCEPT ![j] = tail]
  BY DEF Edit
<1> HIDE DEF e, tail
<1>3. DOMAIN edits' = Jobs /\ edits'[j] = tail /\ \A k \in Jobs \ {j} : edits'[k] = edits[k]
  BY <1>1, <1>2
<1>4. /\ DOMAIN labels' = Issues /\ \A k \in Issues \ {i} : labels'[k] = labels[k]
      /\ labels'[i] = (labels[i] \ e.drop) \union e.add
  BY <1>1, <1>2
<1>5. Edited(i, e)
  BY <1>4 DEF Edited
<1>6. e.add \subseteq AllLabels => labels' \in [Issues -> SUBSET AllLabels]
  BY <1>1, <1>2
<1> QED BY <1>3, <1>4, <1>5, <1>6 DEF e, tail

LEMMA EditReady ==
    ASSUME NEW i \in Issues, Edited(i, Add(ReadyForDev))
    PROVE  /\ SameVerdicts(i) /\ SameIterations(i) /\ SameRework(i) /\ SameMerge(i)
           /\ Add(ReadyForDev).add \subseteq AllLabels
BY LabelsDiffer, LabelNames, HarnessAssumption
   DEF Edited, Add, SameVerdicts, SameVerdict, SameIterations, SameRework, SameMerge

LEMMA EditRework ==
    ASSUME NEW i \in Issues, Edited(i, Add(NeedsRework))
    PROVE  /\ SameVerdicts(i) /\ SameIterations(i) /\ NeedsRework \in labels'[i] /\ SameMerge(i)
           /\ Add(NeedsRework).add \subseteq AllLabels
BY LabelsDiffer, LabelNames, HarnessAssumption
   DEF Edited, Add, SameVerdicts, SameVerdict, SameIterations, SameMerge

LEMMA EditHandBack ==
    ASSUME NEW i \in Issues, NEW e, e = [add |-> {NeedsRework}, drop |-> {ReadyToMerge}], Edited(i, e)
    PROVE  /\ SameVerdicts(i) /\ SameIterations(i) /\ NeedsRework \in labels'[i]
           /\ e.add \subseteq AllLabels
BY LabelsDiffer, LabelNames, HarnessAssumption
   DEF Edited, SameVerdicts, SameVerdict, SameIterations

LEMMA EditGreen ==
    ASSUME NEW i \in Issues, NEW e, e = [add |-> {ReadyToMerge}, drop |-> {ReadyForDev}], Edited(i, e)
    PROVE  /\ SameVerdicts(i) /\ SameIterations(i) /\ SameRework(i)
           /\ e.add \subseteq AllLabels
BY LabelsDiffer, LabelNames, HarnessAssumption
   DEF Edited, SameVerdicts, SameVerdict, SameIterations, SameRework

LEMMA EditRed ==
    ASSUME NEW i \in Issues, NEW e, e = [add |-> {NeedsRework}, drop |-> {ReadyForDev}], Edited(i, e)
    PROVE  /\ SameVerdicts(i) /\ SameIterations(i) /\ NeedsRework \in labels'[i]
           /\ e.add \subseteq AllLabels
BY LabelsDiffer, LabelNames, HarnessAssumption
   DEF Edited, SameVerdicts, SameVerdict, SameIterations

LEMMA EditDropRework ==
    ASSUME NEW i \in Issues, Edited(i, Drop({NeedsRework}))
    PROVE  /\ SameVerdicts(i) /\ SameIterations(i) /\ SameMerge(i)
           /\ Drop({NeedsRework}).add \subseteq AllLabels
BY LabelsDiffer, LabelNames, HarnessAssumption
   DEF Edited, Drop, SameVerdicts, SameVerdict, SameIterations, SameMerge

LEMMA EditDropMerge ==
    ASSUME NEW i \in Issues, Edited(i, Drop({ReadyToMerge}))
    PROVE  /\ SameVerdicts(i) /\ SameIterations(i) /\ SameRework(i)
           /\ Drop({ReadyToMerge}).add \subseteq AllLabels
BY LabelsDiffer, LabelNames, HarnessAssumption
   DEF Edited, Drop, SameVerdicts, SameVerdict, SameIterations, SameRework

LEMMA EditReset ==
    ASSUME NEW i \in Issues, Edited(i, Drop({NeedsRework, ReadyToMerge} \union Verdicts))
    PROVE  /\ \A s \in Stages : Passed(s) \notin labels'[i] /\ Failed(s) \notin labels'[i]
           /\ SameIterations(i)
           /\ Drop({NeedsRework, ReadyToMerge} \union Verdicts).add \subseteq AllLabels
BY LabelsDiffer, LabelNames, HarnessAssumption
   DEF Edited, Drop, SameIterations

LEMMA EditAddIteration ==
    ASSUME NEW i \in Issues, NEW n \in 1..MaxLabel, Edited(i, Add(Iteration(n)))
    PROVE  /\ SameVerdicts(i) /\ SameRework(i) /\ SameMerge(i)
           /\ Iteration(n) \in labels'[i]
           /\ \A m \in 1..MaxLabel : Iteration(m) \in labels'[i] <=> m = n \/ Iteration(m) \in labels[i]
           /\ Add(Iteration(n)).add \subseteq AllLabels
<1>1. n \in Nat /\ \A m \in 1..MaxLabel : m \in Nat
  BY HarnessAssumption
<1> QED BY <1>1, LabelsDiffer, LabelNames
        DEF Edited, Add, SameVerdicts, SameVerdict, SameRework, SameMerge

LEMMA EditDropIteration ==
    ASSUME NEW i \in Issues, NEW n \in 1..MaxLabel, Edited(i, Drop({Iteration(n)}))
    PROVE  /\ SameVerdicts(i) /\ SameRework(i) /\ SameMerge(i)
           /\ \A m \in 1..MaxLabel : Iteration(m) \in labels'[i] <=> m # n /\ Iteration(m) \in labels[i]
           /\ Drop({Iteration(n)}).add \subseteq AllLabels
<1>1. n \in Nat /\ \A m \in 1..MaxLabel : m \in Nat
  BY HarnessAssumption
<1> QED BY <1>1, LabelsDiffer, LabelNames
        DEF Edited, Drop, SameVerdicts, SameVerdict, SameRework, SameMerge

LEMMA EditAddVerdict ==
    ASSUME NEW i \in Issues, NEW s \in Stages, NEW l \in {Passed(s), Failed(s)}, Edited(i, Add(l))
    PROVE  /\ \A t \in Stages \ {s} : SameVerdict(i, t)
           /\ l \in labels'[i]
           /\ l = Failed(s) => (Passed(s) \in labels'[i] <=> Passed(s) \in labels[i])
           /\ SameIterations(i) /\ SameRework(i) /\ SameMerge(i)
           /\ Add(l).add \subseteq AllLabels
BY LabelsDiffer, LabelNames, HarnessAssumption
   DEF Edited, Add, SameVerdict, SameIterations, SameRework, SameMerge

LEMMA EditDropVerdict ==
    ASSUME NEW i \in Issues, NEW s \in Stages, NEW l \in {Passed(s), Failed(s)}, Edited(i, Drop({l}))
    PROVE  /\ \A t \in Stages \ {s} : SameVerdict(i, t)
           /\ l = Failed(s) => (Passed(s) \in labels'[i] <=> Passed(s) \in labels[i])
           /\ l = Passed(s) => /\ Failed(s) \in labels'[i] <=> Failed(s) \in labels[i]
                               /\ Passed(s) \notin labels'[i]
           /\ SameIterations(i) /\ SameRework(i) /\ SameMerge(i)
           /\ Drop({l}).add \subseteq AllLabels
BY LabelsDiffer, LabelNames, HarnessAssumption
   DEF Edited, Drop, SameVerdict, SameIterations, SameRework, SameMerge

LEMMA EditResult ==
    ASSUME NEW i \in Issues, NEW s \in Stages, NEW passed \in BOOLEAN, Edited(i, SetResult(s, passed))
    PROVE  /\ \A t \in Stages \ {s} : SameVerdict(i, t)
           /\ Passed(s) \in labels'[i] \/ Failed(s) \in labels'[i]
           /\ SameIterations(i) /\ SameRework(i) /\ SameMerge(i)
           /\ SetResult(s, passed).add \subseteq AllLabels
BY LabelsDiffer, LabelNames, HarnessAssumption
   DEF Edited, SetResult, SameVerdict, SameIterations, SameRework, SameMerge

LEMMA EditFastPath ==
    ASSUME NEW i \in Issues, NEW e,
           e = [add |-> {Passed(s) : s \in Verifiers}, drop |-> {Failed(s) : s \in Verifiers}],
           Edited(i, e)
    PROVE  /\ \A t \in Stages \ Verifiers : SameVerdict(i, t)
           /\ \A s \in Verifiers : Passed(s) \in labels'[i]
           /\ SameIterations(i) /\ SameRework(i) /\ SameMerge(i)
           /\ e.add \subseteq AllLabels
<1>1. e.add = {Passed(s) : s \in Verifiers} /\ e.drop = {Failed(s) : s \in Verifiers}
  OBVIOUS
<1>2. \A s \in Verifiers : s \in Stages
  BY LabelNames
<1>3. /\ \A s \in Verifiers : Passed(s) \in Verdicts /\ Failed(s) \in Verdicts
      /\ e.add \subseteq Verdicts /\ e.drop \subseteq Verdicts
  BY <1>1, <1>2, LabelsDiffer
<1>4. \A s \in Verifiers : Passed(s) \in labels'[i]
  BY <1>1 DEF Edited
<1>5. ASSUME NEW t \in Stages \ Verifiers PROVE SameVerdict(i, t)
  <2>1. Passed(t) \notin e.add /\ Passed(t) \notin e.drop /\ Failed(t) \notin e.add /\ Failed(t) \notin e.drop
    BY <1>1, <1>2, LabelsDiffer
  <2> QED BY <2>1 DEF Edited, SameVerdict
<1>6. \A l : l \notin Verdicts => (l \in labels'[i] <=> l \in labels[i])
  BY <1>3 DEF Edited
<1>7. SameIterations(i) /\ SameRework(i) /\ SameMerge(i)
  BY <1>6, LabelsDiffer, HarnessAssumption DEF SameIterations, SameRework, SameMerge
<1>8. e.add \subseteq AllLabels
  BY <1>1, <1>2, LabelNames
<1> QED BY <1>4, <1>5, <1>7, <1>8

-----------------------------------------------------------------------------
(* What each action changes.  Jobs that are not named stay as they are, but  *)
(* for a picker that a kick starts.                                         *)

SameJob(k) == run'[k] = run[k] /\ pending'[k] = pending[k] /\ edits'[k] = edits[k]
Calm(js) ==
    \A k \in Jobs \ js :
      /\ pending'[k] = pending[k] /\ edits'[k] = edits[k]
      /\ \/ run'[k] = run[k]
         \/ \E p \in Pickers : k = Picker(p) /\ run[k].pc = "idle" /\ run'[k] = Started(k, 0, 0)
NoPicker(js) == \A p \in Pickers : Picker(p) \notin js
JobNowOK(j) == JobOK(j, run'[j], pending'[j], edits'[j])
Elsewhere(i) ==
    \A k \in Issues \ {i} :
      /\ labels'[k] = labels[k] /\ open'[k] = open[k] /\ branch'[k] = branch[k]
      /\ misread'[k] = misread[k]
SameHistory(i) == judged'[i] = judged[i] /\ misread'[i] = misread[i]
HistoryOK ==
    /\ DOMAIN judged' = Issues /\ misread' \in [Issues -> Nat]
    /\ \A i \in Issues : judged'[i] = {"disturbed"} \/ judged'[i] \subseteq Verifiers
StateOK ==
    /\ labels' \in [Issues -> SUBSET AllLabels] /\ open' \in [Issues -> BOOLEAN]
    /\ branch' \in [Issues -> 0..MaxLabel] /\ ci' \in [Issues -> {"none", "running", "green", "red"}]

\* All but pickers that are named are the same jobs, and pickers dispatch what they did.
LEMMA CalmJobs ==
    ASSUME JobsOK, NEW js, Calm(js)
    PROVE  /\ Dev \notin js => SameJob(Dev)
           /\ \A i \in Issues : /\ Finalize(i) \notin js => SameJob(Finalize(i))
                                /\ Feedback(i) \notin js => SameJob(Feedback(i))
                                /\ \A s \in Verifiers : Verify(s, i) \notin js => SameJob(Verify(s, i))
           /\ NoPicker(js) => \A i \in Issues : Dispatching(i)' = Dispatching(i)
<1>1. ASSUME NEW k \in Jobs \ js, \A p \in Pickers : k # Picker(p) PROVE SameJob(k)
  BY <1>1 DEF Calm, SameJob
<1>2. Dev \notin js => SameJob(Dev)
  BY <1>1, JobNames
<1>3. ASSUME NEW i \in Issues
      PROVE  /\ Finalize(i) \notin js => SameJob(Finalize(i))
             /\ Feedback(i) \notin js => SameJob(Feedback(i))
  BY <1>1, JobNames, JobsDiffer
<1>4. ASSUME NEW i \in Issues, NEW s \in Verifiers
      PROVE  Verify(s, i) \notin js => SameJob(Verify(s, i))
  BY <1>1, JobNames, JobsDiffer
<1>5. ASSUME NoPicker(js), NEW i \in Issues PROVE Dispatching(i)' = Dispatching(i)
  <2>1. ASSUME NEW p \in Pickers
        PROVE  /\ run'[Picker(p)].pc = "dispatch" <=> run[Picker(p)].pc = "dispatch"
               /\ run[Picker(p)].pc = "dispatch" => run'[Picker(p)].issue = run[Picker(p)].issue
    <3>1. Picker(p) \in Jobs \ js
      BY <1>5, JobNames DEF NoPicker
    <3>2. Started(Picker(p), 0, 0).pc = "check"
      BY StartsOK
    <3> QED BY <3>1, <3>2 DEF Calm
  <2> QED BY <2>1 DEF Dispatching
<1> QED BY <1>2, <1>3, <1>4, <1>5

LEMMA CalmFromRest ==
    ASSUME NEW js, DOMAIN edits' = Jobs, \A k \in Jobs \ js : edits'[k] = edits[k],
           Rest(js) \/ RestOrKicked(js)
    PROVE  Calm(js)
BY DEF Calm, Rest, RestOrKicked

LEMMA CalmJobsOK ==
    ASSUME JobsOK, NEW js, Doms, DOMAIN edits' = Jobs, Calm(js), \A j \in js : JobNowOK(j)
    PROVE  JobsOK'
<1>1. ASSUME NEW k \in Jobs PROVE JobNowOK(k)
  <2>1. CASE k \in js
    BY <2>1
  <2>2. CASE k \notin js /\ run'[k] = run[k]
    BY <2>2 DEF Calm, JobsOK, JobNowOK
  <2>3. ASSUME k \notin js, NEW p \in Pickers, k = Picker(p), run[k].pc = "idle", run'[k] = Started(k, 0, 0)
        PROVE  JobNowOK(k)
    <3>1. JobOK(Picker(p), run[k], pending[k], edits[k])
      BY <2>3 DEF JobsOK
    <3>2. pending[k] = <<>> /\ edits[k] = <<>>
      BY <2>3, <3>1, PickerOK
    <3>3. pending'[k] = <<>> /\ edits'[k] = <<>>
      BY <2>3, <3>2 DEF Calm
    <3>4. Started(Picker(p), 0, 0) \in RunRecords /\ Started(Picker(p), 0, 0).pc = "check"
      BY StartsOK
    <3> QED BY <2>3, <3>3, <3>4, PickerOK DEF JobNowOK
  <2> QED BY <2>1, <2>2, <2>3 DEF Calm
<1> QED BY <1>1 DEF Doms, JobsOK, JobNowOK

LEMMA TypedStays ==
    ASSUME Typed, JobsOK', StateOK, HistoryOK
    PROVE  Typed'
BY DEF Typed, TypeOK, StateOK, HistoryOK, AllLabels, Disturbed

LEMMA TypedNow ==
    ASSUME Typed
    PROVE  /\ JobsOK /\ labels \in [Issues -> SUBSET AllLabels] /\ open \in [Issues -> BOOLEAN]
           /\ branch \in [Issues -> 0..MaxLabel] /\ ci \in [Issues -> {"none", "running", "green", "red"}]
           /\ DOMAIN judged = Issues /\ misread \in [Issues -> Nat]
           /\ \A i \in Issues : judged[i] = {"disturbed"} \/ judged[i] \subseteq Verifiers
           /\ History => HistoryOK
BY LabelNames DEF Typed, TypeOK, Disturbed, History, HistoryOK

LEMMA UnchangedState ==
    ASSUME Typed, UNCHANGED <<labels, open, branch, ci>>
    PROVE  StateOK /\ \A i \in Issues : SameVerdicts(i) /\ SameIterations(i) /\ SameRework(i) /\ SameMerge(i)
BY TypedNow DEF StateOK, SameVerdicts, SameVerdict, SameIterations, SameRework, SameMerge

-----------------------------------------------------------------------------
(* What leaves the level and the phase of an issue as they are.             *)

SameLabels(i) == SameVerdicts(i) /\ SameIterations(i) /\ SameRework(i) /\ SameMerge(i)
SameJudges(i) == SameJob(Finalize(i)) /\ \A s \in Verifiers : SameJob(Verify(s, i))
DevKeeps == run'[Dev] = run[Dev] /\ edits'[Dev] = edits[Dev]
DevSteady(i) ==
    \/ DevKeeps
    \/ ~DevAt(i) /\ ~DevAt(i)'
    \/ /\ edits[Dev] = <<>> /\ edits'[Dev] = <<>>
       /\ DevAt(i)' => DevAt(i) /\ run'[Dev].iteration = run[Dev].iteration

\* A step that changes jobs js as they may be changed, and the rest not at all.
LEMMA TypedStep ==
    ASSUME Typed, NEW js, Doms, DOMAIN edits' = Jobs, Calm(js), \A j \in js : JobNowOK(j),
           StateOK, HistoryOK
    PROVE  Typed'
BY TypedNow, CalmJobsOK, TypedStays

LEMMA CurrentStays ==
    ASSUME NEW i \in Issues, SameIterations(i)
    PROVE  CurrentIteration(i)' = CurrentIteration(i)
<1> DEFINE found == {n \in 1..MaxLabel : Iteration(n) \in labels[i]}
<1>1. found' = found
  BY DEF SameIterations
<1>2. CurrentIteration(i) = IF found = {} THEN 0 ELSE CHOOSE n \in found : TRUE
  BY DEF CurrentIteration
<1>3. CurrentIteration(i)' = IF found' = {} THEN 0 ELSE CHOOSE n \in found' : TRUE
  BY DEF CurrentIteration
<1> HIDE DEF found
<1> QED BY <1>1, <1>2, <1>3

LEMMA CurrentIs ==
    ASSUME NEW i \in Issues
    PROVE  /\ CurrentIteration(i) \in 0..MaxLabel
           /\ CurrentIteration(i) = 0 <=> \A n \in 1..MaxLabel : Iteration(n) \notin labels[i]
           /\ CurrentIteration(i) # 0 => Iteration(CurrentIteration(i)) \in labels[i]
<1> DEFINE found == {n \in 1..MaxLabel : Iteration(n) \in labels[i]}
<1>1. CASE found = {}
  BY <1>1, HarnessAssumption DEF CurrentIteration
<1>2. CASE found # {}
  <2>1. CurrentIteration(i) \in found
    BY <1>2 DEF CurrentIteration
  <2> QED BY <1>2, <2>1, HarnessAssumption
<1> QED BY <1>1, <1>2

LEMMA LevelIs ==
    ASSUME Typed, NEW i \in Issues, LevelOf(i)
    PROVE  /\ Level(i) \in Nat /\ branch[i] \in Nat /\ branch[i] <= Level(i)
           /\ \A n \in 1..MaxLabel : Iteration(n) \in labels[i] => CurrentIteration(i) = n
           /\ CurrentIteration(i) <= Level(i)
           /\ LabelIsOff(i) => DevAt(i) /\ edits[Dev] = AddIteration(run[Dev].iteration)
           /\ ~LabelIsOff(i) => Level(i) = CurrentIteration(i)
           /\ DevAt(i) => Level(i) = run[Dev].iteration
           /\ DevAt(i) /\ edits[Dev] = <<>> => ~LabelIsOff(i) /\ CurrentIteration(i) = run[Dev].iteration
<1>1. CurrentIteration(i) \in Nat /\ branch[i] \in Nat
  BY CurrentIs, HarnessAssumption, TypedNow
<1>2. ASSUME NEW n \in 1..MaxLabel, Iteration(n) \in labels[i] PROVE CurrentIteration(i) = n
  <2>1. CurrentIteration(i) # 0
    BY <1>2, CurrentIs
  <2> QED BY <1>2, <2>1, CurrentIs, HarnessAssumption DEF LevelOf
<1>3. LabelIsOff(i) => DevAt(i)
  BY DEF LabelIsOff, DevAt
<1>4. LabelIsOff(i) => /\ edits[Dev] = AddIteration(run[Dev].iteration)
                       /\ CurrentIteration(i) = 0 /\ run[Dev].iteration \in 1..MaxLabel
  BY <1>3, CurrentIs DEF LevelOf, LabelIsOff
<1>5. ~LabelIsOff(i) => Level(i) = CurrentIteration(i)
  BY DEF Level
<1>6. LabelIsOff(i) => Level(i) = run[Dev].iteration
  BY DEF Level
<1>7. DevAt(i) /\ ~LabelIsOff(i) => Iteration(run[Dev].iteration) \in labels[i]
  BY DEF LevelOf, LabelIsOff, DevAt
<1>8. DevAt(i) => Level(i) = run[Dev].iteration /\ run[Dev].iteration \in 1..MaxLabel
  BY <1>2, <1>5, <1>6, <1>7 DEF LevelOf
<1>9. edits[Dev] = <<>> => ~LabelIsOff(i)
  BY <1>4, EditsDiffer
<1>10. Level(i) \in Nat /\ CurrentIteration(i) <= Level(i) /\ branch[i] <= Level(i)
  BY <1>1, <1>4, <1>5, <1>6, HarnessAssumption DEF LevelOf
<1> QED BY <1>1, <1>2, <1>3, <1>4, <1>5, <1>8, <1>9, <1>10

LEMMA LevelStays ==
    ASSUME Typed, NEW i \in Issues, LevelOf(i), SameIterations(i), DevSteady(i), branch'[i] <= Level(i)
    PROVE  LevelOf(i)' /\ Level(i)' = Level(i)
<1>1. CurrentIteration(i)' = CurrentIteration(i)
  BY CurrentStays
<1>2. CASE DevKeeps
  <2>1. \A n \in 1..MaxLabel : Iteration(n) \in labels'[i] <=> Iteration(n) \in labels[i]
    BY DEF SameIterations
  <2>2. DevAt(i)' <=> DevAt(i)
    BY <1>2 DEF DevAt, DevKeeps
  <2>3. LabelIsOff(i)' <=> LabelIsOff(i)
    BY <1>2, <2>1 DEF LabelIsOff, DevKeeps, LevelOf, DevAt
  <2>4. Level(i)' = Level(i)
    BY <1>1, <1>2, <2>3 DEF Level, DevKeeps
  <2> QED BY <1>2, <2>1, <2>2, <2>4 DEF LevelOf, DevKeeps
<1>3. CASE ~DevAt(i) /\ ~DevAt(i)'
  <2>1. ~LabelIsOff(i) /\ ~LabelIsOff(i)'
    BY <1>3 DEF LabelIsOff, DevAt
  <2> QED BY <1>1, <1>3, <2>1 DEF LevelOf, SameIterations, Level
<1>4. CASE /\ edits[Dev] = <<>> /\ edits'[Dev] = <<>>
           /\ DevAt(i)' => DevAt(i) /\ run'[Dev].iteration = run[Dev].iteration
  <2>1. DevAt(i) => run[Dev].iteration \in 1..MaxLabel /\ Iteration(run[Dev].iteration) \in labels[i]
    BY <1>4, EditsDiffer DEF LevelOf
  <2>2. DevAt(i)' => run'[Dev].iteration \in 1..MaxLabel /\ Iteration(run'[Dev].iteration) \in labels'[i]
    BY <1>4, <2>1 DEF SameIterations
  <2>3. ~LabelIsOff(i) /\ ~LabelIsOff(i)'
    BY <2>1, <2>2 DEF LabelIsOff, DevAt
  <2>4. Level(i)' = Level(i)
    BY <1>1, <2>3 DEF Level
  <2>5. \A n : AddIteration(n) # <<>>
    BY EditsDiffer
  <2> QED BY <1>4, <2>2, <2>4, <2>5 DEF LevelOf, SameIterations
<1> QED BY <1>2, <1>3, <1>4 DEF DevSteady

\* The requests for an issue do not exceed one for each picker and three more.
LEMMA RequestsAre ==
    ASSUME NEW i \in Issues
    PROVE  /\ Dispatching(i) \subseteq Pickers /\ IsFiniteSet(Dispatching(i))
           /\ Cardinality(Dispatching(i)) \in Nat /\ Cardinality(Pickers) \in Nat
           /\ Cardinality(Dispatching(i)) <= Cardinality(Pickers)
           /\ Given(Preparing(i)) \in 0..1 /\ Given(Waiting(i)) \in 0..1 /\ Given(Retrying(i)) \in 0..1
<1>1. Dispatching(i) \subseteq Pickers /\ IsFiniteSet(Pickers)
  BY HarnessAssumption DEF Dispatching
<1>2. /\ IsFiniteSet(Dispatching(i)) /\ Cardinality(Dispatching(i)) \in Nat
      /\ Cardinality(Pickers) \in Nat /\ Cardinality(Dispatching(i)) <= Cardinality(Pickers)
  BY <1>1, FS_Subset, FS_CardinalityType
<1> QED BY <1>1, <1>2 DEF Given

LEMMA GivenIs ==
    \A a \in BOOLEAN : Given(a) \in 0..1 /\ (a => Given(a) = 1) /\ (~a => Given(a) = 0)
BY DEF Given

LEMMA CapStays ==
    ASSUME Typed, Typed', NEW i \in Issues, LevelOf(i), CapOf(i), Level(i)' = Level(i),
           Requests(i)' <= Requests(i), misread'[i] = misread[i]
    PROVE  CapOf(i)'
<1>1. Level(i) \in Nat /\ misread[i] \in Nat /\ MaxIterations \in Nat
  BY LevelIs, TypedNow, HarnessAssumption
<1>2. Requests(i) \in Nat /\ Cardinality(Pickers) \in Nat
  BY RequestsAre DEF Requests
<1>3. Requests(i)' \in Nat
  <2>1. /\ Cardinality(Dispatching(i)') \in Nat /\ Given(Preparing(i)') \in 0..1 /\ Given(Waiting(i)') \in 0..1
        /\ Given(Retrying(i)') \in 0..1
    <3>1. Dispatching(i)' \subseteq Pickers
      BY DEF Dispatching
    <3> QED BY <3>1, HarnessAssumption, FS_Subset, FS_CardinalityType DEF Given
  <2> QED BY <2>1 DEF Requests, Given
<1> QED BY <1>1, <1>2, <1>3 DEF CapOf

LEMMA FrameDev ==
    ASSUME NEW i \in Issues, DevPhase(i), SameJudges(i), SameVerdicts(i), branch'[i] = branch[i], DevKeeps,
           NeedsRework \in labels[i] => NeedsRework \in labels'[i]
    PROVE  DevPhase(i)'
<1>1. DevAt(i)' <=> DevAt(i)
  BY DEF DevAt, DevKeeps
<1>2. Resetting(i)' <=> Resetting(i)
  BY <1>1 DEF Resetting, DevKeeps
<1>3. Judging(i)' <=> Judging(i)
  BY DEF Judging, SameJudges, SameJob, Running
<1>4. \A s \in Stages : HasResult(i, s)' <=> HasResult(i, s)
  BY DEF HasResult, SameVerdicts, SameVerdict
<1> QED BY <1>1, <1>2, <1>3, <1>4, LabelNames DEF DevPhase, DevKeeps

LEMMA DevAwayPhase ==
    ASSUME NEW i \in Issues, ~DevAt(i)'
    PROVE  DevPhase(i)' /\ ~Resetting(i)'
BY DEF DevPhase, Resetting

LEMMA FrameJudge ==
    ASSUME NEW i \in Issues, JudgePhase(i), SameJudges(i), SameVerdicts(i), SameIterations(i),
           branch'[i] = branch[i]
    PROVE  JudgePhase(i)'
<1>1. CurrentIteration(i)' = CurrentIteration(i)
  BY CurrentStays
<1>2. /\ Judged(i)' <=> Judged(i)
      /\ Joining(i)' <=> Joining(i)
      /\ \A s \in Verifiers : Running(Verify(s, i))' <=> Running(Verify(s, i))
  BY DEF Judged, Joining, SameJudges, SameJob, Running
<1>3. \A s \in Stages : HasResult(i, s)' <=> HasResult(i, s)
  BY DEF HasResult, SameVerdicts, SameVerdict
<1>4. \A s \in Verifiers : /\ run'[Verify(s, i)] = run[Verify(s, i)]
                           /\ edits'[Verify(s, i)] = edits[Verify(s, i)]
  BY DEF SameJudges, SameJob
<1>5. run'[Finalize(i)] = run[Finalize(i)] /\ pending'[Finalize(i)] = pending[Finalize(i)]
  BY DEF SameJudges, SameJob
<1> QED BY <1>1, <1>2, <1>3, <1>4, <1>5, LabelNames DEF JudgePhase

LEMMA FrameVerdict ==
    ASSUME NEW i \in Issues, VerdictPhase(i), SameJudges(i), SameVerdicts(i),
           judged'[i] = judged[i], Resetting(i) => Resetting(i)',
           NeedsRework \in labels[i] => NeedsRework \in labels'[i]
    PROVE  VerdictPhase(i)'
<1>1. \A s \in Stages : /\ HasResult(i, s)' <=> HasResult(i, s)
                        /\ Passed(s) \in labels'[i] <=> Passed(s) \in labels[i]
                        /\ Failed(s) \in labels'[i] <=> Failed(s) \in labels[i]
  BY DEF HasResult, SameVerdicts, SameVerdict
<1>2. \A s \in Verifiers : /\ run'[Verify(s, i)] = run[Verify(s, i)]
                           /\ edits'[Verify(s, i)] = edits[Verify(s, i)]
                           /\ pending'[Verify(s, i)] = pending[Verify(s, i)]
  BY DEF SameJudges, SameJob
<1>3. run'[Finalize(i)] = run[Finalize(i)] /\ edits'[Finalize(i)] = edits[Finalize(i)]
  BY DEF SameJudges, SameJob
<1>4. \A s \in Verifiers :
        /\ pending'[Verify(s, i)] = <<>>
        /\ run'[Verify(s, i)].pc \in {"guard", "agent"} => ~HasResult(i, s)'
        /\ edits'[Verify(s, i)] = DropFailed(s) => Passed(s) \in labels'[i]
        /\ edits'[Verify(s, i)] = DropPassed(s) => Failed(s) \in labels'[i]
        /\ ~Resetting(i)' /\ Passed(s) \in labels'[i] => s \in judged'[i]
        /\ run'[Finalize(i)].pc \in {"checks", "merge"} =>
             s \in judged'[i] /\ run'[Verify(s, i)].pc \notin {"guard", "agent"}
  BY <1>1, <1>2, <1>3, LabelNames DEF VerdictPhase
<1>5. edits'[Finalize(i)] = DropMerge => NeedsRework \in labels'[i]
  BY <1>3 DEF VerdictPhase
<1> QED BY <1>4, <1>5 DEF VerdictPhase, DropFailed, DropPassed, DropMerge

\* A ticket stays held where the runs that hold it, or their requests, stay or follow one another.
LEMMA HeldStays ==
    ASSUME NEW i \in Issues, Held(i),
           SameJudges(i),
           Dispatching(i) # {} => Held(i)' \/ Dispatching(i)' # {},
           Running(Dev) /\ run[Dev].issue = i => Held(i)' \/ (Running(Dev)' /\ run'[Dev].issue = i),
           Waiting(i) => Held(i)' \/ Waiting(i)',
           edits[Feedback(i)] # <<>> => Held(i)' \/ edits'[Feedback(i)] # <<>>
    PROVE  Held(i)'
<1>1. Judging(i) => Judging(i)'
  BY DEF Judging, SameJudges, SameJob, Running
<1> QED BY <1>1 DEF Held, Running

LEMMA FramePhase ==
    ASSUME NEW i \in Issues, Phase(i), SameJudges(i), SameLabels(i), branch'[i] = branch[i],
           judged'[i] = judged[i], DevKeeps \/ (~DevAt(i)' /\ ~Resetting(i)),
           labels'[i] # {} => labels[i] # {} \/ Held(i)',
           Held(i) /\ NeedsRework \notin labels[i] => Held(i)'
    PROVE  Phase(i)'
<1>1. DevPhase(i)'
  BY FrameDev, DevAwayPhase DEF Phase, SameLabels, SameRework
<1>2. JudgePhase(i)'
  BY FrameJudge DEF Phase, SameLabels
<1>3. Resetting(i) => Resetting(i)'
  BY DEF Resetting, DevAt, DevKeeps
<1>4. VerdictPhase(i)'
  BY <1>3, FrameVerdict DEF Phase, SameLabels, SameRework
<1>5. HeldPhase(i)'
  BY DEF Phase, HeldPhase, SameLabels, SameRework, SameMerge
<1> QED BY <1>1, <1>2, <1>4, <1>5 DEF Phase

LEMMA RequestsFew ==
    ASSUME NEW i \in Issues, Dispatching(i)' = Dispatching(i), Retrying(i)' => Retrying(i),
           \/ (Preparing(i)' => Preparing(i)) /\ (Waiting(i)' => Waiting(i))
           \/ (Preparing(i)' => Waiting(i)) /\ ~Waiting(i)'
    PROVE  Requests(i)' <= Requests(i)
<1>1. Cardinality(Dispatching(i)') = Cardinality(Dispatching(i)) /\ Cardinality(Dispatching(i)) \in Nat
  BY RequestsAre
<1> QED BY <1>1 DEF Requests, Given

\* What the invariant says of one issue, and what it takes to say it of all of them again.
LEMMA InvAt ==
    ASSUME Inv
    PROVE  /\ Typed /\ JobsOK
           /\ \A i \in Issues : /\ LevelOf(i) /\ CapOf(i)
                                /\ open[i] /\ ~Disturbed(i) => Phase(i)
BY TypedNow DEF Inv, LevelInv, CapInv, PhaseInv

LEMMA InvAgain ==
    ASSUME Typed', \A i \in Issues : LevelOf(i)', \A i \in Issues : CapOf(i)',
           \A i \in Issues : open'[i] /\ ~Disturbed(i)' => Phase(i)'
    PROVE  Inv'
BY DEF Inv, LevelInv, CapInv, PhaseInv

-----------------------------------------------------------------------------
(* The queue picker.                                                        *)

LEMMA PickerStartsDoes ==
    ASSUME Typed, NEW p \in Pickers, PickerStarts(p)
    PROVE  /\ Typed' /\ History /\ Calm({}) /\ UNCHANGED <<labels, open, branch>>
           /\ \A i \in Issues : Dispatching(i)' = Dispatching(i)
<1> DEFINE j == Picker(p)
<1>0. JobsOK
  BY TypedNow
<1>1. j \in Jobs /\ run[j].pc = "idle"
  BY JobNames DEF PickerStarts, Running
<1>2. Send(Now, j, 0, 0) = Q([run EXCEPT ![j] = Started(j, 0, 0)], pending, judged, misread)
  BY <1>1, NowIs, SendIdle
<1> DEFINE R == [run EXCEPT ![j] = Started(j, 0, 0)]
<1>3. DOMAIN R = Jobs /\ R[j] = Started(j, 0, 0) /\ \A k \in Jobs \ {j} : R[k] = run[k]
  BY <1>0, <1>1 DEF JobsOK
<1> HIDE DEF R
<1>4. run' = R /\ pending' = pending /\ judged' = judged /\ misread' = misread
  BY <1>2, NowIs DEF PickerStarts, R
<1>5. UNCHANGED <<labels, open, branch, ci, edits>>
  BY DEF PickerStarts
<1>6. Calm({})
  BY <1>1, <1>3, <1>4, <1>5 DEF Calm
<1>7. Doms /\ DOMAIN edits' = Jobs
  BY <1>0, <1>3, <1>4, <1>5 DEF Doms, JobsOK
<1>8. History /\ HistoryOK
  BY <1>4, TypedNow DEF History
<1>9. StateOK
  BY <1>5, UnchangedState
<1>10. Typed'
  BY <1>6, <1>7, <1>8, <1>9, TypedStep
<1>11. NoPicker({})
  BY DEF NoPicker
<1> QED BY <1>0, <1>5, <1>6, <1>8, <1>10, <1>11, CalmJobs

\* A step of pickers alone.
LEMMA PickersOnly ==
    ASSUME Inv, Typed', NEW js, Calm(js), \A k \in js : \E p \in Pickers : k = Picker(p),
           UNCHANGED <<labels, open, branch, judged>>,
           \A i \in Issues : Dispatching(i) # {} => Dispatching(i)' # {}
    PROVE  \A i \in Issues :
             /\ LevelOf(i)' /\ Level(i)' = Level(i)
             /\ open'[i] /\ ~Disturbed(i)' => Phase(i)'
             /\ Preparing(i)' <=> Preparing(i)
             /\ Waiting(i)' <=> Waiting(i)
             /\ Retrying(i)' <=> Retrying(i)
<1> SUFFICES ASSUME NEW i \in Issues
             PROVE  /\ LevelOf(i)' /\ Level(i)' = Level(i)
                    /\ open'[i] /\ ~Disturbed(i)' => Phase(i)'
                    /\ Preparing(i)' <=> Preparing(i)
                    /\ Waiting(i)' <=> Waiting(i)
                    /\ Retrying(i)' <=> Retrying(i)
  OBVIOUS
<1>1. Dev \notin js /\ Finalize(i) \notin js /\ Feedback(i) \notin js /\ \A s \in Verifiers : Verify(s, i) \notin js
  BY JobNames, JobsDiffer
<1>2. SameJob(Dev) /\ SameJob(Feedback(i)) /\ SameJudges(i)
  BY <1>1, InvAt, CalmJobs DEF SameJudges
<1>3. SameLabels(i) /\ branch'[i] = branch[i]
  BY InvAt, UnchangedState DEF SameLabels, SameVerdicts, SameVerdict, SameIterations, SameRework, SameMerge
<1>4. DevKeeps
  BY <1>2 DEF SameJob, DevKeeps
<1>5. LevelOf(i)' /\ Level(i)' = Level(i)
  BY <1>3, <1>4, InvAt, LevelIs, LevelStays DEF SameLabels, DevSteady
<1>6. Held(i) => Held(i)'
  BY <1>2, HeldStays DEF SameJob, Waiting, Running
<1>7. open'[i] /\ ~Disturbed(i)' => Phase(i)'
  BY <1>2, <1>3, <1>4, <1>6, InvAt, FramePhase DEF Disturbed
<1>8. /\ Preparing(i)' <=> Preparing(i)
      /\ Waiting(i)' <=> Waiting(i)
      /\ Retrying(i)' <=> Retrying(i)
  BY <1>2 DEF Preparing, Waiting, Retrying, SameJudges, SameJob
<1> QED BY <1>5, <1>7, <1>8

LEMMA PickerStartsKeeps ==
    ASSUME Inv, NEW p \in Pickers, PickerStarts(p)
    PROVE  Inv'
<1>1. /\ Typed' /\ History /\ Calm({}) /\ UNCHANGED <<labels, open, branch>>
      /\ \A i \in Issues : Dispatching(i)' = Dispatching(i)
  BY InvAt, PickerStartsDoes
<1>2. \A i \in Issues :
             /\ LevelOf(i)' /\ Level(i)' = Level(i)
             /\ open'[i] /\ ~Disturbed(i)' => Phase(i)'
             /\ Preparing(i)' <=> Preparing(i)
             /\ Waiting(i)' <=> Waiting(i)
             /\ Retrying(i)' <=> Retrying(i)
  BY <1>1, PickersOnly DEF History
<1>3. ASSUME NEW i \in Issues PROVE CapOf(i)'
  <2>1. Requests(i)' <= Requests(i)
    BY <1>1, <1>2, RequestsFew
  <2> QED BY <1>1, <1>2, <2>1, InvAt, CapStays DEF History
<1> QED BY <1>1, <1>2, <1>3, InvAgain

LEMMA PickerChecksBusyDoes ==
    ASSUME Typed, NEW p \in Pickers, PickerChecksBusy(p)
    PROVE  /\ Typed' /\ History /\ Calm({Picker(p)}) /\ UNCHANGED <<labels, open, branch>>
           /\ \A i \in Issues : Dispatching(i)' = Dispatching(i)
<1> DEFINE j == Picker(p)
<1>0. JobsOK /\ j \in Jobs
  BY TypedNow, JobNames
<1>1. run[j].pc = "check" /\ edits[j] = <<>> /\ edits'[j] = <<>> /\ UNCHANGED <<labels, open, branch, ci, edits>>
  BY DEF PickerChecksBusy, At
<1>2. JobOK(j, run[j], pending[j], edits[j])
  BY <1>0 DEF JobsOK
<1>3. pending[j] = <<>> /\ run[j] \in RunRecords
  BY <1>2, PickerOK
<1>4. ASSUME Running(Dev)
      PROVE  Doms /\ History /\ Rest({j}) /\ JobNowOK(j) /\ run'[j].pc # "dispatch"
  <2>1. Becomes(End(Now, j))
    BY <1>4 DEF PickerChecksBusy
  <2>2. Doms /\ History /\ RunEnds(j) /\ Rest({j})
    BY <1>0, <2>1, EndsRun
  <2>3. JobOK(j, run'[j], pending'[j], edits'[j])
    BY <1>0, <1>1, <2>2, EndedOK
  <2>4. run'[j].pc = "idle"
    BY <1>3, <2>2, StartsOK DEF RunEnds
  <2> QED BY <2>2, <2>3, <2>4 DEF JobNowOK
<1>5. ASSUME ~Running(Dev)
      PROVE  Doms /\ History /\ Rest({j}) /\ JobNowOK(j) /\ run'[j].pc # "dispatch"
  <2>1. Becomes(Goto(Now, j, "pick")) /\ "pick" \in AllSteps
    BY <1>5 DEF PickerChecksBusy, AllSteps
  <2>2. Doms /\ History /\ RunGoes(j, "pick") /\ Rest({j})
    BY <1>0, <2>1, GoesTo
  <2>3. /\ run'[j] \in RunRecords /\ run'[j].pc \in {"idle", "check", "pick", "dispatch"} /\ pending'[j] = <<>>
        /\ run'[j].pc = "pick"
    BY <1>3, <2>2 DEF RunGoes
  <2>4. JobOK(j, run'[j], pending'[j], edits'[j])
    BY <1>1, <2>3, PickerOK
  <2> QED BY <2>2, <2>3, <2>4 DEF JobNowOK
<1>6. /\ Doms /\ History /\ Rest({j}) /\ JobNowOK(j)
      /\ run'[j].pc # "dispatch" /\ run[j].pc # "dispatch"
  BY <1>1, <1>4, <1>5
<1>7. DOMAIN edits' = Jobs /\ edits' = edits
  BY <1>0, <1>1 DEF JobsOK
<1>8. Calm({j})
  BY <1>6, <1>7, CalmFromRest
<1>9. Typed'
  BY <1>1, <1>6, <1>7, <1>8, TypedStep, TypedNow, UnchangedState
<1>10. ASSUME NEW i \in Issues PROVE Dispatching(i)' = Dispatching(i)
  <2>1. ASSUME NEW x \in Pickers
        PROVE  run'[Picker(x)].pc = "dispatch" /\ run'[Picker(x)].issue = i
                 <=> run[Picker(x)].pc = "dispatch" /\ run[Picker(x)].issue = i
    BY <1>6, JobNames, JobsDiffer DEF Rest
  <2> QED BY <2>1 DEF Dispatching
<1> QED BY <1>1, <1>6, <1>8, <1>9, <1>10

LEMMA PickerChecksBusyKeeps ==
    ASSUME Inv, NEW p \in Pickers, PickerChecksBusy(p)
    PROVE  Inv'
<1>1. /\ Typed' /\ History /\ Calm({Picker(p)}) /\ UNCHANGED <<labels, open, branch>>
      /\ \A i \in Issues : Dispatching(i)' = Dispatching(i)
  BY InvAt, PickerChecksBusyDoes
<1>2. \A i \in Issues :
             /\ LevelOf(i)' /\ Level(i)' = Level(i)
             /\ open'[i] /\ ~Disturbed(i)' => Phase(i)'
             /\ Preparing(i)' <=> Preparing(i)
             /\ Waiting(i)' <=> Waiting(i)
             /\ Retrying(i)' <=> Retrying(i)
  BY <1>1, PickersOnly DEF History
<1>3. ASSUME NEW i \in Issues PROVE CapOf(i)'
  <2>1. Requests(i)' <= Requests(i)
    BY <1>1, <1>2, RequestsFew
  <2> QED BY <1>1, <1>2, <2>1, InvAt, CapStays DEF History
<1> QED BY <1>1, <1>2, <1>3, InvAgain

LEMMA PickIs ==
    ASSUME JobsOK, NEW p \in Pickers, NEW i \in Issues,
           Becomes([Misread(Goto(Now, Picker(p), "dispatch"), i) EXCEPT !.run[Picker(p)].issue = i])
    PROVE  /\ Doms /\ judged' = judged
           /\ run'[Picker(p)].pc = "dispatch" /\ run'[Picker(p)].issue = i
           /\ run'[Picker(p)] \in RunRecords /\ pending' = pending /\ Rest({Picker(p)})
           /\ LabelIsOff(i) /\ run[Dev].iteration > MaxIterations => misread' = [misread EXCEPT ![i] = @ + 1]
           /\ ~(LabelIsOff(i) /\ run[Dev].iteration > MaxIterations) => misread' = misread
<1> DEFINE j == Picker(p)
           R == [run EXCEPT ![j].pc = "dispatch"]
           R2 == [R EXCEPT ![j].issue = i]
           M == IF LabelIsOff(i) /\ run[Dev].iteration > MaxIterations
                THEN [misread EXCEPT ![i] = @ + 1] ELSE misread
<1>0. j \in Jobs /\ DOMAIN run = Jobs /\ run[j] \in RunRecords
  BY JobNames, RecordAt
<1>1. Goto(Now, j, "dispatch") = Q(R, pending, judged, misread)
  BY GotoIs, NowIs
<1>2. /\ DOMAIN R = Jobs /\ R[j] \in RunRecords /\ R[j].pc = "dispatch"
      /\ \A k \in Jobs \ {j} : R[k] = run[k]
  BY <1>0 DEF RunRecords, AllSteps
<1> HIDE DEF R
<1>3. Misread(Q(R, pending, judged, misread), i) = Q(R, pending, judged, M)
  <2>1. CASE LabelIsOff(i) /\ run[Dev].iteration > MaxIterations
    BY <2>1 DEF Misread, Q
  <2>2. CASE ~(LabelIsOff(i) /\ run[Dev].iteration > MaxIterations)
    BY <2>2 DEF Misread, Q
  <2> QED BY <2>1, <2>2
<1>4. /\ LabelIsOff(i) /\ run[Dev].iteration > MaxIterations => M = [misread EXCEPT ![i] = @ + 1]
      /\ ~(LabelIsOff(i) /\ run[Dev].iteration > MaxIterations) => M = misread
  OBVIOUS
<1> HIDE DEF M
<1>5. [Q(R, pending, judged, M) EXCEPT !.run[j].issue = i] = Q([R EXCEPT ![j].issue = i], pending, judged, M)
  BY DEF Q
<1>6. /\ DOMAIN R2 = Jobs /\ R2[j] \in RunRecords /\ R2[j].pc = "dispatch" /\ R2[j].issue = i
      /\ \A k \in Jobs \ {j} : R2[k] = run[k]
  BY <1>0, <1>2 DEF RunRecords
<1> HIDE DEF j
<1>7. Becomes(Q(R2, pending, judged, M))
  BY <1>1, <1>3, <1>5 DEF j
<1> HIDE DEF R2
<1>8. run' = R2 /\ pending' = pending /\ judged' = judged /\ misread' = M
  BY <1>7, NowIs
<1> QED BY <1>0, <1>4, <1>6, <1>8, RecordAt DEF Doms, Rest, j

\* A picker that finds nothing ends; one that picks issue i dispatches it, and is
\* mistaken for sure only where it counts as misread.
LEMMA PickerPicksDoes ==
    ASSUME Typed, NEW p \in Pickers, PickerPicks(p)
    PROVE  /\ Typed' /\ judged' = judged /\ Calm({Picker(p)}) /\ UNCHANGED <<labels, open, branch>>
           /\ \/ misread' = misread /\ \A i \in Issues : Dispatching(i)' = Dispatching(i)
              \/ \E i \in Issues :
                   /\ i \in Eligible /\ p \notin Dispatching(i)
                   /\ Dispatching(i)' = Dispatching(i) \union {p}
                   /\ \A k \in Issues \ {i} :
                        Dispatching(k)' = Dispatching(k) /\ misread'[k] = misread[k]
                   /\ LabelIsOff(i) /\ run[Dev].iteration > MaxIterations => misread'[i] = misread[i] + 1
                   /\ ~(LabelIsOff(i) /\ run[Dev].iteration > MaxIterations) => misread'[i] = misread[i]
<1> DEFINE j == Picker(p)
<1>0. JobsOK /\ j \in Jobs /\ misread \in [Issues -> Nat] /\ DOMAIN edits = Jobs
  BY TypedNow, JobNames DEF JobsOK
<1>1. run[j].pc = "pick" /\ edits[j] = <<>> /\ UNCHANGED <<labels, open, branch, ci>>
  BY DEF PickerPicks, At
<1>2. JobOK(j, run[j], pending[j], edits[j])
  BY <1>0 DEF JobsOK
<1>3. pending[j] = <<>> /\ run[j] \in RunRecords
  BY <1>2, PickerOK
<1>4. CASE Eligible = {} /\ Becomes(End(Now, j)) /\ UNCHANGED edits
  <2>1. Doms /\ History /\ RunEnds(j) /\ Rest({j})
    BY <1>0, <1>4, EndsRun
  <2>2. JobOK(j, run'[j], pending'[j], edits'[j])
    BY <1>0, <1>1, <1>4, <2>1, EndedOK
  <2>3. run'[j].pc # "dispatch"
    BY <1>3, <2>1, StartsOK DEF RunEnds
  <2>4. Calm({j}) /\ DOMAIN edits' = Jobs
    BY <1>0, <1>4, <2>1, CalmFromRest
  <2>5. Typed'
    BY <1>1, <2>1, <2>2, <2>4, TypedStep, TypedNow, UnchangedState DEF JobNowOK
  <2>6. ASSUME NEW i \in Issues PROVE Dispatching(i)' = Dispatching(i)
    <3>1. ASSUME NEW x \in Pickers
          PROVE  run'[Picker(x)].pc = "dispatch" /\ run'[Picker(x)].issue = i
                   <=> run[Picker(x)].pc = "dispatch" /\ run[Picker(x)].issue = i
      BY <1>1, <2>1, <2>3, JobNames, JobsDiffer DEF Rest
    <3> QED BY <3>1 DEF Dispatching
  <2> QED BY <1>1, <2>1, <2>4, <2>5, <2>6 DEF History
<1>5. ASSUME NEW i \in Issues, NextIssue(i),
             Becomes([Misread(Goto(Now, j, "dispatch"), i) EXCEPT !.run[j].issue = i]),
             edits' = [edits EXCEPT ![j] = <<Add(ReadyForDev)>>]
      PROVE  /\ Typed' /\ judged' = judged /\ Calm({j})
             /\ i \in Eligible /\ p \notin Dispatching(i)
             /\ Dispatching(i)' = Dispatching(i) \union {p}
             /\ \A k \in Issues \ {i} : Dispatching(k)' = Dispatching(k) /\ misread'[k] = misread[k]
             /\ LabelIsOff(i) /\ run[Dev].iteration > MaxIterations => misread'[i] = misread[i] + 1
             /\ ~(LabelIsOff(i) /\ run[Dev].iteration > MaxIterations) => misread'[i] = misread[i]
  <2>1. /\ Doms /\ judged' = judged
        /\ run'[j].pc = "dispatch" /\ run'[j].issue = i
        /\ run'[j] \in RunRecords /\ pending' = pending /\ Rest({j})
        /\ LabelIsOff(i) /\ run[Dev].iteration > MaxIterations => misread' = [misread EXCEPT ![i] = @ + 1]
        /\ ~(LabelIsOff(i) /\ run[Dev].iteration > MaxIterations) => misread' = misread
    BY <1>0, <1>5, PickIs
  <2>2. /\ DOMAIN edits' = Jobs /\ edits'[j] = AddReady
        /\ \A k \in Jobs \ {j} : edits'[k] = edits[k]
    BY <1>0, <1>5 DEF AddReady
  <2>3. Calm({j})
    BY <2>1, <2>2, CalmFromRest
  <2>4. JobOK(j, run'[j], pending'[j], edits'[j])
    BY <1>3, <2>1, <2>2, PickerOK
  <2>5. /\ misread' \in [Issues -> Nat] /\ \A k \in Issues \ {i} : misread'[k] = misread[k]
        /\ LabelIsOff(i) /\ run[Dev].iteration > MaxIterations => misread'[i] = misread[i] + 1
        /\ ~(LabelIsOff(i) /\ run[Dev].iteration > MaxIterations) => misread'[i] = misread[i]
    BY <1>0, <2>1
  <2>6. HistoryOK
    BY <2>1, <2>5, TypedNow DEF HistoryOK
  <2>7. Typed'
    BY <1>1, <2>1, <2>2, <2>3, <2>4, <2>6, TypedStep, UnchangedState DEF JobNowOK
  <2>8. ASSUME NEW k \in Issues, NEW x \in Pickers
        PROVE  run'[Picker(x)].pc = "dispatch" /\ run'[Picker(x)].issue = k
                 <=> (run[Picker(x)].pc = "dispatch" /\ run[Picker(x)].issue = k) \/ (x = p /\ k = i)
    BY <1>1, <2>1, JobNames, JobsDiffer DEF Rest
  <2>9. p \notin Dispatching(i)
    BY <1>1 DEF Dispatching
  <2>10. Dispatching(i)' = Dispatching(i) \union {p} /\ \A k \in Issues \ {i} : Dispatching(k)' = Dispatching(k)
    BY <2>8 DEF Dispatching
  <2>11. i \in Eligible
    BY <1>5 DEF NextIssue
  <2> QED BY <2>1, <2>3, <2>5, <2>7, <2>9, <2>10, <2>11
<1> QED BY <1>1, <1>4, <1>5 DEF PickerPicks

\* A ticket that a picker takes is below the cap, is put at it by Dev just now, or is misread.
LEMMA PickedIsBelow ==
    ASSUME Typed, NEW i \in Issues, LevelOf(i), i \in Eligible,
           ~(LabelIsOff(i) /\ run[Dev].iteration > MaxIterations)
    PROVE  Level(i) < MaxIterations \/ (Level(i) <= MaxIterations /\ ~Preparing(i))
<1>0. MaxIterations \in Nat \ {0} /\ run[Dev].iteration \in Nat
  BY HarnessAssumption, TypedNow, JobNames, RecordAt DEF RunRecords
<1>1. CASE LabelIsOff(i)
  BY <1>0, <1>1, LevelIs DEF DevAt, Preparing
<1>2. CASE ~LabelIsOff(i)
  <2>1. Level(i) = CurrentIteration(i)
    BY <1>2, LevelIs
  <2>2. Untouched(i) => CurrentIteration(i) = 0
    BY CurrentIs DEF Untouched
  <2> QED BY <1>0, <2>1, <2>2 DEF Eligible, Retryable
<1> QED BY <1>1, <1>2

LEMMA PickerPicksKeeps ==
    ASSUME Inv, NEW p \in Pickers, PickerPicks(p)
    PROVE  Inv'
<1>1. /\ Typed' /\ judged' = judged /\ Calm({Picker(p)}) /\ UNCHANGED <<labels, open, branch>>
      /\ \/ misread' = misread /\ \A i \in Issues : Dispatching(i)' = Dispatching(i)
         \/ \E i \in Issues :
              /\ i \in Eligible /\ p \notin Dispatching(i)
              /\ Dispatching(i)' = Dispatching(i) \union {p}
              /\ \A k \in Issues \ {i} :
                   Dispatching(k)' = Dispatching(k) /\ misread'[k] = misread[k]
              /\ LabelIsOff(i) /\ run[Dev].iteration > MaxIterations => misread'[i] = misread[i] + 1
              /\ ~(LabelIsOff(i) /\ run[Dev].iteration > MaxIterations) => misread'[i] = misread[i]
  BY InvAt, PickerPicksDoes
<1>2. \A i \in Issues : Dispatching(i) # {} => Dispatching(i)' # {}
  BY <1>1
<1>3. \A i \in Issues :
             /\ LevelOf(i)' /\ Level(i)' = Level(i)
             /\ open'[i] /\ ~Disturbed(i)' => Phase(i)'
             /\ Preparing(i)' <=> Preparing(i)
             /\ Waiting(i)' <=> Waiting(i)
             /\ Retrying(i)' <=> Retrying(i)
  BY <1>1, <1>2, PickersOnly
<1>4. ASSUME NEW k \in Issues, Dispatching(k)' = Dispatching(k), misread'[k] = misread[k] PROVE CapOf(k)'
  <2>1. Requests(k)' <= Requests(k)
    BY <1>3, <1>4, RequestsFew
  <2> QED BY <1>1, <1>3, <1>4, <2>1, InvAt, CapStays
<1>5. ASSUME NEW i \in Issues, i \in Eligible, p \notin Dispatching(i),
             Dispatching(i)' = Dispatching(i) \union {p},
             LabelIsOff(i) /\ run[Dev].iteration > MaxIterations => misread'[i] = misread[i] + 1,
             ~(LabelIsOff(i) /\ run[Dev].iteration > MaxIterations) => misread'[i] = misread[i]
      PROVE  CapOf(i)'
  <2>1. /\ Cardinality(Dispatching(i)') = Cardinality(Dispatching(i)) + 1
        /\ Cardinality(Dispatching(i)) \in Nat /\ Cardinality(Pickers) \in Nat
    BY <1>5, RequestsAre, FS_AddElement
  <2>2. Cardinality(Dispatching(i)') <= Cardinality(Pickers)
    BY <1>5, RequestsAre, HarnessAssumption, FS_Subset
  <2>3. Level(i) \in Nat /\ misread[i] \in Nat /\ MaxIterations \in Nat
    BY InvAt, LevelIs, TypedNow, HarnessAssumption
  <2>4. Given(Preparing(i)) \in 0..1 /\ Given(Waiting(i)) \in 0..1 /\ Given(Retrying(i)) \in 0..1
    BY RequestsAre
  <2>5. Requests(i)' = Cardinality(Dispatching(i)) + 1
                       + Given(Preparing(i)) + Given(Waiting(i)) + Given(Retrying(i))
    BY <1>3, <2>1 DEF Requests, Given
  <2>6. CASE LabelIsOff(i) /\ run[Dev].iteration > MaxIterations
    BY <1>3, <1>5, <2>1, <2>3, <2>4, <2>5, <2>6, InvAt DEF CapOf, Requests
  <2>7. CASE ~(LabelIsOff(i) /\ run[Dev].iteration > MaxIterations)
    <3>1. Level(i) < MaxIterations \/ (Level(i) <= MaxIterations /\ ~Preparing(i))
      BY <1>5, <2>7, InvAt, PickedIsBelow
    <3>2. ~Preparing(i) => Given(Preparing(i)) = 0
      BY DEF Given
    <3> QED BY <1>3, <1>5, <2>1, <2>2, <2>3, <2>4, <2>5, <2>7, <3>1, <3>2 DEF CapOf
  <2> QED BY <2>6, <2>7
<1> QED BY <1>1, <1>3, <1>4, <1>5, InvAgain

-----------------------------------------------------------------------------
(* Asking for another Dev run.                                              *)

LEMMA AskDevDoes ==
    ASSUME Typed, NEW j \in Jobs, j # Dev, NEW i \in Issues, edits[j] = <<>>,
           UNCHANGED <<labels, open, branch, ci, edits>>, Becomes(End(Send(Now, Dev, i, 0), j))
    PROVE  /\ Typed' /\ Calm({j, Dev}) /\ RunEnds(j) /\ Rest({j, Dev}) /\ misread' = misread
           /\ ~Running(Dev) => run'[Dev] = Started(Dev, i, 0) /\ pending'[Dev] = <<>>
           /\ Running(Dev) => run'[Dev] = run[Dev] /\ pending'[Dev] = <<i, 0>>
           /\ \A k \in Issues : judged'[k] = judged[k] \/ (k # i /\ Disturbed(k)')
           /\ \A k \in Issues : Waiting(k) /\ k # i => Disturbed(k)'
<1>0. JobsOK /\ Dev \in Jobs /\ DOMAIN edits' = Jobs /\ DOMAIN judged = Issues
  BY TypedNow, JobNames DEF JobsOK
<1>1. /\ Doms /\ RunEnds(j) /\ RunAsked(Dev, i, 0) /\ Rest({j, Dev}) /\ misread' = misread
      /\ ~Running(Dev) \/ pending[Dev] = <<>> \/ pending[Dev][1] = i => judged' = judged
      /\ Running(Dev) /\ pending[Dev] # <<>> /\ pending[Dev][1] # i =>
           judged' = [judged EXCEPT ![pending[Dev][1]] = {"disturbed"}]
  BY <1>0, SendEnds
<1>2. JobOK(Dev, run[Dev], pending[Dev], edits[Dev])
  BY <1>0 DEF JobsOK
<1>3. /\ ~Running(Dev) => pending[Dev] = <<>> /\ edits[Dev] = <<>>
      /\ pending[Dev] = <<>> \/ pending[Dev] \in Issues \X Nat
  BY <1>2, DevOK DEF Running
<1>4. JobOK(j, run'[j], pending'[j], edits'[j])
  BY <1>0, <1>1, EndedOK
<1>5. JobOK(Dev, run'[Dev], pending'[Dev], edits'[Dev])
  <2>1. CASE Running(Dev)
    <3>1. run'[Dev] = run[Dev] /\ pending'[Dev] = <<i, 0>> /\ run[Dev].pc # "idle"
      BY <1>1, <2>1 DEF RunAsked, Running
    <3>2. <<i, 0>> \in Issues \X Nat
      OBVIOUS
    <3> QED BY <1>2, <3>1, <3>2, DevOK
  <2>2. CASE ~Running(Dev)
    <3>1. run'[Dev] = Started(Dev, i, 0) /\ pending'[Dev] = <<>> /\ edits'[Dev] = <<>>
      BY <1>1, <1>3, <2>2 DEF RunAsked
    <3> QED BY <3>1, DevOK, StartsOK
  <2> QED BY <2>1, <2>2
<1>6. Calm({j, Dev})
  BY <1>0, <1>1, CalmFromRest
<1>7. /\ \A k \in Issues : judged'[k] = judged[k] \/ (k # i /\ judged'[k] = {"disturbed"})
      /\ \A k \in Issues : Waiting(k) /\ k # i => judged'[k] = {"disturbed"}
      /\ DOMAIN judged' = Issues
  BY <1>0, <1>1, <1>3 DEF Waiting, RunAsked
<1>8. HistoryOK
  BY <1>1, <1>7, TypedNow DEF HistoryOK
<1>9. StateOK
  BY UnchangedState
<1>10. Typed'
  BY <1>0, <1>1, <1>4, <1>5, <1>6, <1>8, <1>9, TypedStep DEF JobNowOK
<1> QED BY <1>1, <1>3, <1>6, <1>7, <1>10 DEF RunAsked, Disturbed

\* The level stays, and the only issue asked for more is i, by one.
LEMMA AskDevKeeps ==
    ASSUME Inv, NEW j \in Jobs, j # Dev, NEW i \in Issues, edits[j] = <<>>,
           UNCHANGED <<labels, open, branch, ci, edits>>, Becomes(End(Send(Now, Dev, i, 0), j))
    PROVE  \A k \in Issues :
             /\ LevelOf(k)' /\ Level(k)' = Level(k)
             /\ DevKeeps \/ (~DevAt(k)' /\ ~Resetting(k))
             /\ Running(Dev) /\ run[Dev].issue = k => Running(Dev)' /\ run'[Dev].issue = k
             /\ Waiting(k) => Waiting(k)' \/ Disturbed(k)'
             /\ k # i => (Preparing(k)' => Preparing(k)) /\ (Waiting(k)' => Waiting(k))
             /\ Given(Preparing(i)') + Given(Waiting(i)') <= Given(Preparing(i)) + Given(Waiting(i)) + 1
             /\ (Running(Dev)' /\ run'[Dev].issue = i) \/ Waiting(i)'
             /\ SameLabels(k) /\ branch'[k] = branch[k] /\ edits'[Feedback(k)] = edits[Feedback(k)]
             /\ labels'[k] = labels[k]
<1>0. Typed /\ Typed' /\ JobOK(Dev, run[Dev], pending[Dev], edits[Dev])
  BY InvAt, JobNames, AskDevDoes DEF JobsOK
<1>1. /\ ~Running(Dev) => run'[Dev] = Started(Dev, i, 0) /\ pending'[Dev] = <<>>
      /\ Running(Dev) => run'[Dev] = run[Dev] /\ pending'[Dev] = <<i, 0>>
      /\ \A k \in Issues : Waiting(k) /\ k # i => Disturbed(k)'
      /\ edits' = edits
  BY <1>0, AskDevDoes
<1>2. /\ Started(Dev, i, 0).pc = "prepare" /\ Started(Dev, i, 0).issue = i
      /\ ~Running(Dev) => run[Dev].pc = "idle" /\ edits[Dev] = <<>> /\ pending[Dev] = <<>>
  <2>1. Started(Dev, i, 0).pc = "prepare" /\ Started(Dev, i, 0).issue = i
    BY StartsOK
  <2>2. ~Running(Dev) => run[Dev].pc = "idle" /\ edits[Dev] = <<>> /\ pending[Dev] = <<>>
    BY <1>0, DevOK DEF Running
  <2> QED BY <2>1, <2>2
<1> SUFFICES ASSUME NEW k \in Issues
             PROVE  /\ LevelOf(k)' /\ Level(k)' = Level(k)
                    /\ DevKeeps \/ (~DevAt(k)' /\ ~Resetting(k))
                    /\ Running(Dev) /\ run[Dev].issue = k => Running(Dev)' /\ run'[Dev].issue = k
                    /\ Waiting(k) => Waiting(k)' \/ Disturbed(k)'
                    /\ k # i => (Preparing(k)' => Preparing(k)) /\ (Waiting(k)' => Waiting(k))
                    /\ Given(Preparing(i)') + Given(Waiting(i)') <= Given(Preparing(i)) + Given(Waiting(i)) + 1
                    /\ (Running(Dev)' /\ run'[Dev].issue = i) \/ Waiting(i)'
                    /\ SameLabels(k) /\ branch'[k] = branch[k] /\ edits'[Feedback(k)] = edits[Feedback(k)]
                    /\ labels'[k] = labels[k]
  OBVIOUS
<1>3. SameLabels(k) /\ branch'[k] = branch[k]
  BY <1>0, UnchangedState DEF SameLabels
<1>4. DevKeeps \/ (~DevAt(k)' /\ ~DevAt(k) /\ ~Resetting(k))
  BY <1>1, <1>2 DEF DevKeeps, DevAt, Resetting
<1>5. LevelOf(k)' /\ Level(k)' = Level(k)
  BY <1>0, <1>3, <1>4, InvAt, LevelIs, LevelStays DEF SameLabels, DevSteady
<1>6. <<i, 0>> # <<>> /\ <<i, 0>>[1] = i
  OBVIOUS
<1>7. CASE Running(Dev)
  <2>1. /\ run'[Dev] = run[Dev] /\ pending'[Dev] = <<i, 0>> /\ Running(Dev)'
        /\ Waiting(i)' /\ \A x : Waiting(x)' => x = i
        /\ \A x : Preparing(x)' <=> Preparing(x)
    BY <1>1, <1>6, <1>7 DEF Running, Waiting, Preparing
  <2>2. Given(Preparing(i)') + Given(Waiting(i)') <= Given(Preparing(i)) + Given(Waiting(i)) + 1
    BY <2>1 DEF Given
  <2> QED BY <1>1, <1>3, <1>4, <1>5, <1>7, <2>1, <2>2
<1>8. CASE ~Running(Dev)
  <2>1. /\ Running(Dev)' /\ run'[Dev].issue = i /\ \A x : ~Waiting(x)' /\ ~Waiting(x)
        /\ \A x : Preparing(x)' => x = i
    BY <1>1, <1>2, <1>8 DEF Running, Waiting, Preparing
  <2>2. Given(Preparing(i)') + Given(Waiting(i)') <= Given(Preparing(i)) + Given(Waiting(i)) + 1
    BY <2>1 DEF Given
  <2> QED BY <1>1, <1>3, <1>4, <1>5, <1>8, <2>1, <2>2
<1> QED BY <1>7, <1>8

LEMMA PickerDispatchesKeeps ==
    ASSUME Inv, NEW p \in Pickers, PickerDispatches(p)
    PROVE  Inv'
<1> DEFINE j == Picker(p)
<1>0. Typed /\ JobsOK /\ j \in Jobs /\ j # Dev /\ JobOK(j, run[j], pending[j], edits[j])
  BY InvAt, JobNames DEF JobsOK
<1>a. /\ run[j].pc = "dispatch" /\ edits[j] = <<>>
      /\ UNCHANGED <<labels, open, branch, ci, edits>> /\ Becomes(End(Send(Now, Dev, run[j].issue, 0), j))
  BY DEF PickerDispatches, At
<1>b. run[j].issue \in Issues /\ pending[j] = <<>>
  BY <1>0, <1>a, PickerOK
<1>c. PICK i \in Issues : i = run[j].issue
  BY <1>b
<1>1. /\ run[j].pc = "dispatch" /\ run[j].issue = i /\ edits[j] = <<>>
      /\ UNCHANGED <<labels, open, branch, ci, edits>> /\ Becomes(End(Send(Now, Dev, i, 0), j))
  BY <1>a, <1>c
<1>2. i \in Issues /\ pending[j] = <<>>
  BY <1>b
<1>3. /\ Typed' /\ Calm({j, Dev}) /\ RunEnds(j) /\ Rest({j, Dev}) /\ misread' = misread
      /\ \A k \in Issues : judged'[k] = judged[k] \/ (k # i /\ Disturbed(k)')
  BY <1>0, <1>1, <1>2, AskDevDoes
<1>4. \A k \in Issues :
        /\ LevelOf(k)' /\ Level(k)' = Level(k)
        /\ DevKeeps \/ (~DevAt(k)' /\ ~Resetting(k))
        /\ Running(Dev) /\ run[Dev].issue = k => Running(Dev)' /\ run'[Dev].issue = k
        /\ Waiting(k) => Waiting(k)' \/ Disturbed(k)'
        /\ k # i => (Preparing(k)' => Preparing(k)) /\ (Waiting(k)' => Waiting(k))
        /\ Given(Preparing(i)') + Given(Waiting(i)') <= Given(Preparing(i)) + Given(Waiting(i)) + 1
        /\ (Running(Dev)' /\ run'[Dev].issue = i) \/ Waiting(i)'
        /\ SameLabels(k) /\ branch'[k] = branch[k] /\ edits'[Feedback(k)] = edits[Feedback(k)]
        /\ labels'[k] = labels[k]
  BY <1>0, <1>1, <1>2, AskDevKeeps
<1>5. run'[j].pc # "dispatch"
  BY <1>2, <1>3, StartsOK DEF RunEnds
<1>6. ASSUME NEW k \in Issues
      PROVE  /\ k # i => Dispatching(k)' = Dispatching(k)
             /\ Dispatching(i)' = Dispatching(i) \ {p} /\ p \in Dispatching(i)
  <2>1. ASSUME NEW l \in Issues, NEW x \in Pickers
        PROVE  run'[Picker(x)].pc = "dispatch" /\ run'[Picker(x)].issue = l
                 <=> (run[Picker(x)].pc = "dispatch" /\ run[Picker(x)].issue = l) /\ x # p
    BY <1>3, <1>5, JobNames, JobsDiffer DEF Rest
  <2>2. Dispatching(i)' = Dispatching(i) \ {p}
    BY <1>2, <2>1 DEF Dispatching
  <2>3. k # i => Dispatching(k)' = Dispatching(k)
    BY <1>1, <2>1 DEF Dispatching
  <2>4. p \in Dispatching(i)
    BY <1>1 DEF Dispatching
  <2> QED BY <2>2, <2>3, <2>4
<1>7. ASSUME NEW k \in Issues PROVE SameJudges(k) /\ (Retrying(k)' <=> Retrying(k))
  <2>1. Finalize(k) \notin {j, Dev} /\ \A s \in Verifiers : Verify(s, k) \notin {j, Dev}
    BY JobNames, JobsDiffer
  <2>2. SameJudges(k)
    BY <1>0, <1>3, <2>1, CalmJobs DEF SameJudges
  <2> QED BY <2>2 DEF SameJudges, SameJob, Retrying
<1>8. ASSUME NEW k \in Issues PROVE CapOf(k)'
  <2>1. CASE k # i
    <3>1. Requests(k)' <= Requests(k)
      BY <1>4, <1>6, <1>7, <2>1, RequestsFew
    <3> QED BY <1>0, <1>3, <1>4, <3>1, InvAt, CapStays
  <2>2. CASE k = i
    <3>1. Cardinality(Dispatching(i)') = Cardinality(Dispatching(i)) - 1
      BY <1>2, <1>6, RequestsAre, FS_RemoveElement
    <3>2. Given(Retrying(i)') = Given(Retrying(i))
      BY <1>2, <1>7 DEF Given
    <3>3. /\ Cardinality(Dispatching(i)) \in Nat
          /\ Given(Preparing(i)) \in 0..1 /\ Given(Waiting(i)) \in 0..1 /\ Given(Retrying(i)) \in 0..1
      BY <1>2, RequestsAre
    <3>4. Given(Preparing(i)') \in 0..1 /\ Given(Waiting(i)') \in 0..1
      BY DEF Given
    <3>5. Given(Preparing(i)') + Given(Waiting(i)') <= Given(Preparing(i)) + Given(Waiting(i)) + 1
      BY <1>2, <1>4
    <3>6. /\ Requests(i)' = Cardinality(Dispatching(i)') + Given(Preparing(i)') + Given(Waiting(i)') + Given(Retrying(i)')
          /\ Requests(i) = Cardinality(Dispatching(i)) + Given(Preparing(i)) + Given(Waiting(i)) + Given(Retrying(i))
      BY DEF Requests, Given
    <3>7. Requests(i)' <= Requests(i)
      BY <3>1, <3>2, <3>3, <3>4, <3>5, <3>6
    <3> QED BY <1>0, <1>2, <1>3, <1>4, <2>2, <3>7, InvAt, CapStays
  <2> QED BY <2>1, <2>2
<1>9. ASSUME NEW k \in Issues, open'[k], ~Disturbed(k)' PROVE Phase(k)'
  <2>1. judged'[k] = judged[k] /\ open[k] /\ ~Disturbed(k)
    BY <1>1, <1>3, <1>9 DEF Disturbed
  <2>2. Held(k) => Held(k)'
    <3>1. Dispatching(k) # {} => Held(k)' \/ Dispatching(k)' # {}
      BY <1>4, <1>6 DEF Held
    <3> QED BY <1>4, <1>7, <1>9, <3>1, HeldStays
  <2> QED BY <1>4, <1>7, <2>1, <2>2, InvAt, FramePhase
<1> QED BY <1>3, <1>4, <1>8, <1>9, InvAgain

-----------------------------------------------------------------------------
(* Steps of those who judge one issue.                                      *)

JobsOf(i) == {Finalize(i), Feedback(i)} \union {Verify(s, i) : s \in Verifiers}

\* A step of jobs of issue i, of which only what it does to that issue is to be shown.
LEMMA JudgeStep ==
    ASSUME Inv, Typed', NEW i \in Issues, NEW js, js \subseteq JobsOf(i), Calm(js), Elsewhere(i),
           misread'[i] = misread[i], \A k \in Issues \ {i} : judged'[k] = judged[k],
           SameIterations(i), branch'[i] <= branch[i],
           Retrying(i)' => Retrying(i) \/ Level(i) < MaxIterations,
           open'[i] /\ ~Disturbed(i)' => Phase(i)'
    PROVE  Inv'
<1>0. Typed /\ JobsOK
  BY InvAt
<1>1. /\ Dev \notin js /\ NoPicker(js)
      /\ \A k \in Issues \ {i} : /\ Finalize(k) \notin js /\ Feedback(k) \notin js
                                 /\ \A s \in Verifiers : Verify(s, k) \notin js
  BY JobNames, JobsDiffer DEF JobsOf, NoPicker
<1>2. SameJob(Dev) /\ DevKeeps /\ \A k \in Issues : Dispatching(k)' = Dispatching(k)
  BY <1>0, <1>1, CalmJobs DEF SameJob, DevKeeps
<1>3. \A k \in Issues : (Preparing(k)' <=> Preparing(k)) /\ (Waiting(k)' <=> Waiting(k))
  BY <1>2 DEF SameJob, Preparing, Waiting
<1>4. ASSUME NEW k \in Issues \ {i}
      PROVE  LevelOf(k)' /\ CapOf(k)' /\ (open'[k] /\ ~Disturbed(k)' => Phase(k)')
  <2>1. /\ SameJob(Feedback(k)) /\ SameJudges(k)
        /\ labels'[k] = labels[k] /\ open'[k] = open[k] /\ branch'[k] = branch[k] /\ misread'[k] = misread[k]
    BY <1>0, <1>1, CalmJobs DEF SameJudges, Elsewhere
  <2>2. SameLabels(k)
    BY <2>1 DEF SameLabels, SameVerdicts, SameVerdict, SameIterations, SameRework, SameMerge
  <2>3. LevelOf(k)' /\ Level(k)' = Level(k)
    BY <1>2, <2>1, <2>2, InvAt, LevelIs, LevelStays DEF SameLabels, DevSteady
  <2>4. Requests(k)' <= Requests(k)
    BY <1>2, <1>3, <2>1, RequestsFew DEF SameJudges, SameJob, Retrying
  <2>5. CapOf(k)'
    BY <2>1, <2>3, <2>4, InvAt, CapStays
  <2>6. Held(k) => Held(k)'
    BY <1>2, <1>3, <2>1, HeldStays DEF SameJob, Running
  <2>7. open'[k] /\ ~Disturbed(k)' => Phase(k)'
    BY <1>2, <2>1, <2>2, <2>6, InvAt, FramePhase DEF Disturbed
  <2> QED BY <2>3, <2>5, <2>7
<1>5. LevelOf(i)' /\ Level(i)' = Level(i)
  <2>1. branch'[i] <= Level(i)
    <3>1. Level(i) \in Nat /\ branch[i] \in Nat /\ branch[i] <= Level(i)
      BY InvAt, LevelIs
    <3>2. branch'[i] \in 0..MaxLabel
      BY DEF Typed, TypeOK
    <3> QED BY <3>1, <3>2, HarnessAssumption
  <2> QED BY <1>2, <2>1, InvAt, LevelStays DEF DevSteady
<1>6. CapOf(i)'
  <2>1. CASE Level(i) < MaxIterations
    BY <1>5, <2>1 DEF CapOf
  <2>2. CASE Retrying(i)' => Retrying(i)
    <3>1. Requests(i)' <= Requests(i)
      BY <1>2, <1>3, <2>2, RequestsFew
    <3> QED BY <1>5, <3>1, InvAt, CapStays
  <2> QED BY <2>1, <2>2
<1> QED BY <1>4, <1>5, <1>6, InvAgain

\* Nobody judges what Dev works on.
LEMMA AtWork ==
    ASSUME NEW i \in Issues, Phase(i), Judging(i)
    PROVE  ~DevAt(i) /\ ~Resetting(i)
BY DEF Phase, DevPhase, Resetting

\* A step of verifier s for issue i alone, as the other jobs see it.
LEMMA VerifyAlone ==
    ASSUME JobsOK, NEW s \in Verifiers, NEW i \in Issues, Calm({Verify(s, i)})
    PROVE  /\ SameJob(Dev) /\ SameJob(Finalize(i)) /\ SameJob(Feedback(i))
           /\ \A t \in Verifiers \ {s} : SameJob(Verify(t, i))
           /\ DevAt(i)' <=> DevAt(i)
           /\ Retrying(i)' <=> Retrying(i)
           /\ {Verify(s, i)} \subseteq JobsOf(i)
<1>1. /\ Dev # Verify(s, i) /\ Finalize(i) # Verify(s, i) /\ Feedback(i) # Verify(s, i)
      /\ \A t \in Verifiers \ {s} : Verify(t, i) # Verify(s, i)
  BY JobNames, JobsDiffer
<1>2. /\ SameJob(Dev) /\ SameJob(Finalize(i)) /\ SameJob(Feedback(i))
      /\ \A t \in Verifiers \ {s} : SameJob(Verify(t, i))
  BY <1>1, CalmJobs
<1> QED BY <1>2 DEF SameJob, DevAt, Retrying, JobsOf

\* A verifier that goes on, and what it has to keep of its own verdict.
LEMMA VerifyGoes ==
    ASSUME NEW s \in Verifiers, NEW i \in Issues, Phase(i),
           Running(Verify(s, i)), Running(Verify(s, i))',
           run'[Verify(s, i)].iteration = run[Verify(s, i)].iteration,
           pending'[Verify(s, i)] = pending[Verify(s, i)],
           SameJob(Dev), SameJob(Finalize(i)), \A t \in Verifiers \ {s} : SameJob(Verify(t, i)),
           \A t \in Stages \ {s} : SameVerdict(i, t),
           SameIterations(i), SameRework(i), branch'[i] = branch[i],
           \A t \in Verifiers \ {s} : t \in judged[i] => t \in judged'[i],
           \/ HasResult(i, s)'
           \/ run'[Verify(s, i)].pc \in {"guard", "agent", "ensure"}
           \/ run'[Verify(s, i)].pc = "send" /\ edits'[Verify(s, i)] = AddFailed(s),
           run'[Verify(s, i)].pc \in {"guard", "agent"} =>
             run[Verify(s, i)].pc \in {"guard", "agent"} /\ ~HasResult(i, s)',
           edits'[Verify(s, i)] = DropFailed(s) => Passed(s) \in labels'[i],
           edits'[Verify(s, i)] = DropPassed(s) => Failed(s) \in labels'[i],
           Passed(s) \in labels'[i] => s \in judged'[i],
           run[Finalize(i)].pc \in {"checks", "merge"} => s \in judged'[i]
    PROVE  Phase(i)'
<1>1. Judging(i) /\ Judging(i)' /\ Judged(i)
  BY DEF Judging, Judged
<1>2. ~DevAt(i) /\ ~DevAt(i)' /\ ~Resetting(i)
  BY <1>1, AtWork DEF SameJob, DevAt
<1>3. DevPhase(i)' /\ ~Resetting(i)'
  BY <1>2, DevAwayPhase
<1>4. HeldPhase(i)'
  BY <1>1 DEF HeldPhase, Held
<1>5. \A t \in Verifiers \ {s} :
        /\ HasResult(i, t)' <=> HasResult(i, t)
        /\ Passed(t) \in labels'[i] <=> Passed(t) \in labels[i]
        /\ Failed(t) \in labels'[i] <=> Failed(t) \in labels[i]
        /\ run'[Verify(t, i)] = run[Verify(t, i)] /\ pending'[Verify(t, i)] = pending[Verify(t, i)]
        /\ edits'[Verify(t, i)] = edits[Verify(t, i)]
  BY LabelNames DEF SameVerdict, HasResult, SameJob
<1>6. HasResult(i, "gate")' <=> HasResult(i, "gate")
  BY LabelNames DEF SameVerdict, HasResult
<1>7. /\ run'[Finalize(i)] = run[Finalize(i)] /\ pending'[Finalize(i)] = pending[Finalize(i)]
      /\ edits'[Finalize(i)] = edits[Finalize(i)]
      /\ Joining(i)' <=> Joining(i)
  BY DEF SameJob, Joining
<1>8. CurrentIteration(i)' = CurrentIteration(i)
  BY CurrentStays
<1>9. JudgePhase(i)'
  <2>1. ASSUME NEW t \in Verifiers
        PROVE  /\ Running(Verify(t, i))' => run'[Verify(t, i)].iteration = CurrentIteration(i)'
               /\ \/ HasResult(i, t)'
                  \/ run'[Verify(t, i)].pc \in {"guard", "agent", "ensure"}
                  \/ run'[Verify(t, i)].pc = "send" /\ edits'[Verify(t, i)] = AddFailed(t)
    <3>1. CASE t = s
      BY <1>1, <1>8, <3>1 DEF Phase, JudgePhase
    <3>2. CASE t # s
      BY <1>1, <1>5, <1>8, <3>2 DEF Phase, JudgePhase, Running
    <3> QED BY <3>1, <3>2
  <2>2. /\ HasResult(i, "gate")' /\ branch'[i] # 0
        /\ Joining(i)' => run'[Finalize(i)].iteration = CurrentIteration(i)'
        /\ pending'[Finalize(i)] # <<>> => pending'[Finalize(i)][2] = CurrentIteration(i)'
    BY <1>1, <1>6, <1>7, <1>8 DEF Phase, JudgePhase
  <2>3. \A t \in Verifiers : AddFailed(t)' = AddFailed(t)
    BY DEF AddFailed
  <2> QED BY <2>1, <2>2, <2>3 DEF JudgePhase
<1>10. VerdictPhase(i)'
  <2>1. ASSUME NEW t \in Verifiers
        PROVE  /\ pending'[Verify(t, i)] = <<>>
               /\ run'[Verify(t, i)].pc \in {"guard", "agent"} => ~HasResult(i, t)'
               /\ edits'[Verify(t, i)] = DropFailed(t) => Passed(t) \in labels'[i]
               /\ edits'[Verify(t, i)] = DropPassed(t) => Failed(t) \in labels'[i]
               /\ Passed(t) \in labels'[i] => t \in judged'[i]
               /\ run'[Finalize(i)].pc \in {"checks", "merge"} =>
                    t \in judged'[i] /\ run'[Verify(t, i)].pc \notin {"guard", "agent"}
    <3>1. CASE t = s
      BY <1>7, <3>1 DEF Phase, VerdictPhase
    <3>2. CASE t # s
      BY <1>2, <1>5, <1>7, <3>2 DEF Phase, VerdictPhase
    <3> QED BY <3>1, <3>2
  <2>2. edits'[Finalize(i)] = DropMerge => NeedsRework \in labels'[i]
    BY <1>7 DEF Phase, VerdictPhase, SameRework
  <2> QED BY <2>1, <2>2 DEF VerdictPhase, DropFailed, DropPassed, DropMerge
<1> QED BY <1>3, <1>4, <1>9, <1>10 DEF Phase

LEMMA VerifierGuardKeeps ==
    ASSUME Inv, NEW s \in Verifiers, NEW i \in Issues, VerifierGuard(s, i)
    PROVE  Inv'
<1> DEFINE j == Verify(s, i)
<1>0. Typed /\ JobsOK /\ j \in Jobs /\ JobOK(j, run[j], pending[j], edits[j]) /\ DOMAIN edits = Jobs
  BY InvAt, JobNames DEF JobsOK
<1>1. run[j].pc = "guard" /\ edits[j] = <<>> /\ UNCHANGED <<labels, open, branch, ci, edits>>
  BY DEF VerifierGuard, At
<1>2. PICK pc \in {"agent", "ensure"} : Becomes(Goto(Now, j, pc))
  BY DEF VerifierGuard
<1>3. Doms /\ History /\ RunGoes(j, pc) /\ Rest({j})
  BY <1>0, <1>2, GoesTo DEF AllSteps
<1>4. Calm({j}) /\ DOMAIN edits' = Jobs
  BY <1>0, <1>1, <1>3, CalmFromRest
<1>5. JobOK(j, run'[j], pending'[j], edits'[j])
  BY <1>0, <1>1, <1>2, <1>3, VerifyOK DEF RunGoes
<1>6. Typed'
  BY <1>0, <1>1, <1>3, <1>4, <1>5, TypedStep, TypedNow, UnchangedState DEF JobNowOK
<1>7. /\ SameJob(Dev) /\ SameJob(Finalize(i)) /\ SameJob(Feedback(i))
      /\ \A t \in Verifiers \ {s} : SameJob(Verify(t, i))
      /\ DevAt(i)' <=> DevAt(i)
      /\ Retrying(i)' <=> Retrying(i)
      /\ {j} \subseteq JobsOf(i)
  BY <1>0, <1>4, VerifyAlone
<1>8. SameLabels(i)
  BY <1>0, <1>1, UnchangedState DEF SameLabels
<1>9. ASSUME open'[i], ~Disturbed(i)' PROVE Phase(i)'
  <2>1. Phase(i) /\ Running(j) /\ Running(j)' /\ judged'[i] = judged[i]
    BY <1>1, <1>2, <1>3, <1>9, InvAt DEF Disturbed, History, Running, RunGoes
  <2>2. /\ run'[j].iteration = run[j].iteration /\ pending'[j] = pending[j]
        /\ run'[j].pc \in {"agent", "ensure"} /\ edits'[j] = <<>>
    BY <1>1, <1>2, <1>3 DEF RunGoes
  <2>3. /\ HasResult(i, s)' <=> HasResult(i, s)
        /\ Passed(s) \in labels'[i] <=> Passed(s) \in labels[i]
    BY <1>1 DEF HasResult
  <2>4. /\ ~HasResult(i, s) /\ run[Finalize(i)].pc \notin {"checks", "merge"}
    BY <1>1, <2>1 DEF Phase, VerdictPhase
  <2>5. Passed(s) \notin labels'[i] /\ <<>> # DropFailed(s) /\ <<>> # DropPassed(s)
    BY <2>3, <2>4, EditsDiffer DEF HasResult
  <2> QED BY <1>1, <1>7, <1>8, <2>1, <2>2, <2>3, <2>4, <2>5, VerifyGoes, LabelNames DEF SameLabels, SameVerdicts
<1>10. Elsewhere(i) /\ misread'[i] = misread[i] /\ branch'[i] <= branch[i]
       /\ \A k \in Issues \ {i} : judged'[k] = judged[k]
  BY <1>0, <1>1, <1>3, TypedNow, HarnessAssumption DEF Elsewhere, History
<1> QED BY <1>4, <1>6, <1>7, <1>8, <1>9, <1>10, JudgeStep DEF SameLabels

\* After one edit of issue i the state is of its type, and other issues are as they were.
LEMMA EditState ==
    ASSUME Typed, NEW j \in Jobs, NEW i \in Issues, NEW es, Edit(j, i, es),
           Head(es).add \subseteq AllLabels, UNCHANGED <<open, branch, ci>>, misread' = misread
    PROVE  StateOK /\ Elsewhere(i)
<1>1. labels' \in [Issues -> SUBSET AllLabels] /\ \A k \in Issues \ {i} : labels'[k] = labels[k]
  BY EditIs
<1> QED BY <1>1, TypedNow DEF StateOK, Elsewhere

LEMMA VerifierReportsKeeps ==
    ASSUME Inv, NEW s \in Verifiers, NEW i \in Issues, VerifierReports(s, i)
    PROVE  Inv'
<1> DEFINE j == Verify(s, i)
<1>0. Typed /\ JobsOK /\ j \in Jobs /\ JobOK(j, run[j], pending[j], edits[j]) /\ DOMAIN edits = Jobs
      /\ s \in Stages
  BY InvAt, JobNames, LabelNames DEF JobsOK
<1>1. run[j].pc = "agent" /\ edits[j] = <<>> /\ UNCHANGED <<open, branch, ci>>
  BY DEF VerifierReports, At
<1>a. "ensure" \in AllSteps
  BY DEF AllSteps
<1>2. CASE Becomes(Goto(Now, j, "ensure")) /\ UNCHANGED <<labels, edits>>
  <2>1. Doms /\ History /\ RunGoes(j, "ensure") /\ Rest({j})
    BY <1>0, <1>2, <1>a, GoesTo
  <2>2. Calm({j}) /\ DOMAIN edits' = Jobs /\ edits'[j] = <<>>
    BY <1>0, <1>1, <1>2, <2>1, CalmFromRest
  <2>3. JobOK(j, run'[j], pending'[j], edits'[j])
    BY <1>0, <1>1, <2>1, <2>2, VerifyOK DEF RunGoes
  <2>4. Typed'
    BY <1>0, <1>1, <1>2, <2>1, <2>2, <2>3, TypedStep, TypedNow, UnchangedState DEF JobNowOK
  <2>5. SameLabels(i)
    BY <1>0, <1>1, <1>2, UnchangedState DEF SameLabels
  <2>6. /\ SameJob(Dev) /\ SameJob(Finalize(i)) /\ SameJob(Feedback(i))
        /\ \A t \in Verifiers \ {s} : SameJob(Verify(t, i))
        /\ DevAt(i)' <=> DevAt(i)
        /\ Retrying(i)' <=> Retrying(i)
        /\ {j} \subseteq JobsOf(i)
    BY <1>0, <2>2, VerifyAlone
  <2>7. ASSUME open'[i], ~Disturbed(i)' PROVE Phase(i)'
    <3>1. Phase(i) /\ Running(j) /\ Running(j)' /\ judged'[i] = judged[i]
      BY <1>1, <2>1, <2>7, InvAt DEF Disturbed, History, Running, RunGoes
    <3>2. /\ run'[j].iteration = run[j].iteration /\ pending'[j] = pending[j]
          /\ run'[j].pc = "ensure"
      BY <2>1 DEF RunGoes
    <3>3. /\ HasResult(i, s)' <=> HasResult(i, s)
          /\ Passed(s) \in labels'[i] <=> Passed(s) \in labels[i]
      BY <1>2 DEF HasResult
    <3>4. /\ ~HasResult(i, s) /\ run[Finalize(i)].pc \notin {"checks", "merge"}
      BY <1>1, <3>1 DEF Phase, VerdictPhase
    <3>5. Passed(s) \notin labels'[i] /\ <<>> # DropFailed(s) /\ <<>> # DropPassed(s)
      BY <3>3, <3>4, EditsDiffer DEF HasResult
    <3> QED BY <1>1, <2>2, <2>5, <2>6, <3>1, <3>2, <3>3, <3>4, <3>5, VerifyGoes, LabelNames DEF SameLabels, SameVerdicts
  <2>8. Elsewhere(i) /\ misread'[i] = misread[i] /\ branch'[i] <= branch[i]
        /\ \A k \in Issues \ {i} : judged'[k] = judged[k]
    BY <1>0, <1>1, <1>2, <2>1, TypedNow, HarnessAssumption DEF Elsewhere, History
  <2> QED BY <2>2, <2>4, <2>5, <2>6, <2>7, <2>8, JudgeStep DEF SameLabels
<1>3. ASSUME NEW passed \in BOOLEAN, Edit(j, i, SetResultLabel(s, passed)),
             Becomes(PassedBy(Goto(Now, j, "ensure"), i,
                              IF passed THEN judged[i] \union {s} ELSE judged[i] \ {s}))
      PROVE  Inv'
  <2> DEFINE l == IF passed THEN Passed(s) ELSE Failed(s)
             by == IF passed THEN judged[i] \union {s} ELSE judged[i] \ {s}
             tail == IF passed THEN DropFailed(s) ELSE DropPassed(s)
  <2>0. passed => l = Passed(s) /\ by = judged[i] \union {s} /\ tail = DropFailed(s)
    OBVIOUS
  <2>1. ~passed => l = Failed(s) /\ by = judged[i] \ {s} /\ tail = DropPassed(s)
    OBVIOUS
  <2>2. Head(SetResultLabel(s, passed)) = Add(l) /\ Tail(SetResultLabel(s, passed)) = tail
    BY Edits12 DEF SetResultLabel, DropFailed, DropPassed
  <2>3. Becomes(PassedBy(Goto(Now, j, "ensure"), i, by))
    BY <1>3
  <2>4. l \in {Passed(s), Failed(s)}
    OBVIOUS
  <2> HIDE DEF l, by, tail
  <2>5. /\ Doms /\ RunGoes(j, "ensure") /\ Rest({j})
        /\ Disturbed(i) => judged' = judged
        /\ ~Disturbed(i) => judged' = [judged EXCEPT ![i] = by]
        /\ misread' = misread
    BY <1>0, <1>a, <2>3, PassedGoes
  <2>6. /\ DOMAIN edits' = Jobs /\ edits'[j] = tail
        /\ \A k \in Jobs \ {j} : edits'[k] = edits[k]
        /\ Edited(i, Add(l))
    BY <1>0, <1>3, <2>2, EditIs
  <2>7. /\ \A t \in Stages \ {s} : SameVerdict(i, t)
        /\ l \in labels'[i]
        /\ l = Failed(s) => (Passed(s) \in labels'[i] <=> Passed(s) \in labels[i])
        /\ SameIterations(i) /\ SameRework(i) /\ SameMerge(i)
        /\ Add(l).add \subseteq AllLabels
    BY <1>0, <2>4, <2>6, EditAddVerdict
  <2>8. StateOK /\ Elsewhere(i)
    BY <1>0, <1>1, <1>3, <2>2, <2>5, <2>7, EditState
  <2>9. Calm({j})
    BY <2>5, <2>6, CalmFromRest
  <2>10. JobOK(j, run'[j], pending'[j], edits'[j])
    BY <1>0, <1>1, <2>0, <2>1, <2>5, <2>6, VerifyOK DEF RunGoes
  <2>11. /\ \A k \in Issues \ {i} : judged'[k] = judged[k]
         /\ Disturbed(i) => judged'[i] = judged[i]
         /\ ~Disturbed(i) => judged'[i] = by
         /\ DOMAIN judged' = Issues
    BY <1>0, <2>5, TypedNow
  <2>12. HistoryOK
    <3>1. ~Disturbed(i) => by \subseteq Verifiers
      BY <1>0, <2>0, <2>1, TypedNow DEF Disturbed
    <3> QED BY <1>0, <2>5, <2>11, <3>1, TypedNow DEF HistoryOK
  <2>13. Typed'
    BY <1>0, <2>5, <2>6, <2>8, <2>9, <2>10, <2>12, TypedStep DEF JobNowOK
  <2>14. /\ SameJob(Dev) /\ SameJob(Finalize(i)) /\ SameJob(Feedback(i))
         /\ \A t \in Verifiers \ {s} : SameJob(Verify(t, i))
         /\ DevAt(i)' <=> DevAt(i)
         /\ Retrying(i)' <=> Retrying(i)
         /\ {j} \subseteq JobsOf(i)
    BY <1>0, <2>9, VerifyAlone
  <2>15. ASSUME open'[i], ~Disturbed(i)' PROVE Phase(i)'
    <3>0. ~Disturbed(i)
      BY <2>11, <2>15 DEF Disturbed
    <3>1. Phase(i) /\ Running(j) /\ Running(j)' /\ judged'[i] = by
      BY <1>1, <2>5, <2>11, <2>15, <3>0, InvAt DEF Running, RunGoes
    <3>2. /\ run'[j].iteration = run[j].iteration /\ pending'[j] = pending[j]
          /\ run'[j].pc = "ensure"
      BY <2>5 DEF RunGoes
    <3>3. ~HasResult(i, s) /\ run[Finalize(i)].pc \notin {"checks", "merge"}
      BY <1>1, <3>1 DEF Phase, VerdictPhase
    <3>4. DropPassed(s) # DropFailed(s)
      BY <1>0, EditsDiffer
    <3>5. Passed(s) \in labels'[i] => s \in judged'[i]
      BY <2>0, <2>1, <2>7, <3>1, <3>3 DEF HasResult
    <3>6. /\ edits'[j] = DropFailed(s) => Passed(s) \in labels'[i]
          /\ edits'[j] = DropPassed(s) => Failed(s) \in labels'[i]
      BY <2>0, <2>1, <2>6, <2>7, <3>4
    <3>7. \A t \in Verifiers \ {s} : t \in judged[i] => t \in judged'[i]
      BY <2>0, <2>1, <3>1
    <3>8. branch'[i] = branch[i]
      BY <1>1
    <3>9. run'[j].pc \in {"guard", "agent", "ensure"} /\ run'[j].pc \notin {"guard", "agent"}
      BY <3>2
    <3> QED BY <2>7, <2>14, <3>1, <3>2, <3>3, <3>5, <3>6, <3>7, <3>8, <3>9, VerifyGoes
  <2>16. misread'[i] = misread[i] /\ branch'[i] <= branch[i]
    BY <1>0, <1>1, <2>5, TypedNow, HarnessAssumption
  <2> QED BY <2>7, <2>8, <2>9, <2>11, <2>13, <2>14, <2>15, <2>16, JudgeStep
<1> QED BY <1>2, <1>3 DEF VerifierReports

LEMMA VerifierEnsuresLabelKeeps ==
    ASSUME Inv, NEW s \in Verifiers, NEW i \in Issues, VerifierEnsuresLabel(s, i)
    PROVE  Inv'
<1> DEFINE j == Verify(s, i)
<1>0. Typed /\ JobsOK /\ j \in Jobs /\ JobOK(j, run[j], pending[j], edits[j]) /\ DOMAIN edits = Jobs
  BY InvAt, JobNames DEF JobsOK
<1>1. run[j].pc = "ensure" /\ edits[j] = <<>> /\ UNCHANGED <<labels, open, branch, ci>>
  BY DEF VerifierEnsuresLabel, At
<1>2. Becomes(Goto(Now, j, "send")) /\ "send" \in AllSteps
  BY DEF VerifierEnsuresLabel, AllSteps
<1>3. Doms /\ History /\ RunGoes(j, "send") /\ Rest({j})
  BY <1>0, <1>2, GoesTo
<1>4. /\ DOMAIN edits' = Jobs /\ \A k \in Jobs \ {j} : edits'[k] = edits[k]
      /\ edits'[j] = <<>> \/ edits'[j] = AddFailed(s)
      /\ ResultFromLabels(i, s) = {} => edits'[j] = AddFailed(s)
  <2>1. CASE ResultFromLabels(i, s) = {}
    BY <1>0, <2>1 DEF VerifierEnsuresLabel, AddFailed
  <2>2. CASE ResultFromLabels(i, s) # {}
    BY <1>0, <1>1, <2>2 DEF VerifierEnsuresLabel
  <2> QED BY <2>1, <2>2
<1>a. ~HasResult(i, s) => ResultFromLabels(i, s) = {}
  BY DEF HasResult, ResultFromLabels
<1>5. JobOK(j, run'[j], pending'[j], edits'[j])
  BY <1>0, <1>1, <1>3, <1>4, VerifyOK DEF RunGoes
<1>6. Calm({j})
  BY <1>3, <1>4, CalmFromRest
<1>b. Typed'
  BY <1>0, <1>1, <1>3, <1>4, <1>5, <1>6, TypedStep, TypedNow, UnchangedState DEF JobNowOK
<1>7. /\ SameJob(Dev) /\ SameJob(Finalize(i)) /\ SameJob(Feedback(i))
      /\ \A t \in Verifiers \ {s} : SameJob(Verify(t, i))
      /\ DevAt(i)' <=> DevAt(i)
      /\ Retrying(i)' <=> Retrying(i)
      /\ {j} \subseteq JobsOf(i)
  BY <1>0, <1>6, VerifyAlone
<1>8. SameLabels(i)
  BY <1>0, <1>1, UnchangedState DEF SameLabels
<1>9. ASSUME open'[i], ~Disturbed(i)' PROVE Phase(i)'
  <2>1. Phase(i) /\ Running(j) /\ Running(j)' /\ judged'[i] = judged[i]
    BY <1>1, <1>3, <1>9, InvAt DEF Disturbed, History, Running, RunGoes
  <2>2. /\ run'[j].iteration = run[j].iteration /\ pending'[j] = pending[j]
        /\ run'[j].pc = "send"
    BY <1>3 DEF RunGoes
  <2>3. /\ HasResult(i, s)' <=> HasResult(i, s)
        /\ Passed(s) \in labels'[i] <=> Passed(s) \in labels[i]
    BY <1>1 DEF HasResult
  <2>4. edits'[j] # DropFailed(s) /\ edits'[j] # DropPassed(s)
    BY <1>4, EditsDiffer
  <2>5. Passed(s) \in labels'[i] => s \in judged'[i]
    BY <2>1, <2>3, AtWork DEF Phase, VerdictPhase, Judging
  <2>6. run[Finalize(i)].pc \in {"checks", "merge"} => s \in judged'[i]
    BY <2>1 DEF Phase, VerdictPhase
  <2>7. HasResult(i, s)' \/ edits'[j] = AddFailed(s)
    BY <1>4, <1>a, <2>3
  <2>8. run'[j].pc \notin {"guard", "agent"} /\ branch'[i] = branch[i]
    BY <1>1, <2>2
  <2> QED BY <1>7, <1>8, <2>1, <2>2, <2>4, <2>5, <2>6, <2>7, <2>8, VerifyGoes DEF SameLabels, SameVerdicts
<1>10. Elsewhere(i) /\ misread'[i] = misread[i] /\ branch'[i] <= branch[i]
       /\ \A k \in Issues \ {i} : judged'[k] = judged[k]
  BY <1>0, <1>1, <1>3, TypedNow, HarnessAssumption DEF Elsewhere, History
<1> QED BY <1>6, <1>7, <1>8, <1>9, <1>10, <1>b, JudgeStep DEF SameLabels

\* Asking finalize to join the results of iteration n.
LEMMA AskFinalizeDoes ==
    ASSUME Typed, NEW i \in Issues, NEW j \in Jobs, j # Finalize(i), NEW n \in Nat \ {0}, edits[j] = <<>>,
           UNCHANGED <<labels, open, branch, ci, edits>>,
           Becomes(End(Send(Now, Finalize(i), i, n), j))
    PROVE  /\ Typed' /\ History /\ Calm({j, Finalize(i)}) /\ RunEnds(j) /\ Rest({j, Finalize(i)})
           /\ edits'[Finalize(i)] = edits[Finalize(i)]
           /\ ~Running(Finalize(i)) =>
                /\ run'[Finalize(i)].pc = "join" /\ run'[Finalize(i)].iteration = n
                /\ pending'[Finalize(i)] = <<>> /\ edits[Finalize(i)] = <<>>
           /\ Running(Finalize(i)) =>
                /\ run'[Finalize(i)] = run[Finalize(i)] /\ pending'[Finalize(i)] # <<>>
                /\ pending'[Finalize(i)][2] = n
<1> DEFINE f == Finalize(i)
<1>0. /\ JobsOK /\ f \in Jobs /\ DOMAIN edits' = Jobs /\ edits' = edits /\ n \in Nat /\ n > 0
      /\ JobOK(f, run[f], pending[f], edits[f])
  BY TypedNow, JobNames DEF JobsOK
<1>1. /\ ~Running(f) => pending[f] = <<>> /\ edits[f] = <<>>
      /\ pending[f] = <<>> \/ pending[f][1] = i
  BY <1>0, FinalizeOK DEF Running
<1>2. /\ Doms /\ RunEnds(j) /\ RunAsked(f, i, n) /\ Rest({j, f}) /\ misread' = misread /\ judged' = judged
  BY <1>0, <1>1, SendEnds
<1>3. JobOK(j, run'[j], pending'[j], edits'[j])
  BY <1>0, <1>2, EndedOK
<1>4. CASE Running(f)
  <2>1. run'[f] = run[f] /\ pending'[f] = <<i, n>> /\ run[f].pc # "idle"
    BY <1>2, <1>4 DEF RunAsked, Running
  <2>2. <<i, n>> \in Issues \X Nat /\ <<i, n>>[1] = i /\ <<i, n>>[2] = n /\ <<i, n>> # <<>>
    BY <1>0
  <2>3. JobOK(f, run'[f], pending'[f], edits'[f])
    BY <1>0, <2>1, <2>2, FinalizeOK
  <2>4. Typed'
    BY <1>0, <1>2, <1>3, <2>3, CalmFromRest, TypedStep, TypedNow, UnchangedState DEF JobNowOK, History
  <2> QED BY <1>0, <1>2, <1>4, <2>1, <2>2, <2>4, CalmFromRest DEF History
<1>5. CASE ~Running(f)
  <2>1. run'[f] = Started(f, i, n) /\ pending'[f] = <<>> /\ edits'[f] = <<>>
    BY <1>0, <1>1, <1>2, <1>5 DEF RunAsked
  <2>2. /\ Started(f, i, n) \in RunRecords /\ Started(f, i, n).pc = "join"
        /\ Started(f, i, n).issue = i /\ Started(f, i, n).iteration = n
    BY <1>0, StartsOK
  <2>3. JobOK(f, run'[f], pending'[f], edits'[f])
    BY <1>0, <2>1, <2>2, FinalizeOK
  <2>4. Typed'
    BY <1>0, <1>2, <1>3, <2>3, CalmFromRest, TypedStep, TypedNow, UnchangedState DEF JobNowOK, History
  <2> QED BY <1>0, <1>1, <1>2, <1>5, <2>1, <2>2, <2>4, CalmFromRest DEF History
<1> QED BY <1>4, <1>5

LEMMA VerifierDispatchesKeeps ==
    ASSUME Inv, NEW s \in Verifiers, NEW i \in Issues, VerifierDispatches(s, i)
    PROVE  Inv'
<1> DEFINE j == Verify(s, i)
           f == Finalize(i)
<1>0. /\ Typed /\ JobsOK /\ j \in Jobs /\ JobOK(j, run[j], pending[j], edits[j]) /\ j # f
      /\ f \in Jobs /\ JobOK(f, run[f], pending[f], edits[f])
  BY InvAt, JobNames, JobsDiffer DEF JobsOK
<1>a. /\ run[j].pc = "send" /\ edits[j] = <<>> /\ UNCHANGED <<labels, open, branch, ci, edits>>
      /\ Becomes(End(Send(Now, f, i, run[j].iteration), j))
  BY DEF VerifierDispatches, At
<1>b. run[j].iteration \in Nat \ {0}
  BY <1>0, <1>a, VerifyOK DEF RunRecords
<1>c. PICK n \in Nat \ {0} : n = run[j].iteration
  BY <1>b
<1>1. Becomes(End(Send(Now, f, i, n), j))
  BY <1>a, <1>c
<1>2. /\ Typed' /\ History /\ Calm({j, f}) /\ RunEnds(j) /\ Rest({j, f})
      /\ edits'[f] = edits[f]
      /\ ~Running(f) =>
           /\ run'[f].pc = "join" /\ run'[f].iteration = n
           /\ pending'[f] = <<>> /\ edits[f] = <<>>
      /\ Running(f) =>
           /\ run'[f] = run[f] /\ pending'[f] # <<>>
           /\ pending'[f][2] = n
  BY <1>0, <1>1, <1>a, AskFinalizeDoes
<1>3. /\ Dev \notin {j, f} /\ Feedback(i) \notin {j, f} /\ \A t \in Verifiers \ {s} : Verify(t, i) \notin {j, f}
      /\ {j, f} \subseteq JobsOf(i)
  BY JobNames, JobsDiffer DEF JobsOf
<1>4. /\ SameJob(Dev) /\ SameJob(Feedback(i)) /\ \A t \in Verifiers \ {s} : SameJob(Verify(t, i))
      /\ DevAt(i)' <=> DevAt(i)
  <2>1. SameJob(Dev) /\ SameJob(Feedback(i)) /\ \A t \in Verifiers \ {s} : SameJob(Verify(t, i))
    BY <1>0, <1>2, <1>3, CalmJobs
  <2> QED BY <2>1 DEF SameJob, DevAt
<1>5. Retrying(i)' => Retrying(i)
  BY <1>2 DEF Retrying
<1>6. SameLabels(i)
  BY <1>0, <1>a, UnchangedState DEF SameLabels
<1>7. ASSUME open'[i], ~Disturbed(i)' PROVE Phase(i)'
  <2>1. Phase(i) /\ Running(j) /\ judged'[i] = judged[i]
    BY <1>a, <1>2, <1>7, InvAt DEF Disturbed, History, Running
  <2>2. Judging(i) /\ Judged(i) /\ ~DevAt(i) /\ ~Resetting(i) /\ ~DevAt(i)'
    BY <1>4, <2>1, AtWork DEF Judging, Judged
  <2>3. DevPhase(i)'
    BY <2>2, DevAwayPhase
  <2>4. Joining(i)' \/ pending'[f] # <<>>
    BY <1>2 DEF Joining
  <2>5. HeldPhase(i)'
    BY <2>4 DEF HeldPhase, Held, Judging, Joining
  <2>6. CurrentIteration(i)' = CurrentIteration(i) /\ n = CurrentIteration(i)
    BY <1>6, <1>c, <2>1, <2>2, CurrentStays DEF SameLabels, Phase, JudgePhase
  <2>7. run'[j].pc = "idle" /\ pending'[j] = <<>> /\ edits'[j] = <<>>
    <3>1. pending[j] = <<>>
      BY <2>1 DEF Phase, VerdictPhase
    <3> QED BY <1>a, <1>2, <3>1, StartsOK DEF RunEnds
  <2>8. \A t \in Stages : /\ HasResult(i, t)' <=> HasResult(i, t)
                          /\ Passed(t) \in labels'[i] <=> Passed(t) \in labels[i]
                          /\ Failed(t) \in labels'[i] <=> Failed(t) \in labels[i]
    BY <1>a DEF HasResult
  <2>9. \A t \in Verifiers \ {s} :
          /\ run'[Verify(t, i)] = run[Verify(t, i)] /\ pending'[Verify(t, i)] = pending[Verify(t, i)]
          /\ edits'[Verify(t, i)] = edits[Verify(t, i)]
    BY <1>4 DEF SameJob
  <2>10. HasResult(i, s)
    <3>1. AddFailed(s) # <<>>
      BY EditsDiffer
    <3> QED BY <1>a, <2>1, <2>2, <3>1 DEF Phase, JudgePhase
  <2>11. JudgePhase(i)'
    <3>1. HasResult(i, "gate")' /\ branch'[i] # 0
      BY <1>a, <2>1, <2>2, <2>8, LabelNames DEF Phase, JudgePhase
    <3>2. ASSUME NEW t \in Verifiers
          PROVE  /\ Running(Verify(t, i))' => run'[Verify(t, i)].iteration = CurrentIteration(i)'
                 /\ \/ HasResult(i, t)'
                    \/ run'[Verify(t, i)].pc \in {"guard", "agent", "ensure"}
                    \/ run'[Verify(t, i)].pc = "send" /\ edits'[Verify(t, i)] = AddFailed(t)
      <4>1. CASE t = s
        BY <2>7, <2>8, <2>10, <4>1, LabelNames DEF Running
      <4>2. CASE t # s
        BY <2>1, <2>2, <2>6, <2>8, <2>9, <4>2, LabelNames DEF Phase, JudgePhase, Running
      <4> QED BY <4>1, <4>2
    <3>3. /\ Joining(i)' => run'[f].iteration = CurrentIteration(i)'
          /\ pending'[f] # <<>> => pending'[f][2] = CurrentIteration(i)'
      BY <1>2, <2>1, <2>2, <2>6 DEF Phase, JudgePhase, Joining
    <3>4. \A t \in Verifiers : AddFailed(t)' = AddFailed(t)
      BY DEF AddFailed
    <3> QED BY <3>1, <3>2, <3>3, <3>4 DEF JudgePhase
  <2>12. VerdictPhase(i)'
    <3>1. ASSUME NEW t \in Verifiers
          PROVE  /\ pending'[Verify(t, i)] = <<>>
                 /\ run'[Verify(t, i)].pc \in {"guard", "agent"} => ~HasResult(i, t)'
                 /\ edits'[Verify(t, i)] = DropFailed(t) => Passed(t) \in labels'[i]
                 /\ edits'[Verify(t, i)] = DropPassed(t) => Failed(t) \in labels'[i]
                 /\ Passed(t) \in labels'[i] => t \in judged'[i]
                 /\ run'[f].pc \in {"checks", "merge"} =>
                      t \in judged'[i] /\ run'[Verify(t, i)].pc \notin {"guard", "agent"}
      <4>0. t \in Stages
        BY LabelNames
      <4>1. run'[f].pc \in {"checks", "merge"} => run[f].pc \in {"checks", "merge"}
        BY <1>2
      <4>2. CASE t = s
        BY <1>a, <2>1, <2>2, <2>7, <2>8, <4>0, <4>1, <4>2, EditsDiffer DEF Phase, VerdictPhase
      <4>3. CASE t # s
        BY <2>1, <2>2, <2>8, <2>9, <4>0, <4>1, <4>3 DEF Phase, VerdictPhase
      <4> QED BY <4>2, <4>3
    <3>2. edits'[f] = DropMerge => NeedsRework \in labels'[i]
      BY <1>2, <1>a, <2>1 DEF Phase, VerdictPhase
    <3> QED BY <3>1, <3>2 DEF VerdictPhase, DropFailed, DropPassed, DropMerge
  <2> QED BY <2>3, <2>5, <2>11, <2>12 DEF Phase
<1>8. Elsewhere(i) /\ misread'[i] = misread[i] /\ branch'[i] <= branch[i]
       /\ \A k \in Issues \ {i} : judged'[k] = judged[k]
  BY <1>0, <1>a, <1>2, TypedNow, HarnessAssumption DEF Elsewhere, History
<1> QED BY <1>2, <1>3, <1>5, <1>6, <1>7, <1>8, JudgeStep DEF SameLabels

-----------------------------------------------------------------------------
(* Finalize.                                                                *)

LEMMA FinalizeAlone ==
    ASSUME JobsOK, NEW i \in Issues, Calm({Finalize(i)})
    PROVE  /\ SameJob(Dev) /\ SameJob(Feedback(i)) /\ \A s \in Verifiers : SameJob(Verify(s, i))
           /\ DevAt(i)' <=> DevAt(i)
           /\ Resetting(i)' <=> Resetting(i)
           /\ Dispatching(i)' = Dispatching(i)
           /\ {Finalize(i)} \subseteq JobsOf(i)
<1>1. /\ Dev # Finalize(i) /\ Feedback(i) # Finalize(i) /\ \A s \in Verifiers : Verify(s, i) # Finalize(i)
      /\ NoPicker({Finalize(i)})
  BY JobNames, JobsDiffer DEF NoPicker
<1>2. /\ SameJob(Dev) /\ SameJob(Feedback(i)) /\ \A s \in Verifiers : SameJob(Verify(s, i))
      /\ Dispatching(i)' = Dispatching(i)
  BY <1>1, CalmJobs
<1> QED BY <1>2 DEF SameJob, DevAt, Resetting, JobsOf

\* Finalize goes on, or edits, and judges what it judged.
LEMMA FinalizeGoes ==
    ASSUME NEW i \in Issues, Phase(i),
           SameJob(Dev), \A s \in Verifiers : SameJob(Verify(s, i)),
           run'[Finalize(i)].iteration = run[Finalize(i)].iteration,
           pending'[Finalize(i)] = pending[Finalize(i)],
           SameVerdicts(i), SameIterations(i), branch'[i] = branch[i], judged'[i] = judged[i],
           Joining(i)' => Joining(i),
           \A s \in Verifiers : run'[Finalize(i)].pc \in {"checks", "merge"} =>
                                  s \in judged[i] /\ run[Verify(s, i)].pc \notin {"guard", "agent"},
           edits'[Finalize(i)] = DropMerge => NeedsRework \in labels'[i]
    PROVE  JudgePhase(i)' /\ VerdictPhase(i)'
<1>1. Judged(i)' => Judged(i)
  BY DEF Judged, SameJob, Running
<1>2. \A s \in Stages : /\ HasResult(i, s)' <=> HasResult(i, s)
                        /\ Passed(s) \in labels'[i] <=> Passed(s) \in labels[i]
                        /\ Failed(s) \in labels'[i] <=> Failed(s) \in labels[i]
  BY DEF HasResult, SameVerdicts, SameVerdict
<1>3. \A s \in Verifiers : /\ run'[Verify(s, i)] = run[Verify(s, i)]
                           /\ edits'[Verify(s, i)] = edits[Verify(s, i)]
                           /\ pending'[Verify(s, i)] = pending[Verify(s, i)]
  BY DEF SameJob
<1>4. CurrentIteration(i)' = CurrentIteration(i)
  BY CurrentStays
<1>5. Resetting(i)' <=> Resetting(i)
  BY DEF Resetting, DevAt, SameJob
<1>6. ASSUME Judged(i)' PROVE
          /\ HasResult(i, "gate")' /\ branch'[i] # 0
          /\ \A s \in Verifiers :
               Running(Verify(s, i))' => run'[Verify(s, i)].iteration = CurrentIteration(i)'
          /\ Joining(i)' => run'[Finalize(i)].iteration = CurrentIteration(i)'
          /\ pending'[Finalize(i)] # <<>> => pending'[Finalize(i)][2] = CurrentIteration(i)'
          /\ \A s \in Verifiers :
               \/ HasResult(i, s)'
               \/ run'[Verify(s, i)].pc \in {"guard", "agent", "ensure"}
               \/ run'[Verify(s, i)].pc = "send" /\ edits'[Verify(s, i)] = AddFailed(s)
  BY <1>1, <1>2, <1>3, <1>4, <1>6, LabelNames DEF Phase, JudgePhase, Running
<1>7. \A s \in Verifiers :
        /\ pending'[Verify(s, i)] = <<>>
        /\ run'[Verify(s, i)].pc \in {"guard", "agent"} => ~HasResult(i, s)'
        /\ edits'[Verify(s, i)] = DropFailed(s) => Passed(s) \in labels'[i]
        /\ edits'[Verify(s, i)] = DropPassed(s) => Failed(s) \in labels'[i]
        /\ ~Resetting(i)' /\ Passed(s) \in labels'[i] => s \in judged'[i]
        /\ run'[Finalize(i)].pc \in {"checks", "merge"} =>
             s \in judged'[i] /\ run'[Verify(s, i)].pc \notin {"guard", "agent"}
  BY <1>2, <1>3, <1>5, LabelNames DEF Phase, VerdictPhase
<1>8. JudgePhase(i)'
  BY <1>6 DEF JudgePhase, AddFailed
<1>9. VerdictPhase(i)'
  BY <1>7 DEF VerdictPhase, DropFailed, DropPassed, DropMerge
<1> QED BY <1>8, <1>9

\* Finalize ends, and the request that waited begins to join the results of its iteration.
LEMMA FinalizeEndsPhase ==
    ASSUME NEW i \in Issues, JobsOK, Phase(i), RunEnds(Finalize(i)), edits'[Finalize(i)] = <<>>,
           DevKeeps \/ (~DevAt(i)' /\ ~Resetting(i)), \A s \in Verifiers : SameJob(Verify(s, i)),
           SameLabels(i), labels'[i] = labels[i], branch'[i] = branch[i], judged'[i] = judged[i],
           Held(i) /\ NeedsRework \notin labels[i] /\ ReadyToMerge \notin labels[i] => Held(i)'
    PROVE  Phase(i)'
<1> DEFINE f == Finalize(i)
<1>0. JobOK(f, run[f], pending[f], edits[f])
  BY JobNames DEF JobsOK
<1>a. pending[f] = <<>> \/ pending[f] \in Issues \X Nat
  BY <1>0, FinalizeOK
<1>1. /\ pending'[f] = <<>>
      /\ pending[f] = <<>> => run'[f].pc = "idle"
      /\ pending[f] # <<>> => run'[f].pc = "join" /\ run'[f].iteration = pending[f][2]
  BY <1>a, StartsOK, StartedIs, Steps DEF RunEnds
<1>2. Judged(i)' => Judged(i)
  BY <1>1 DEF Judged, SameJob, Running, Joining
<1>3. \A s \in Stages : /\ HasResult(i, s)' <=> HasResult(i, s)
                        /\ Passed(s) \in labels'[i] <=> Passed(s) \in labels[i]
                        /\ Failed(s) \in labels'[i] <=> Failed(s) \in labels[i]
  BY DEF HasResult
<1>4. \A s \in Verifiers : /\ run'[Verify(s, i)] = run[Verify(s, i)]
                           /\ edits'[Verify(s, i)] = edits[Verify(s, i)]
                           /\ pending'[Verify(s, i)] = pending[Verify(s, i)]
  BY DEF SameJob
<1>5. CurrentIteration(i)' = CurrentIteration(i)
  BY CurrentStays DEF SameLabels
<1>6. DevPhase(i)'
  <2>1. CASE ~DevAt(i)'
    BY <2>1, DevAwayPhase
  <2>2. CASE DevKeeps /\ DevAt(i)'
    <3>1. DevAt(i) /\ (Resetting(i)' <=> Resetting(i))
      BY <2>2 DEF DevKeeps, DevAt, Resetting
    <3>2. ~Judging(i)
      BY <3>1 DEF Phase, DevPhase
    <3>3. ~Judging(i)'
      BY <1>1, <1>4, <3>2 DEF Judging, Running
    <3> QED BY <1>3, <2>2, <3>1, <3>3, LabelNames DEF Phase, DevPhase, DevKeeps
  <2> QED BY <2>1, <2>2
<1>7. Resetting(i) => Resetting(i)'
  BY DEF Resetting, DevAt, DevKeeps
<1>8. ASSUME Judged(i)' PROVE
          /\ HasResult(i, "gate")' /\ branch'[i] # 0
          /\ \A s \in Verifiers :
               Running(Verify(s, i))' => run'[Verify(s, i)].iteration = CurrentIteration(i)'
          /\ Joining(i)' => run'[f].iteration = CurrentIteration(i)'
          /\ pending'[f] # <<>> => pending'[f][2] = CurrentIteration(i)'
          /\ \A s \in Verifiers :
               \/ HasResult(i, s)'
               \/ run'[Verify(s, i)].pc \in {"guard", "agent", "ensure"}
               \/ run'[Verify(s, i)].pc = "send" /\ edits'[Verify(s, i)] = AddFailed(s)
  <2>1. Joining(i)' => pending[f] # <<>>
    BY <1>1 DEF Joining
  <2> QED BY <1>1, <1>2, <1>3, <1>4, <1>5, <1>8, <2>1, LabelNames DEF Phase, JudgePhase, Running
<1>9. \A s \in Verifiers :
        /\ pending'[Verify(s, i)] = <<>>
        /\ run'[Verify(s, i)].pc \in {"guard", "agent"} => ~HasResult(i, s)'
        /\ edits'[Verify(s, i)] = DropFailed(s) => Passed(s) \in labels'[i]
        /\ edits'[Verify(s, i)] = DropPassed(s) => Failed(s) \in labels'[i]
        /\ ~Resetting(i)' /\ Passed(s) \in labels'[i] => s \in judged'[i]
        /\ run'[f].pc \notin {"checks", "merge"}
  BY <1>1, <1>3, <1>4, <1>7, LabelNames DEF Phase, VerdictPhase
<1>10. edits'[f] # DropMerge
  BY EditsDiffer
<1>11. JudgePhase(i)'
  BY <1>8 DEF JudgePhase, AddFailed
<1>12. VerdictPhase(i)'
  BY <1>9, <1>10 DEF VerdictPhase, DropFailed, DropPassed, DropMerge
<1>13. HeldPhase(i)'
  BY DEF Phase, HeldPhase
<1> QED BY <1>6, <1>11, <1>12, <1>13 DEF Phase

LEMMA TryFinalizeKeeps ==
    ASSUME Inv, NEW i \in Issues, TryFinalize(i)
    PROVE  Inv'
<1> DEFINE f == Finalize(i)
<1>0. Typed /\ JobsOK /\ f \in Jobs /\ JobOK(f, run[f], pending[f], edits[f]) /\ DOMAIN edits = Jobs
      /\ \A p \in Pickers : f # Picker(p)
  BY InvAt, JobNames, JobsDiffer DEF JobsOK
<1>1. run[f].pc = "join" /\ edits[f] = <<>> /\ UNCHANGED <<labels, open, branch, ci>>
  BY DEF TryFinalize, At
<1>2. SameLabels(i) /\ StateOK
  BY <1>0, <1>1, UnchangedState DEF SameLabels
<1>3. ASSUME open[i], ~Disturbed(i)
      PROVE  Phase(i) /\ Joining(i) /\ Judging(i) /\ Judged(i) /\ ~DevAt(i) /\ ~Resetting(i)
             /\ CurrentIteration(i) = run[f].iteration
  <2>1. Phase(i) /\ Joining(i) /\ Judging(i) /\ Judged(i)
    BY <1>1, <1>3, InvAt DEF Joining, Judging, Judged
  <2> QED BY <2>1, AtWork DEF Phase, JudgePhase
<1>4. CASE NothingToJoin(i, run[f].iteration)
  <2>1. Becomes(End(KickPicker(Now), f)) /\ edits' = edits
    BY <1>4 DEF TryFinalize
  <2>2. Doms /\ History /\ RunEnds(f) /\ RestOrKicked({f})
    BY <1>0, <2>1, KickEnds
  <2>3. Calm({f}) /\ DOMAIN edits' = Jobs
    BY <1>0, <2>1, <2>2, CalmFromRest
  <2>4. /\ JobOK(f, run'[f], pending'[f], edits'[f])
        /\ run'[f].pc \in {"idle", "join"}
    BY <1>0, <1>1, <2>1, <2>2, EndedOK
  <2>5. Typed'
    BY <1>0, <1>2, <2>2, <2>3, <2>4, TypedStep, TypedNow DEF JobNowOK
  <2>6. /\ SameJob(Dev) /\ SameJob(Feedback(i)) /\ \A s \in Verifiers : SameJob(Verify(s, i))
        /\ DevAt(i)' <=> DevAt(i)
        /\ Resetting(i)' <=> Resetting(i)
        /\ Dispatching(i)' = Dispatching(i)
        /\ {f} \subseteq JobsOf(i)
    BY <1>0, <2>3, FinalizeAlone
  <2>7. ASSUME open'[i], ~Disturbed(i)' PROVE Phase(i)'
    <3>1. judged'[i] = judged[i] /\ open[i] /\ ~Disturbed(i)
      BY <1>1, <2>2, <2>7 DEF History, Disturbed
    <3>2. ASSUME NeedsRework \notin labels[i], ReadyToMerge \notin labels[i] PROVE Held(i)'
      <4>1. PICK s \in Joined : ResultFromLabels(i, s) = {}
        BY <1>3, <1>4, <3>1, <3>2 DEF NothingToJoin
      <4>2. ~HasResult(i, s)
        BY <4>1 DEF ResultFromLabels, HasResult
      <4>3. s # "gate"
        BY <1>3, <3>1, <4>2 DEF Phase, JudgePhase
      <4>4. s \in Verifiers /\ Running(Verify(s, i))
        BY <1>3, <3>1, <4>2, <4>3 DEF Phase, JudgePhase, Joined, Running
      <4>5. Running(Verify(s, i))'
        BY <2>6, <4>4 DEF SameJob, Running
      <4> QED BY <4>4, <4>5 DEF Held, Judging
    <3>3. edits'[f] = <<>> /\ DevKeeps
      BY <1>1, <2>1, <2>6 DEF SameJob, DevKeeps
    <3>4. labels'[i] = labels[i] /\ branch'[i] = branch[i]
      BY <1>1
    <3> QED BY <1>0, <1>2, <1>3, <2>2, <2>6, <3>1, <3>2, <3>3, <3>4, FinalizeEndsPhase
  <2>8. Elsewhere(i) /\ misread'[i] = misread[i] /\ branch'[i] <= branch[i]
        /\ \A k \in Issues \ {i} : judged'[k] = judged[k]
    BY <1>0, <1>1, <2>2, TypedNow, HarnessAssumption DEF Elsewhere, History
  <2>9. ~Retrying(i)'
    BY <2>4 DEF Retrying
  <2> QED BY <1>2, <2>3, <2>5, <2>6, <2>7, <2>8, <2>9, JudgeStep DEF SameLabels
<1>5. CASE ~NothingToJoin(i, run[f].iteration)
  <2> DEFINE es == FinalizeIteration(AllGreen(i))
             pc == IF AllGreen(i) THEN "checks" ELSE "kick-retry"
  <2>0. /\ AllGreen(i) => es = Green /\ pc = "checks"
        /\ ~AllGreen(i) => es = Red /\ pc = "kick-retry"
        /\ pc \in AllSteps
    <3>1. AllGreen(i) => es = Green /\ pc = "checks"
      BY DEF Green, FinalizeIteration
    <3>2. ~AllGreen(i) => es = Red /\ pc = "kick-retry"
      BY DEF Red, FinalizeIteration
    <3>3. pc \in AllSteps
      BY DEF AllSteps
    <3> QED BY <3>1, <3>2, <3>3
  <2>1. Becomes(Goto(Now, f, pc)) /\ edits' = [edits EXCEPT ![f] = es]
    BY <1>5 DEF TryFinalize
  <2> HIDE DEF es, pc
  <2>2. Doms /\ History /\ RunGoes(f, pc) /\ Rest({f})
    BY <1>0, <2>0, <2>1, GoesTo
  <2>3. DOMAIN edits' = Jobs /\ edits'[f] = es /\ \A k \in Jobs \ {f} : edits'[k] = edits[k]
    BY <1>0, <2>1
  <2>4. Calm({f})
    BY <2>2, <2>3, CalmFromRest
  <2>5. JobOK(f, run'[f], pending'[f], edits'[f])
    BY <1>0, <1>1, <2>0, <2>2, <2>3, FinalizeOK DEF RunGoes
  <2>6. Typed'
    BY <1>0, <1>2, <2>2, <2>3, <2>4, <2>5, TypedStep, TypedNow DEF JobNowOK
  <2>7. /\ SameJob(Dev) /\ SameJob(Feedback(i)) /\ \A s \in Verifiers : SameJob(Verify(s, i))
        /\ DevAt(i)' <=> DevAt(i)
        /\ Resetting(i)' <=> Resetting(i)
        /\ Dispatching(i)' = Dispatching(i)
        /\ {f} \subseteq JobsOf(i)
    BY <1>0, <2>4, FinalizeAlone
  <2>8. ASSUME open'[i], ~Disturbed(i)' PROVE Phase(i)'
    <3>1. judged'[i] = judged[i] /\ open[i] /\ ~Disturbed(i)
      BY <1>1, <2>2, <2>8 DEF History, Disturbed
    <3>2. DevPhase(i)'
      BY <1>3, <2>7, <3>1, DevAwayPhase
    <3>3. edits'[f] # <<>> /\ edits'[f] # DropMerge
      BY <2>0, <2>3, EditsDiffer
    <3>4. HeldPhase(i)'
      BY <3>3 DEF HeldPhase, Held, Judging
    <3>5. ASSUME NEW s \in Verifiers, run'[f].pc \in {"checks", "merge"}
          PROVE  s \in judged[i] /\ run[Verify(s, i)].pc \notin {"guard", "agent"}
      <4>1. AllGreen(i)
        BY <2>0, <2>2, <3>5 DEF RunGoes
      <4>2. ResultFromLabels(i, s) = {TRUE}
        BY <4>1 DEF AllGreen, Joined
      <4>3. Passed(s) \in labels[i]
        BY <4>2 DEF ResultFromLabels
      <4> QED BY <1>3, <3>1, <4>3 DEF Phase, VerdictPhase, HasResult
    <3>6. /\ run'[f].iteration = run[f].iteration /\ pending'[f] = pending[f]
          /\ Joining(i)' => Joining(i)
      BY <1>3, <2>2, <3>1 DEF RunGoes
    <3>7. JudgePhase(i)' /\ VerdictPhase(i)'
      BY <1>1, <1>2, <1>3, <2>7, <3>1, <3>3, <3>5, <3>6, FinalizeGoes DEF SameLabels
    <3> QED BY <3>2, <3>4, <3>7 DEF Phase
  <2>9. Elsewhere(i) /\ misread'[i] = misread[i] /\ branch'[i] <= branch[i]
        /\ \A k \in Issues \ {i} : judged'[k] = judged[k]
    BY <1>0, <1>1, <2>2, TypedNow, HarnessAssumption DEF Elsewhere, History
  <2>10. ASSUME Retrying(i)' PROVE Level(i) < MaxIterations
    <3>1. CurrentIteration(i) = run[f].iteration /\ run[f].iteration > 0
      BY <1>0, <1>1, <1>5, FinalizeOK DEF NothingToJoin
    <3>2. ~LabelIsOff(i)
      <4>1. ASSUME LabelIsOff(i) PROVE CurrentIteration(i) = 0
        <5>1. LevelOf(i) /\ LabelIsOff(i) /\ DevAt(i)
          BY <4>1, InvAt, LevelIs
        <5> QED BY <5>1, CurrentIs DEF LevelOf, LabelIsOff
      <4> QED BY <3>1, <4>1
    <3>3. run'[f].iteration < MaxIterations /\ run'[f].iteration = run[f].iteration
      BY <2>2, <2>10 DEF Retrying, RunGoes
    <3> QED BY <3>1, <3>2, <3>3, InvAt, LevelIs
  <2> QED BY <1>2, <2>4, <2>6, <2>7, <2>8, <2>9, <2>10, JudgeStep DEF SameLabels
<1> QED BY <1>4, <1>5

LEMMA FinalizeWaitsForChecksKeeps ==
    ASSUME Inv, NEW i \in Issues, FinalizeWaitsForChecks(i)
    PROVE  Inv'
<1> DEFINE f == Finalize(i)
<1>0. Typed /\ JobsOK /\ f \in Jobs /\ JobOK(f, run[f], pending[f], edits[f]) /\ DOMAIN edits = Jobs
  BY InvAt, JobNames DEF JobsOK
<1>1. run[f].pc = "checks" /\ edits[f] = <<>> /\ UNCHANGED <<labels, open, branch, ci>>
  BY DEF FinalizeWaitsForChecks, At
<1>2. SameLabels(i) /\ StateOK
  BY <1>0, <1>1, UnchangedState DEF SameLabels
<1>3. PICK pc \in {"kick", "merge"} :
        /\ Becomes(Goto(Now, f, pc))
        /\ \/ edits' = [edits EXCEPT ![f] = HandBack] /\ pc = "kick"
           \/ edits' = edits /\ (branch[i] # 0 => pc = "merge")
  <2>1. CASE branch[i] # 0 /\ ci[i] # "green"
    BY <2>1 DEF FinalizeWaitsForChecks
  <2>2. CASE ~(branch[i] # 0 /\ ci[i] # "green") /\ branch[i] = 0
    BY <2>2 DEF FinalizeWaitsForChecks
  <2>3. CASE ~(branch[i] # 0 /\ ci[i] # "green") /\ branch[i] # 0
    BY <2>3 DEF FinalizeWaitsForChecks
  <2> QED BY <2>1, <2>2, <2>3
<1>4. Doms /\ History /\ RunGoes(f, pc) /\ Rest({f})
  BY <1>0, <1>3, GoesTo DEF AllSteps
<1>5. /\ DOMAIN edits' = Jobs /\ \A k \in Jobs \ {f} : edits'[k] = edits[k]
      /\ (edits'[f] = HandBack /\ pc = "kick") \/ (edits'[f] = <<>> /\ (branch[i] # 0 => pc = "merge"))
  BY <1>0, <1>1, <1>3
<1>6. Calm({f})
  BY <1>4, <1>5, CalmFromRest
<1>7. JobOK(f, run'[f], pending'[f], edits'[f])
  BY <1>0, <1>1, <1>4, <1>5, FinalizeOK DEF RunGoes
<1>8. Typed'
  BY <1>0, <1>2, <1>4, <1>5, <1>6, <1>7, TypedStep, TypedNow DEF JobNowOK
<1>9. /\ SameJob(Dev) /\ SameJob(Feedback(i)) /\ \A s \in Verifiers : SameJob(Verify(s, i))
      /\ DevAt(i)' <=> DevAt(i)
      /\ Resetting(i)' <=> Resetting(i)
      /\ Dispatching(i)' = Dispatching(i)
      /\ {f} \subseteq JobsOf(i)
  BY <1>0, <1>6, FinalizeAlone
<1>10. ASSUME open'[i], ~Disturbed(i)' PROVE Phase(i)'
  <2>1. judged'[i] = judged[i] /\ Phase(i)
    BY <1>1, <1>4, <1>10, InvAt DEF History, Disturbed
  <2>2. Joining(i) /\ Judging(i) /\ Judged(i)
    BY <1>1 DEF Joining, Judging, Judged
  <2>3. ~DevAt(i) /\ branch[i] # 0
    BY <2>1, <2>2, AtWork DEF Phase, JudgePhase
  <2>4. DevPhase(i)'
    BY <1>9, <2>3, DevAwayPhase
  <2>5. edits'[f] # <<>> \/ Joining(i)'
    BY <1>4, <1>5, <2>3, EditsDiffer DEF RunGoes, Joining
  <2>6. HeldPhase(i)'
    BY <2>5 DEF HeldPhase, Held, Judging, Joining
  <2>7. edits'[f] # DropMerge
    BY <1>5, EditsDiffer
  <2>8. \A s \in Verifiers : s \in judged[i] /\ run[Verify(s, i)].pc \notin {"guard", "agent"}
    BY <1>1, <2>1 DEF Phase, VerdictPhase
  <2>9. JudgePhase(i)' /\ VerdictPhase(i)'
    BY <1>1, <1>2, <1>4, <1>9, <2>1, <2>2, <2>7, <2>8, FinalizeGoes DEF RunGoes, SameLabels
  <2> QED BY <2>4, <2>6, <2>9 DEF Phase
<1>11. Elsewhere(i) /\ misread'[i] = misread[i] /\ branch'[i] <= branch[i]
       /\ \A k \in Issues \ {i} : judged'[k] = judged[k]
  BY <1>0, <1>1, <1>4, TypedNow, HarnessAssumption DEF Elsewhere, History
<1>12. ~Retrying(i)'
  BY <1>3, <1>4 DEF Retrying, RunGoes
<1> QED BY <1>2, <1>6, <1>8, <1>9, <1>10, <1>11, <1>12, JudgeStep DEF SameLabels

LEMMA FinalizeMergesKeeps ==
    ASSUME Inv, NEW i \in Issues, FinalizeMerges(i)
    PROVE  Inv'
<1> DEFINE f == Finalize(i)
<1>0. Typed /\ JobsOK /\ f \in Jobs /\ JobOK(f, run[f], pending[f], edits[f]) /\ DOMAIN edits = Jobs
  BY InvAt, JobNames DEF JobsOK
<1>1. run[f].pc = "merge" /\ edits[f] = <<>> /\ labels' = labels /\ Becomes(Goto(Now, f, "kick"))
  BY DEF FinalizeMerges, At
<1>2. SameLabels(i)
  BY <1>1 DEF SameLabels, SameVerdicts, SameVerdict, SameIterations, SameRework, SameMerge
<1>3. Doms /\ History /\ RunGoes(f, "kick") /\ Rest({f})
  BY <1>0, <1>1, GoesTo DEF AllSteps
<1>4. /\ DOMAIN edits' = Jobs /\ \A k \in Jobs \ {f} : edits'[k] = edits[k]
      /\ edits'[f] = <<>> \/ edits'[f] = HandBack
      /\ open'[i] => edits'[f] = HandBack /\ open'[i] = open[i] /\ branch'[i] = branch[i]
      /\ open' \in [Issues -> BOOLEAN] /\ branch' \in [Issues -> 0..MaxLabel] /\ branch'[i] <= branch[i]
      /\ ci' \in [Issues -> {"none", "running", "green", "red"}]
      /\ \A k \in Issues \ {i} : open'[k] = open[k] /\ branch'[k] = branch[k]
  <2>0. /\ open \in [Issues -> BOOLEAN] /\ branch \in [Issues -> 0..MaxLabel] /\ MaxLabel \in Nat
        /\ ci \in [Issues -> {"none", "running", "green", "red"}]
    BY <1>0, TypedNow, HarnessAssumption
  <2>1. CASE /\ branch' = [branch EXCEPT ![i] = 0] /\ ci' = [ci EXCEPT ![i] = "none"]
             /\ open' = [open EXCEPT ![i] = FALSE] /\ UNCHANGED edits
    BY <1>0, <1>1, <2>0, <2>1
  <2>2. CASE edits' = [edits EXCEPT ![f] = HandBack] /\ UNCHANGED <<open, branch, ci>>
    BY <1>0, <1>1, <2>0, <2>2
  <2> QED BY <2>1, <2>2 DEF FinalizeMerges
<1>5. StateOK /\ HistoryOK
  BY <1>0, <1>1, <1>3, <1>4, TypedNow DEF StateOK
<1>6. Calm({f})
  BY <1>3, <1>4, CalmFromRest
<1>7. JobOK(f, run'[f], pending'[f], edits'[f])
  BY <1>0, <1>1, <1>3, <1>4, FinalizeOK DEF RunGoes
<1>8. Typed'
  BY <1>0, <1>3, <1>4, <1>5, <1>6, <1>7, TypedStep DEF JobNowOK
<1>9. /\ SameJob(Dev) /\ SameJob(Feedback(i)) /\ \A s \in Verifiers : SameJob(Verify(s, i))
      /\ DevAt(i)' <=> DevAt(i)
      /\ Resetting(i)' <=> Resetting(i)
      /\ Dispatching(i)' = Dispatching(i)
      /\ {f} \subseteq JobsOf(i)
  BY <1>0, <1>6, FinalizeAlone
<1>10. ASSUME open'[i], ~Disturbed(i)' PROVE Phase(i)'
  <2>1. judged'[i] = judged[i] /\ Phase(i) /\ branch'[i] = branch[i] /\ edits'[f] = HandBack
    BY <1>3, <1>4, <1>10, InvAt DEF History, Disturbed
  <2>2. Joining(i) /\ Judging(i)
    BY <1>1 DEF Joining, Judging
  <2>3. DevPhase(i)'
    BY <1>9, <2>1, <2>2, AtWork, DevAwayPhase
  <2>4. HeldPhase(i)' /\ edits'[f] # DropMerge
    BY <2>1, EditsDiffer DEF HeldPhase, Held, Judging
  <2>5. \A s \in Verifiers : s \in judged[i] /\ run[Verify(s, i)].pc \notin {"guard", "agent"}
    BY <1>1, <2>1 DEF Phase, VerdictPhase
  <2>6. JudgePhase(i)' /\ VerdictPhase(i)'
    BY <1>2, <1>3, <1>9, <2>1, <2>2, <2>4, <2>5, FinalizeGoes DEF RunGoes, SameLabels
  <2> QED BY <2>3, <2>4, <2>6 DEF Phase
<1>11. Elsewhere(i) /\ misread'[i] = misread[i] /\ \A k \in Issues \ {i} : judged'[k] = judged[k]
  BY <1>1, <1>3, <1>4 DEF Elsewhere, History
<1>12. ~Retrying(i)'
  BY <1>3 DEF Retrying, RunGoes
<1> QED BY <1>2, <1>4, <1>6, <1>8, <1>9, <1>10, <1>11, <1>12, JudgeStep DEF SameLabels

LEMMA FinalizeKicksPickerKeeps ==
    ASSUME Inv, NEW i \in Issues, FinalizeKicksPicker(i)
    PROVE  Inv'
<1> DEFINE f == Finalize(i)
<1>0. Typed /\ JobsOK /\ f \in Jobs /\ JobOK(f, run[f], pending[f], edits[f]) /\ DOMAIN edits = Jobs
      /\ \A p \in Pickers : f # Picker(p)
  BY InvAt, JobNames, JobsDiffer DEF JobsOK
<1>1. edits[f] = <<>> /\ UNCHANGED <<labels, open, branch, ci, edits>>
  BY DEF FinalizeKicksPicker, At
<1>2. SameLabels(i) /\ StateOK
  BY <1>0, <1>1, UnchangedState DEF SameLabels
<1>3. CASE run[f].pc = "kick" /\ Becomes(End(KickPicker(Now), f))
  <2>1. Doms /\ History /\ RunEnds(f) /\ RestOrKicked({f})
    BY <1>0, <1>3, KickEnds
  <2>2. Calm({f}) /\ DOMAIN edits' = Jobs
    BY <1>0, <1>1, <2>1, CalmFromRest
  <2>3. /\ JobOK(f, run'[f], pending'[f], edits'[f])
        /\ pending[f] # <<>> => run'[f].pc = "join"
    BY <1>0, <1>1, <2>1, EndedOK
  <2>4. run'[f].pc \in {"idle", "join"}
    BY <2>1, <2>3, StartsOK DEF RunEnds
  <2>5. Typed'
    BY <1>0, <1>2, <2>1, <2>2, <2>3, TypedStep, TypedNow DEF JobNowOK
  <2>6. /\ SameJob(Dev) /\ SameJob(Feedback(i)) /\ \A s \in Verifiers : SameJob(Verify(s, i))
        /\ DevAt(i)' <=> DevAt(i)
        /\ Resetting(i)' <=> Resetting(i)
        /\ Dispatching(i)' = Dispatching(i)
        /\ {f} \subseteq JobsOf(i)
    BY <1>0, <2>2, FinalizeAlone
  <2>7. Held(i) => Held(i)'
    <3>1. Judging(i) => Judging(i)'
      BY <1>1, <1>3, <2>3, <2>6 DEF Judging, Running, SameJob
    <3> QED BY <2>6, <3>1 DEF Held, SameJob, Running, Waiting
  <2>8. ASSUME open'[i], ~Disturbed(i)' PROVE Phase(i)'
    <3>1. judged'[i] = judged[i] /\ Phase(i)
      BY <1>1, <2>1, <2>8, InvAt DEF History, Disturbed
    <3>2. edits'[f] = <<>> /\ DevKeeps /\ labels'[i] = labels[i] /\ branch'[i] = branch[i]
      BY <1>1, <2>6 DEF SameJob, DevKeeps
    <3> QED BY <1>0, <1>2, <2>1, <2>6, <2>7, <3>1, <3>2, FinalizeEndsPhase
  <2>9. Elsewhere(i) /\ misread'[i] = misread[i] /\ branch'[i] <= branch[i]
        /\ \A k \in Issues \ {i} : judged'[k] = judged[k]
    BY <1>0, <1>1, <2>1, TypedNow, HarnessAssumption DEF Elsewhere, History
  <2>10. ~Retrying(i)'
    BY <2>4 DEF Retrying
  <2> QED BY <1>2, <2>2, <2>5, <2>6, <2>8, <2>9, <2>10, JudgeStep DEF SameLabels
<1>4. CASE run[f].pc = "kick-retry" /\ Becomes(Goto(KickPicker(Now), f, "retry"))
  <2>1. Doms /\ History /\ RunGoes(f, "retry") /\ RestOrKicked({f})
    BY <1>0, <1>4, KickGoes DEF AllSteps
  <2>2. Calm({f}) /\ DOMAIN edits' = Jobs
    BY <1>0, <1>1, <2>1, CalmFromRest
  <2>3. JobOK(f, run'[f], pending'[f], edits'[f])
    BY <1>0, <1>1, <1>4, <2>1, FinalizeOK DEF RunGoes
  <2>5. Typed'
    BY <1>0, <1>2, <2>1, <2>2, <2>3, TypedStep, TypedNow DEF JobNowOK
  <2>6. /\ SameJob(Dev) /\ SameJob(Feedback(i)) /\ \A s \in Verifiers : SameJob(Verify(s, i))
        /\ DevAt(i)' <=> DevAt(i)
        /\ Resetting(i)' <=> Resetting(i)
        /\ Dispatching(i)' = Dispatching(i)
        /\ {f} \subseteq JobsOf(i)
    BY <1>0, <2>2, FinalizeAlone
  <2>7. Judging(i)' <=> Judging(i)
    BY <1>1, <1>4, <2>1, <2>6 DEF Judging, Running, SameJob, RunGoes
  <2>8. Held(i) => Held(i)'
    BY <2>6, <2>7 DEF Held, SameJob, Running, Waiting
  <2>9. ASSUME open'[i], ~Disturbed(i)' PROVE Phase(i)'
    <3>1. judged'[i] = judged[i] /\ Phase(i)
      BY <1>1, <2>1, <2>9, InvAt DEF History, Disturbed
    <3>2. \A s \in Stages : HasResult(i, s)' <=> HasResult(i, s)
      BY <1>1 DEF HasResult
    <3>3. DevPhase(i)'
      BY <1>1, <2>6, <2>7, <3>1, <3>2, LabelNames DEF Phase, DevPhase, SameJob
    <3>4. HeldPhase(i)'
      BY <1>1, <2>8, <3>1 DEF Phase, HeldPhase
    <3>5. ~Joining(i)' /\ run'[f].pc \notin {"checks", "merge"} /\ edits'[f] # DropMerge
      BY <1>1, <2>1, EditsDiffer DEF Joining, RunGoes
    <3>6. JudgePhase(i)' /\ VerdictPhase(i)'
      BY <1>1, <1>2, <2>1, <2>6, <3>1, <3>5, FinalizeGoes DEF RunGoes, SameLabels
    <3> QED BY <3>3, <3>4, <3>6 DEF Phase
  <2>10. Elsewhere(i) /\ misread'[i] = misread[i] /\ branch'[i] <= branch[i]
        /\ \A k \in Issues \ {i} : judged'[k] = judged[k]
    BY <1>0, <1>1, <2>1, TypedNow, HarnessAssumption DEF Elsewhere, History
  <2>11. Retrying(i)' => Retrying(i)
    BY <1>4, <2>1 DEF Retrying, RunGoes
  <2> QED BY <1>2, <2>2, <2>5, <2>6, <2>9, <2>10, <2>11, JudgeStep DEF SameLabels
<1> QED BY <1>3, <1>4 DEF FinalizeKicksPicker, At

LEMMA FinalizeRetriesKeeps ==
    ASSUME Inv, NEW i \in Issues, FinalizeRetries(i)
    PROVE  Inv'
<1> DEFINE f == Finalize(i)
<1>0. Typed /\ JobsOK /\ f \in Jobs /\ f # Dev /\ JobOK(f, run[f], pending[f], edits[f]) /\ DOMAIN edits = Jobs
  BY InvAt, JobNames DEF JobsOK
<1>1. /\ run[f].pc = "retry" /\ edits[f] = <<>> /\ UNCHANGED <<labels, open, branch, ci, edits>>
      /\ edits'[f] = <<>>
  BY DEF FinalizeRetries, At
<1>2. StateOK /\ \A k \in Issues : SameLabels(k)
  BY <1>0, <1>1, UnchangedState DEF SameLabels
<1>3. CASE ~(run[f].iteration < MaxIterations)
  <2>0. Becomes(End(Now, f))
    BY <1>3 DEF FinalizeRetries
  <2>1. Doms /\ History /\ RunEnds(f) /\ Rest({f})
    BY <1>0, <2>0, EndsRun
  <2>2. Calm({f}) /\ DOMAIN edits' = Jobs
    BY <1>0, <1>1, <2>1, CalmFromRest
  <2>3. /\ JobOK(f, run'[f], pending'[f], edits'[f])
        /\ pending[f] # <<>> => run'[f].pc = "join"
    BY <1>0, <1>1, <2>1, EndedOK
  <2>4. run'[f].pc \in {"idle", "join"}
    BY <2>1, <2>3, StartsOK DEF RunEnds
  <2>5. Typed'
    BY <1>0, <1>2, <2>1, <2>2, <2>3, TypedStep, TypedNow DEF JobNowOK
  <2>6. /\ SameJob(Dev) /\ SameJob(Feedback(i)) /\ \A s \in Verifiers : SameJob(Verify(s, i))
        /\ DevAt(i)' <=> DevAt(i)
        /\ Resetting(i)' <=> Resetting(i)
        /\ Dispatching(i)' = Dispatching(i)
        /\ {f} \subseteq JobsOf(i)
    BY <1>0, <2>2, FinalizeAlone
  <2>7. Held(i) => Held(i)'
    <3>1. Judging(i) => Judging(i)'
      BY <1>1, <2>3, <2>6 DEF Judging, Running, SameJob
    <3> QED BY <2>6, <3>1 DEF Held, SameJob, Running, Waiting
  <2>8. ASSUME open'[i], ~Disturbed(i)' PROVE Phase(i)'
    <3>1. judged'[i] = judged[i] /\ Phase(i)
      BY <1>1, <2>1, <2>8, InvAt DEF History, Disturbed
    <3>2. edits'[f] = <<>> /\ DevKeeps /\ labels'[i] = labels[i] /\ branch'[i] = branch[i]
      BY <1>1, <2>6 DEF SameJob, DevKeeps
    <3> QED BY <1>0, <1>2, <2>1, <2>6, <2>7, <3>1, <3>2, FinalizeEndsPhase
  <2>9. Elsewhere(i) /\ misread'[i] = misread[i] /\ branch'[i] <= branch[i]
        /\ \A k \in Issues \ {i} : judged'[k] = judged[k]
    BY <1>0, <1>1, <2>1, TypedNow, HarnessAssumption DEF Elsewhere, History
  <2>10. ~Retrying(i)'
    BY <2>4 DEF Retrying
  <2> QED BY <1>2, <2>2, <2>5, <2>6, <2>8, <2>9, <2>10, JudgeStep DEF SameLabels
<1>4. CASE run[f].iteration < MaxIterations
  <2>0. Becomes(End(Send(Now, Dev, i, 0), f))
    BY <1>4 DEF FinalizeRetries
  <2>1. /\ Typed' /\ Calm({f, Dev}) /\ RunEnds(f) /\ Rest({f, Dev}) /\ misread' = misread
        /\ \A k \in Issues : judged'[k] = judged[k] \/ (k # i /\ Disturbed(k)')
    BY <1>0, <1>1, <2>0, AskDevDoes
  <2>2. \A k \in Issues :
          /\ LevelOf(k)' /\ Level(k)' = Level(k)
          /\ DevKeeps \/ (~DevAt(k)' /\ ~Resetting(k))
          /\ Running(Dev) /\ run[Dev].issue = k => Running(Dev)' /\ run'[Dev].issue = k
          /\ Waiting(k) => Waiting(k)' \/ Disturbed(k)'
          /\ k # i => (Preparing(k)' => Preparing(k)) /\ (Waiting(k)' => Waiting(k))
          /\ Given(Preparing(i)') + Given(Waiting(i)') <= Given(Preparing(i)) + Given(Waiting(i)) + 1
          /\ (Running(Dev)' /\ run'[Dev].issue = i) \/ Waiting(i)'
          /\ SameLabels(k) /\ branch'[k] = branch[k] /\ edits'[Feedback(k)] = edits[Feedback(k)]
          /\ labels'[k] = labels[k]
    BY <1>0, <1>1, <2>0, AskDevKeeps
  <2>3. /\ JobOK(f, run'[f], pending'[f], edits'[f])
        /\ pending[f] # <<>> => run'[f].pc = "join"
    BY <1>0, <1>1, <2>1, EndedOK
  <2>4. run'[f].pc \in {"idle", "join"}
    BY <2>1, <2>3, StartsOK DEF RunEnds
  <2>5. \A k \in Issues : Dispatching(k)' = Dispatching(k) /\ \A s \in Verifiers : SameJob(Verify(s, k))
    <3>1. NoPicker({f, Dev}) /\ \A k \in Issues, s \in Verifiers : Verify(s, k) \notin {f, Dev}
      BY JobNames, JobsDiffer DEF NoPicker
    <3> QED BY <1>0, <2>1, <3>1, CalmJobs
  <2>6. ASSUME NEW k \in Issues, k # i PROVE SameJudges(k) /\ (Retrying(k)' <=> Retrying(k))
    <3>1. Finalize(k) \notin {f, Dev}
      BY <2>6, JobNames, JobsDiffer
    <3>2. SameJudges(k)
      BY <1>0, <2>1, <2>5, <3>1, CalmJobs DEF SameJudges
    <3> QED BY <3>2 DEF SameJudges, SameJob, Retrying
  <2>7. ASSUME NEW k \in Issues PROVE CapOf(k)'
    <3>1. CASE k # i
      <4>1. Requests(k)' <= Requests(k)
        BY <2>2, <2>5, <2>6, <3>1, RequestsFew
      <4> QED BY <1>0, <2>1, <2>2, <4>1, InvAt, CapStays
    <3>2. CASE k = i
      <4>1. Cardinality(Dispatching(i)') = Cardinality(Dispatching(i)) /\ Cardinality(Dispatching(i)) \in Nat
        BY <2>5, RequestsAre
      <4>2. Retrying(i) /\ ~Retrying(i)'
        BY <1>1, <1>4, <2>4 DEF Retrying
      <4>3. Given(Retrying(i)) = 1 /\ Given(Retrying(i)') = 0
        BY <4>2 DEF Given
      <4>4. /\ Given(Preparing(i)) \in 0..1 /\ Given(Waiting(i)) \in 0..1
            /\ Given(Preparing(i)') \in 0..1 /\ Given(Waiting(i)') \in 0..1
        BY DEF Given
      <4>5. Given(Preparing(i)') + Given(Waiting(i)') <= Given(Preparing(i)) + Given(Waiting(i)) + 1
        BY <2>2
      <4>6. /\ Requests(i)' = Cardinality(Dispatching(i)') + Given(Preparing(i)') + Given(Waiting(i)') + Given(Retrying(i)')
            /\ Requests(i) = Cardinality(Dispatching(i)) + Given(Preparing(i)) + Given(Waiting(i)) + Given(Retrying(i))
        BY DEF Requests, Given
      <4>7. Requests(i)' <= Requests(i)
        BY <4>1, <4>3, <4>4, <4>5, <4>6
      <4> QED BY <1>0, <2>1, <2>2, <3>2, <4>7, InvAt, CapStays
    <3> QED BY <3>1, <3>2
  <2>8. ASSUME NEW k \in Issues, open'[k], ~Disturbed(k)' PROVE Phase(k)'
    <3>1. judged'[k] = judged[k] /\ Phase(k)
      BY <1>1, <2>1, <2>8, InvAt DEF Disturbed
    <3>2. CASE k # i
      <4>1. Held(k) => Held(k)'
        BY <2>2, <2>5, <2>6, <2>8, <3>2, HeldStays
      <4> QED BY <2>2, <2>6, <3>1, <3>2, <4>1, FramePhase
    <3>3. CASE k = i
      <4>1. Held(i)'
        BY <2>2 DEF Held
      <4> QED BY <1>0, <1>1, <2>1, <2>2, <2>5, <3>1, <3>3, <4>1, FinalizeEndsPhase
    <3> QED BY <3>2, <3>3
  <2> QED BY <2>1, <2>2, <2>7, <2>8, InvAgain
<1> QED BY <1>3, <1>4

-----------------------------------------------------------------------------
(* Edits by those who judge, and the CI of a branch.                        *)

\* An edit leaves every run as it is.
LEMMA EditLabelDoes ==
    ASSUME Typed, NEW j \in Jobs, NEW i \in Issues, edits[j] # <<>>,
           i = IF j = Dev \/ j[1] = "picker" THEN run[j].issue ELSE j[2],
           EditLabel(j), Head(edits[j]).add \subseteq AllLabels,
           JobOK(j, run[j], pending[j], Tail(edits[j]))
    PROVE  /\ Typed' /\ History /\ Elsewhere(i) /\ UNCHANGED <<open, branch, run, pending>>
           /\ edits'[j] = Tail(edits[j]) /\ \A k \in Jobs \ {j} : edits'[k] = edits[k]
           /\ Calm({j}) /\ Edited(i, Head(edits[j]))
<1>1. Edit(j, i, edits[j]) /\ UNCHANGED <<open, branch, ci, run, pending, judged, misread>>
  BY DEF EditLabel
<1>2. /\ DOMAIN edits' = Jobs /\ edits'[j] = Tail(edits[j])
      /\ \A k \in Jobs \ {j} : edits'[k] = edits[k]
      /\ Edited(i, Head(edits[j]))
  BY <1>1, EditIs, ZenonT(40)
<1>3. StateOK /\ Elsewhere(i)
  BY <1>1, EditState
<1>4. Doms /\ Calm({j}) /\ JobNowOK(j) /\ History
  BY <1>1, <1>2, TypedNow DEF JobsOK, Doms, Calm, JobNowOK, History
<1>5. Typed'
  BY <1>2, <1>3, <1>4, TypedNow, TypedStep
<1> QED BY <1>1, <1>2, <1>3, <1>4, <1>5

LEMMA PickerEditKeeps ==
    ASSUME Inv, NEW p \in Pickers, EditLabel(Picker(p))
    PROVE  Inv'
<1> DEFINE j == Picker(p)
<1>0. Typed /\ JobsOK /\ j \in Jobs /\ JobOK(j, run[j], pending[j], edits[j]) /\ j[1] = "picker"
  BY InvAt, JobNames DEF JobsOK
<1>a. edits[j] # <<>>
  BY DEF EditLabel
<1>1. /\ edits[j] = AddReady /\ run[j].pc = "dispatch" /\ run[j].issue \in Issues
      /\ JobOK(j, run[j], pending[j], <<>>)
  BY <1>0, <1>a, PickerOK
<1>2. PICK i \in Issues : i = run[j].issue
  BY <1>1
<1>3. /\ Head(edits[j]) = Add(ReadyForDev) /\ Tail(edits[j]) = <<>>
      /\ Add(ReadyForDev).add \subseteq AllLabels
  BY <1>1, Heads, LabelNames DEF Add
<1>4. /\ Typed' /\ History /\ Elsewhere(i) /\ UNCHANGED <<open, branch, run, pending>>
      /\ edits'[j] = <<>> /\ \A k \in Jobs \ {j} : edits'[k] = edits[k]
      /\ Calm({j}) /\ Edited(i, Add(ReadyForDev))
  BY <1>0, <1>1, <1>2, <1>3, <1>a, EditLabelDoes
<1>5. ASSUME NEW k \in Issues
      PROVE  /\ SameLabels(k)
             /\ k # i => labels'[k] = labels[k]
  <2>1. CASE k = i
    BY <1>4, <2>1, EditReady DEF SameLabels
  <2>2. CASE k # i
    BY <1>4, <2>2 DEF Elsewhere, SameLabels, SameVerdicts, SameVerdict, SameIterations, SameRework, SameMerge
  <2> QED BY <2>1, <2>2
<1>6. ASSUME NEW k \in Issues
      PROVE  SameJob(Dev) /\ SameJob(Feedback(k)) /\ SameJudges(k)
  <2>1. Dev # j /\ Feedback(k) # j /\ Finalize(k) # j /\ \A s \in Verifiers : Verify(s, k) # j
    BY JobNames, JobsDiffer
  <2> QED BY <1>4, <2>1, JobNames DEF SameJob, SameJudges
<1>7. ASSUME NEW k \in Issues
      PROVE  /\ Dispatching(k)' = Dispatching(k) /\ (Preparing(k)' <=> Preparing(k))
             /\ Waiting(k)' <=> Waiting(k)
             /\ Retrying(k)' <=> Retrying(k)
  BY <1>4 DEF Dispatching, Preparing, Waiting, Retrying
<1>8. DevKeeps /\ \A k \in Issues : branch'[k] = branch[k] /\ misread'[k] = misread[k]
  BY <1>4, <1>6 DEF DevKeeps, SameJob, History
<1>9. ASSUME NEW k \in Issues PROVE LevelOf(k)' /\ CapOf(k)'
  <2>1. LevelOf(k)' /\ Level(k)' = Level(k)
    BY <1>0, <1>5, <1>8, InvAt, LevelIs, LevelStays DEF SameLabels, DevSteady
  <2>2. Requests(k)' <= Requests(k)
    BY <1>7, RequestsFew
  <2> QED BY <1>0, <1>4, <1>8, <2>1, <2>2, InvAt, CapStays
<1>10. ASSUME NEW k \in Issues, open'[k], ~Disturbed(k)' PROVE Phase(k)'
  <2>1. judged'[k] = judged[k] /\ Phase(k)
    BY <1>4, <1>10, InvAt DEF History, Disturbed
  <2>2. Held(k) => Held(k)'
    BY <1>6, <1>7, HeldStays DEF SameJob, Running
  <2>3. k = i => Held(k)'
    BY <1>1, <1>2, <1>4 DEF Held, Dispatching
  <2> QED BY <1>5, <1>6, <1>8, <2>1, <2>2, <2>3, FramePhase
<1> QED BY <1>4, <1>9, <1>10, InvAgain

LEMMA VerifyEditKeeps ==
    ASSUME Inv, NEW s \in Verifiers, NEW i \in Issues, EditLabel(Verify(s, i))
    PROVE  Inv'
<1> DEFINE j == Verify(s, i)
<1>0. /\ Typed /\ JobsOK /\ j \in Jobs /\ JobOK(j, run[j], pending[j], edits[j])
      /\ j[1] # "picker" /\ j # Dev /\ j[2] = i /\ s \in Stages
  BY InvAt, JobNames, LabelNames DEF JobsOK
<1>a. edits[j] # <<>>
  BY DEF EditLabel
<1>1. /\ \/ run[j].pc = "ensure" /\ (edits[j] = DropFailed(s) \/ edits[j] = DropPassed(s))
         \/ run[j].pc = "send" /\ (edits[j] = AddFailed(s) \/ edits[j] = DropPassed(s))
      /\ run[j].pc \in {"ensure", "send"}
  BY <1>0, <1>a, VerifyOK
<1>2. /\ edits[j] = DropFailed(s) => Head(edits[j]) = Drop({Failed(s)}) /\ Tail(edits[j]) = <<>>
      /\ edits[j] = DropPassed(s) => Head(edits[j]) = Drop({Passed(s)}) /\ Tail(edits[j]) = <<>>
      /\ edits[j] = AddFailed(s) => Head(edits[j]) = Add(Failed(s)) /\ Tail(edits[j]) = DropPassed(s)
  BY Heads
<1>3. Head(edits[j]).add \subseteq AllLabels
  BY <1>0, <1>1, <1>2, LabelNames DEF Add, Drop
<1>4. JobOK(j, run[j], pending[j], Tail(edits[j]))
  <2>1. Tail(edits[j]) = <<>> \/ (Tail(edits[j]) = DropPassed(s) /\ run[j].pc = "send")
    BY <1>1, <1>2, EditsDiffer
  <2> DEFINE es == Tail(edits[j])
  <2> HIDE DEF es
  <2>2. es = <<>> \/ (es = DropPassed(s) /\ run[j].pc = "send")
    BY <2>1 DEF es
  <2>3. JobOK(j, run[j], pending[j], es)
    BY <1>0, <2>2, VerifyOK
  <2> QED BY <2>3 DEF es
<1>5. i = IF j = Dev \/ j[1] = "picker" THEN run[j].issue ELSE j[2]
  BY <1>0
<1>6. /\ Typed' /\ History /\ Elsewhere(i) /\ UNCHANGED <<open, branch, run, pending>>
      /\ edits'[j] = Tail(edits[j]) /\ \A k \in Jobs \ {j} : edits'[k] = edits[k]
      /\ Calm({j}) /\ Edited(i, Head(edits[j]))
  BY <1>0, <1>3, <1>4, <1>5, <1>a, EditLabelDoes
<1>7. /\ SameJob(Dev) /\ SameJob(Finalize(i)) /\ SameJob(Feedback(i))
      /\ \A t \in Verifiers \ {s} : SameJob(Verify(t, i))
      /\ DevAt(i)' <=> DevAt(i)
      /\ Retrying(i)' <=> Retrying(i)
      /\ {j} \subseteq JobsOf(i)
  BY <1>0, <1>6, VerifyAlone
<1>b. DropPassed(s) # DropFailed(s) /\ DropFailed(s) # <<>> /\ DropPassed(s) # <<>>
  BY <1>0, EditsDiffer
<1>8. /\ \A t \in Stages \ {s} : SameVerdict(i, t)
      /\ SameIterations(i) /\ SameRework(i) /\ SameMerge(i)
      /\ edits[j] = DropFailed(s) => (Passed(s) \in labels'[i] <=> Passed(s) \in labels[i]) /\ edits'[j] = <<>>
      /\ edits[j] = DropPassed(s) => /\ Failed(s) \in labels'[i] <=> Failed(s) \in labels[i]
                                     /\ Passed(s) \notin labels'[i] /\ edits'[j] = <<>>
      /\ edits[j] = AddFailed(s) => /\ Failed(s) \in labels'[i] /\ edits'[j] = DropPassed(s)
                                    /\ Passed(s) \in labels'[i] <=> Passed(s) \in labels[i]
  <2>1. CASE edits[j] = DropFailed(s)
    BY <1>0, <1>2, <1>6, <1>b, <2>1, EditsDiffer, EditDropVerdict, ZenonT(40)
  <2>2. CASE edits[j] = DropPassed(s)
    BY <1>0, <1>2, <1>6, <1>b, <2>2, EditsDiffer, EditDropVerdict, ZenonT(40)
  <2>3. CASE edits[j] = AddFailed(s)
    BY <1>0, <1>2, <1>6, <1>b, <2>3, EditsDiffer, EditAddVerdict
  <2> QED BY <1>1, <2>1, <2>2, <2>3
<1>9. ASSUME open'[i], ~Disturbed(i)' PROVE Phase(i)'
  <2>1. judged'[i] = judged[i] /\ Phase(i) /\ Running(j) /\ Running(j)' /\ branch'[i] = branch[i]
    BY <1>1, <1>6, <1>9, InvAt DEF History, Disturbed, Running
  <2>2. /\ run'[j] = run[j] /\ pending'[j] = pending[j] /\ run'[j].pc \notin {"guard", "agent"}
        /\ run'[j].iteration = run[j].iteration
    BY <1>1, <1>6
  <2>3. ~Resetting(i)
    BY <2>1, AtWork DEF Judging
  <2>4. /\ edits[j] = DropFailed(s) => Passed(s) \in labels[i]
        /\ edits[j] = DropPassed(s) => Failed(s) \in labels[i]
        /\ Passed(s) \in labels[i] => s \in judged[i]
        /\ run[Finalize(i)].pc \in {"checks", "merge"} => s \in judged[i]
    BY <2>1, <2>3 DEF Phase, VerdictPhase
  <2>5. HasResult(i, s)'
    BY <1>1, <1>8, <2>4 DEF HasResult
  <2>6. Passed(s) \in labels'[i] => s \in judged'[i]
    BY <1>1, <1>8, <2>1, <2>4
  <2>7. /\ edits'[j] = DropFailed(s) => Passed(s) \in labels'[i]
        /\ edits'[j] = DropPassed(s) => Failed(s) \in labels'[i]
    BY <1>1, <1>8, <1>b
  <2>8. \A t \in Verifiers \ {s} : t \in judged[i] => t \in judged'[i]
    BY <2>1
  <2>9. run[Finalize(i)].pc \in {"checks", "merge"} => s \in judged'[i]
    BY <2>1, <2>4
  <2> QED BY <1>7, <1>8, <2>1, <2>2, <2>5, <2>6, <2>7, <2>8, <2>9, VerifyGoes
<1>10. misread'[i] = misread[i] /\ branch'[i] <= branch[i] /\ \A k \in Issues \ {i} : judged'[k] = judged[k]
  BY <1>0, <1>6, TypedNow, HarnessAssumption DEF History
<1> QED BY <1>6, <1>7, <1>8, <1>9, <1>10, JudgeStep

LEMMA FinalizeEditKeeps ==
    ASSUME Inv, NEW i \in Issues, EditLabel(Finalize(i))
    PROVE  Inv'
<1> DEFINE f == Finalize(i)
<1>0. /\ Typed /\ JobsOK /\ f \in Jobs /\ JobOK(f, run[f], pending[f], edits[f])
      /\ f[1] # "picker" /\ f # Dev /\ f[2] = i
  BY InvAt, JobNames DEF JobsOK
<1>a. edits[f] # <<>>
  BY DEF EditLabel
<1>1. \/ run[f].pc = "checks" /\ (edits[f] = Green \/ edits[f] = DropRework)
      \/ run[f].pc = "kick-retry" /\ (edits[f] = Red \/ edits[f] = DropMerge)
      \/ run[f].pc = "kick" /\ edits[f] = HandBack
  BY <1>0, <1>a, FinalizeOK
<1>2. /\ edits[f] = Green => /\ Head(edits[f]) = [add |-> {ReadyToMerge}, drop |-> {ReadyForDev}]
                             /\ Tail(edits[f]) = DropRework
      /\ edits[f] = DropRework => Head(edits[f]) = Drop({NeedsRework}) /\ Tail(edits[f]) = <<>>
      /\ edits[f] = Red => /\ Head(edits[f]) = [add |-> {NeedsRework}, drop |-> {ReadyForDev}]
                           /\ Tail(edits[f]) = DropMerge
      /\ edits[f] = DropMerge => Head(edits[f]) = Drop({ReadyToMerge}) /\ Tail(edits[f]) = <<>>
      /\ edits[f] = HandBack => /\ Head(edits[f]) = [add |-> {NeedsRework}, drop |-> {ReadyToMerge}]
                                /\ Tail(edits[f]) = <<>>
  BY Heads
<1>3. Head(edits[f]).add \subseteq AllLabels
  BY <1>1, <1>2, LabelNames DEF Drop
<1>b. \/ Tail(edits[f]) = <<>>
      \/ Tail(edits[f]) = DropRework /\ run[f].pc = "checks" /\ edits[f] = Green
      \/ Tail(edits[f]) = DropMerge /\ run[f].pc = "kick-retry" /\ edits[f] = Red
  BY <1>1, <1>2
<1>4. JobOK(f, run[f], pending[f], Tail(edits[f]))
  <2> DEFINE es == Tail(edits[f])
  <2> HIDE DEF es
  <2>2. \/ es = <<>> \/ (es = DropRework /\ run[f].pc = "checks")
        \/ es = DropMerge /\ run[f].pc = "kick-retry"
    BY <1>b DEF es
  <2>3. JobOK(f, run[f], pending[f], es)
    BY <1>0, <2>2, FinalizeOK
  <2> QED BY <2>3 DEF es
<1>5. i = IF f = Dev \/ f[1] = "picker" THEN run[f].issue ELSE f[2]
  BY <1>0
<1>6. /\ Typed' /\ History /\ Elsewhere(i) /\ UNCHANGED <<open, branch, run, pending>>
      /\ edits'[f] = Tail(edits[f]) /\ \A k \in Jobs \ {f} : edits'[k] = edits[k]
      /\ Calm({f}) /\ Edited(i, Head(edits[f]))
  BY <1>0, <1>3, <1>4, <1>5, <1>a, EditLabelDoes
<1>7. /\ SameJob(Dev) /\ SameJob(Feedback(i)) /\ \A s \in Verifiers : SameJob(Verify(s, i))
      /\ DevAt(i)' <=> DevAt(i)
      /\ Resetting(i)' <=> Resetting(i)
      /\ Dispatching(i)' = Dispatching(i)
      /\ {f} \subseteq JobsOf(i)
  BY <1>0, <1>6, FinalizeAlone
<1>8. /\ SameVerdicts(i) /\ SameIterations(i)
      /\ edits[f] = Red \/ edits[f] = HandBack => NeedsRework \in labels'[i]
      /\ edits[f] = DropMerge => (NeedsRework \in labels'[i] <=> NeedsRework \in labels[i])
  <2>1. CASE edits[f] = Green
    BY <1>2, <1>6, <2>1, EditGreen, EditsDiffer DEF SameRework
  <2>2. CASE edits[f] = DropRework
    <3>1. DropRework # Red /\ DropRework # HandBack
      <4>1. Head(DropRework) = Drop({NeedsRework}) /\ Drop({NeedsRework}).add = {}
        BY Heads DEF Drop
      <4>2. Head(Red) = [add |-> {NeedsRework}, drop |-> {ReadyForDev}]
        BY Heads
      <4>3. Head(HandBack) = [add |-> {NeedsRework}, drop |-> {ReadyToMerge}]
        BY Heads
      <4>4. \A d : [add |-> {NeedsRework}, drop |-> d].add # {}
        OBVIOUS
      <4>5. Head(Red).add # {} /\ Head(HandBack).add # {}
        BY <4>2, <4>3, <4>4
      <4>6. Head(DropRework).add = {}
        BY <4>1
      <4> QED BY <4>5, <4>6
    <3> QED BY <1>2, <1>6, <2>2, <3>1, EditDropRework, EditsDiffer
  <2>3. CASE edits[f] = Red
    BY <1>2, <1>6, <2>3, EditRed, EditsDiffer
  <2>4. CASE edits[f] = DropMerge
    BY <1>2, <1>6, <2>4, EditDropMerge, EditsDiffer DEF SameRework
  <2>5. CASE edits[f] = HandBack
    BY <1>2, <1>6, <2>5, EditHandBack, EditsDiffer
  <2> QED BY <1>1, <2>1, <2>2, <2>3, <2>4, <2>5
<1>9. ASSUME open'[i], ~Disturbed(i)' PROVE Phase(i)'
  <2>1. judged'[i] = judged[i] /\ Phase(i) /\ branch'[i] = branch[i] /\ run' = run /\ pending' = pending
    BY <1>6, <1>9, InvAt DEF History, Disturbed
  <2>2. DevPhase(i)'
    BY <1>7, <1>a, <2>1, AtWork, DevAwayPhase DEF Judging
  <2>3. edits[f] = DropMerge => NeedsRework \in labels[i]
    BY <2>1 DEF Phase, VerdictPhase
  <2>4. HeldPhase(i)'
    BY <1>1, <1>8, <2>1, <2>3 DEF HeldPhase, Held, Judging
  <2>5. edits'[f] = DropMerge => NeedsRework \in labels'[i]
    BY <1>6, <1>8, <1>b, EditsDiffer
  <2>6. /\ run'[f].iteration = run[f].iteration /\ pending'[f] = pending[f]
        /\ Joining(i)' => Joining(i)
        /\ run'[f].pc = run[f].pc
    BY <2>1 DEF Joining
  <2>7. run[f].pc \in {"checks", "merge"} =>
          \A s \in Verifiers : s \in judged[i] /\ run[Verify(s, i)].pc \notin {"guard", "agent"}
    BY <2>1 DEF Phase, VerdictPhase
  <2>8. JudgePhase(i)' /\ VerdictPhase(i)'
    BY <1>7, <1>8, <2>1, <2>5, <2>6, <2>7, FinalizeGoes
  <2> QED BY <2>2, <2>4, <2>8 DEF Phase
<1>10. misread'[i] = misread[i] /\ branch'[i] <= branch[i] /\ \A k \in Issues \ {i} : judged'[k] = judged[k]
  BY <1>0, <1>6, TypedNow, HarnessAssumption DEF History
<1>11. Retrying(i)' => Retrying(i)
  BY <1>6 DEF Retrying
<1> QED BY <1>6, <1>7, <1>8, <1>9, <1>10, <1>11, JudgeStep

\* Other jobs see nothing of an edit of the feedback loop.
LEMMA FeedbackAlone ==
    ASSUME JobsOK, NEW i \in Issues, Calm({Feedback(i)})
    PROVE  /\ SameJob(Dev) /\ DevKeeps /\ SameJudges(i)
           /\ Dispatching(i)' = Dispatching(i)
           /\ Retrying(i)' <=> Retrying(i)
           /\ {Feedback(i)} \subseteq JobsOf(i)
<1>1. /\ Dev # Feedback(i) /\ Finalize(i) # Feedback(i) /\ \A s \in Verifiers : Verify(s, i) # Feedback(i)
      /\ NoPicker({Feedback(i)})
  BY JobNames, JobsDiffer DEF NoPicker
<1>2. SameJob(Dev) /\ SameJudges(i) /\ Dispatching(i)' = Dispatching(i)
  BY <1>1, CalmJobs DEF SameJudges
<1> QED BY <1>2 DEF SameJob, SameJudges, DevKeeps, Retrying, JobsOf

LEMMA FeedbackEditKeeps ==
    ASSUME Inv, NEW i \in Issues, EditLabel(Feedback(i))
    PROVE  Inv'
<1> DEFINE j == Feedback(i)
<1>0. /\ Typed /\ JobsOK /\ j \in Jobs /\ JobOK(j, run[j], pending[j], edits[j])
      /\ j[1] # "picker" /\ j # Dev /\ j[2] = i
  BY InvAt, JobNames DEF JobsOK, Feedback
<1>a. edits[j] # <<>>
  BY DEF EditLabel
<1>1. edits[j] = AddRework
  BY <1>0, <1>a, FeedbackOK
<1>2. /\ Head(edits[j]) = Add(NeedsRework) /\ Tail(edits[j]) = <<>>
      /\ Add(NeedsRework).add \subseteq AllLabels
  BY <1>1, Heads, LabelNames DEF Add
<1>3. JobOK(j, run[j], pending[j], <<>>)
  BY <1>0, FeedbackOK
<1>4. i = IF j = Dev \/ j[1] = "picker" THEN run[j].issue ELSE j[2]
  BY <1>0
<1>5. /\ Typed' /\ History /\ Elsewhere(i) /\ UNCHANGED <<open, branch, run, pending>>
      /\ edits'[j] = <<>> /\ \A k \in Jobs \ {j} : edits'[k] = edits[k]
      /\ Calm({j}) /\ Edited(i, Add(NeedsRework))
  BY <1>0, <1>2, <1>3, <1>4, <1>a, EditLabelDoes
<1>6. SameVerdicts(i) /\ SameIterations(i) /\ NeedsRework \in labels'[i]
  BY <1>5, EditRework
<1>7. /\ SameJob(Dev) /\ DevKeeps /\ SameJudges(i)
      /\ Dispatching(i)' = Dispatching(i)
      /\ Retrying(i)' <=> Retrying(i)
      /\ {j} \subseteq JobsOf(i)
  BY <1>0, <1>5, FeedbackAlone
<1>8. ASSUME open'[i], ~Disturbed(i)' PROVE Phase(i)'
  <2>1. judged'[i] = judged[i] /\ Phase(i) /\ branch'[i] = branch[i]
    BY <1>5, <1>8, InvAt DEF History, Disturbed
  <2>2. DevPhase(i)' /\ JudgePhase(i)'
    BY <1>6, <1>7, <2>1, FrameDev, FrameJudge DEF Phase
  <2>3. Resetting(i) => Resetting(i)'
    BY <1>7 DEF Resetting, DevAt, DevKeeps
  <2>4. VerdictPhase(i)'
    BY <1>6, <1>7, <2>1, <2>3, FrameVerdict DEF Phase
  <2>5. HeldPhase(i)'
    BY <1>6 DEF HeldPhase
  <2> QED BY <2>2, <2>4, <2>5 DEF Phase
<1>9. misread'[i] = misread[i] /\ branch'[i] <= branch[i] /\ \A k \in Issues \ {i} : judged'[k] = judged[k]
  BY <1>0, <1>5, TypedNow, HarnessAssumption DEF History
<1> QED BY <1>5, <1>6, <1>7, <1>8, <1>9, JudgeStep

LEMMA CiEndsKeeps ==
    ASSUME Inv, NEW i \in Issues, CiEnds(i)
    PROVE  Inv'
<1> DEFINE j == Feedback(i)
<1>0. /\ Typed /\ JobsOK /\ j \in Jobs /\ JobOK(j, run[j], pending[j], edits[j]) /\ DOMAIN edits = Jobs
      /\ branch \in [Issues -> 0..MaxLabel] /\ ci \in [Issues -> {"none", "running", "green", "red"}]
      /\ open \in [Issues -> BOOLEAN]
  BY InvAt, TypedNow, JobNames DEF JobsOK
<1>1. PICK result \in {"green", "red"} :
        /\ ci' = [ci EXCEPT ![i] = result]
        /\ IF result = "green" THEN UNCHANGED <<labels, edits>>
           ELSE Edit(j, i, <<Drop({ReadyToMerge}), Add(NeedsRework)>>)
  BY DEF CiEnds
<1>2. edits[j] = <<>> /\ UNCHANGED <<open, branch, run, pending, judged, misread>>
  BY DEF CiEnds
<1>3. ci' \in [Issues -> {"none", "running", "green", "red"}]
  BY <1>0, <1>1
<1>4. History /\ HistoryOK /\ Doms /\ branch'[i] = branch[i]
  BY <1>0, <1>2, TypedNow DEF History, Doms, JobsOK
<1>5. /\ labels' \in [Issues -> SUBSET AllLabels] /\ \A k \in Issues \ {i} : labels'[k] = labels[k]
      /\ DOMAIN edits' = Jobs /\ \A k \in Jobs \ {j} : edits'[k] = edits[k]
      /\ SameVerdicts(i) /\ SameIterations(i) /\ SameRework(i)
      /\ \/ edits'[j] = <<>> /\ labels'[i] = labels[i]
         \/ edits'[j] = AddRework
  <2>1. CASE result = "green"
    BY <1>0, <1>1, <1>2, <2>1, TypedNow DEF SameVerdicts, SameVerdict, SameIterations, SameRework
  <2>2. CASE result # "green"
    <3>1. Edit(j, i, <<Drop({ReadyToMerge}), Add(NeedsRework)>>)
      BY <1>1, <2>2
    <3>2. /\ Head(<<Drop({ReadyToMerge}), Add(NeedsRework)>>) = Drop({ReadyToMerge})
          /\ Tail(<<Drop({ReadyToMerge}), Add(NeedsRework)>>) = AddRework
      BY Edits12 DEF AddRework
    <3>3. Drop({ReadyToMerge}).add \subseteq AllLabels
      BY DEF Drop
    <3> DEFINE es == <<Drop({ReadyToMerge}), Add(NeedsRework)>>
    <3>5. Edit(j, i, es) /\ Head(es) = Drop({ReadyToMerge}) /\ Tail(es) = AddRework
      BY <3>1, <3>2
    <3> HIDE DEF es, j
    <3>6. Typed /\ j \in Jobs /\ Head(es).add \subseteq AllLabels
      BY <1>0, <3>3, <3>5
    <3>7. /\ DOMAIN edits' = Jobs /\ edits'[j] = Tail(es)
          /\ \A k \in Jobs \ {j} : edits'[k] = edits[k]
          /\ DOMAIN labels' = Issues /\ Edited(i, Head(es))
          /\ \A k \in Issues \ {i} : labels'[k] = labels[k]
          /\ labels' \in [Issues -> SUBSET AllLabels]
      BY <3>5, <3>6, EditIs
    <3>4. /\ DOMAIN edits' = Jobs /\ edits'[j] = AddRework
          /\ \A k \in Jobs \ {j} : edits'[k] = edits[k]
          /\ DOMAIN labels' = Issues /\ Edited(i, Drop({ReadyToMerge}))
          /\ \A k \in Issues \ {i} : labels'[k] = labels[k]
          /\ labels' \in [Issues -> SUBSET AllLabels]
      BY <3>5, <3>7
    <3> QED BY <3>4, EditDropMerge
  <2> QED BY <2>1, <2>2
<1>6. StateOK
  BY <1>0, <1>2, <1>3, <1>5 DEF StateOK
<1>7. Calm({j})
  BY <1>2, <1>5 DEF Calm
<1>8. JobOK(j, run'[j], pending'[j], edits'[j])
  BY <1>0, <1>2, <1>5, FeedbackOK
<1>9. Typed'
  BY <1>0, <1>4, <1>5, <1>6, <1>7, <1>8, TypedStep DEF JobNowOK
<1>10. /\ SameJob(Dev) /\ DevKeeps /\ SameJudges(i)
       /\ Dispatching(i)' = Dispatching(i)
       /\ Retrying(i)' <=> Retrying(i)
       /\ {j} \subseteq JobsOf(i)
  BY <1>0, <1>7, FeedbackAlone
<1>11. ASSUME open'[i], ~Disturbed(i)' PROVE Phase(i)'
  <2>1. judged'[i] = judged[i] /\ Phase(i) /\ branch'[i] = branch[i]
    BY <1>2, <1>11, InvAt DEF Disturbed
  <2>2. DevPhase(i)' /\ JudgePhase(i)'
    BY <1>5, <1>10, <2>1, FrameDev, FrameJudge DEF Phase, SameRework
  <2>3. Resetting(i) => Resetting(i)'
    BY <1>10 DEF Resetting, DevAt, DevKeeps
  <2>4. VerdictPhase(i)'
    BY <1>5, <1>10, <2>1, <2>3, FrameVerdict DEF Phase, SameRework
  <2>5. HeldPhase(i)'
    <3>1. CASE edits'[j] = AddRework
      BY <3>1, EditsDiffer DEF HeldPhase, Held
    <3>2. CASE edits'[j] = <<>> /\ labels'[i] = labels[i]
      <4>1. Held(i) => Held(i)'
        BY <1>2, <1>10, HeldStays DEF Waiting, Running
      <4> QED BY <2>1, <3>2, <4>1 DEF Phase, HeldPhase
    <3> QED BY <1>5, <3>1, <3>2
  <2> QED BY <2>2, <2>4, <2>5 DEF Phase
<1>12. Elsewhere(i) /\ misread'[i] = misread[i] /\ branch'[i] <= branch[i]
       /\ \A k \in Issues \ {i} : judged'[k] = judged[k]
  BY <1>0, <1>2, <1>5, HarnessAssumption DEF Elsewhere
<1> QED BY <1>5, <1>7, <1>9, <1>10, <1>11, <1>12, JudgeStep

-----------------------------------------------------------------------------
(* Dev.                                                                     *)

\* Dev stays with issue i, or its run of it ends.
DevStays(i) == Running(Dev)' /\ run'[Dev].issue = i /\ pending'[Dev] = pending[Dev]
DevLeaves == RunEnds(Dev) /\ edits[Dev] = <<>> /\ edits'[Dev] = <<>>

\* When Dev leaves, the issue that waited is the next one it prepares.
LEMMA DevLeft ==
    ASSUME JobsOK, DevLeaves
    PROVE  /\ pending'[Dev] = <<>>
           /\ pending[Dev] = <<>> => run'[Dev].pc = "idle"
           /\ pending[Dev] # <<>> => run'[Dev].pc = "prepare" /\ run'[Dev].issue = pending[Dev][1]
           /\ \A k \in Issues : /\ ~DevAt(k)' /\ ~Waiting(k)' /\ ~Resetting(k)
                                /\ Preparing(k)' => Waiting(k)
                                /\ Waiting(k) => Running(Dev)' /\ run'[Dev].issue = k
<1>1. /\ pending'[Dev] = <<>>
      /\ pending[Dev] = <<>> => run'[Dev].pc = "idle"
      /\ pending[Dev] # <<>> => run'[Dev].pc = "prepare" /\ run'[Dev].issue = pending[Dev][1]
  BY JobNames, EndedOK DEF DevLeaves, RunEnds
<1> QED BY <1>1 DEF DevAt, Waiting, Preparing, Running, Resetting, DevLeaves

\* A step of Dev and of jobs of its issue, of which only what it does to that issue is to be shown.
LEMMA DevStepKeeps ==
    ASSUME Inv, Typed', NEW i \in Issues, Running(Dev), run[Dev].issue = i,
           NEW js, js \subseteq {Dev} \union JobsOf(i), Calm(js), Elsewhere(i),
           \A k \in Issues \ {i} : judged'[k] = judged[k],
           DevStays(i) \/ DevLeaves,
           LevelOf(i)', CapOf(i)', open'[i] /\ ~Disturbed(i)' => Phase(i)'
    PROVE  Inv'
<1>0. Typed /\ JobsOK
  BY InvAt
<1>1. /\ NoPicker(js)
      /\ \A k \in Issues \ {i} : /\ Finalize(k) \notin js /\ Feedback(k) \notin js
                                 /\ \A s \in Verifiers : Verify(s, k) \notin js
  BY JobNames, JobsDiffer DEF JobsOf, NoPicker
<1> SUFFICES ASSUME NEW k \in Issues \ {i}
             PROVE  LevelOf(k)' /\ CapOf(k)' /\ (open'[k] /\ ~Disturbed(k)' => Phase(k)')
  BY InvAgain
<1>2. /\ SameJob(Feedback(k)) /\ SameJudges(k) /\ Dispatching(k)' = Dispatching(k)
      /\ labels'[k] = labels[k] /\ open'[k] = open[k] /\ branch'[k] = branch[k] /\ misread'[k] = misread[k]
  BY <1>0, <1>1, CalmJobs DEF SameJudges, Elsewhere
<1>3. SameLabels(k)
  BY <1>2 DEF SameLabels, SameVerdicts, SameVerdict, SameIterations, SameRework, SameMerge
<1>4. ~DevAt(k) /\ ~Resetting(k) /\ ~Preparing(k) /\ run[Dev].issue # k
  BY DEF DevAt, Resetting, Preparing
<1>5. /\ ~DevAt(k)'
      /\ \/ ~Preparing(k)' /\ (Waiting(k)' <=> Waiting(k))
         \/ (Preparing(k)' => Waiting(k)) /\ ~Waiting(k)'
      /\ Waiting(k) => Waiting(k)' \/ (Running(Dev)' /\ run'[Dev].issue = k)
  <2>1. CASE DevStays(i)
    BY <2>1 DEF DevStays, DevAt, Preparing, Waiting
  <2>2. CASE DevLeaves
    BY <1>0, <2>2, DevLeft
  <2> QED BY <2>1, <2>2
<1>6. LevelOf(k)' /\ Level(k)' = Level(k)
  BY <1>0, <1>2, <1>3, <1>4, <1>5, InvAt, LevelIs, LevelStays DEF SameLabels, DevSteady
<1>7. Requests(k)' <= Requests(k)
  <2>1. Retrying(k)' <=> Retrying(k)
    BY <1>2 DEF SameJudges, SameJob, Retrying
  <2> QED BY <1>2, <1>5, <2>1, RequestsFew
<1>8. CapOf(k)'
  BY <1>0, <1>2, <1>6, <1>7, InvAt, CapStays
<1>9. Held(k) => Held(k)'
  <2>1. Running(Dev)' /\ run'[Dev].issue = k => Held(k)'
    BY DEF Held
  <2> QED BY <1>2, <1>4, <1>5, <2>1, HeldStays DEF SameJob
<1>10. open'[k] /\ ~Disturbed(k)' => Phase(k)'
  BY <1>2, <1>3, <1>4, <1>5, <1>9, InvAt, FramePhase DEF Disturbed
<1> QED BY <1>6, <1>8, <1>10

\* Where nobody judges an issue, all that is left to know is that its verdicts were given.
LEMMA NobodyJudges ==
    ASSUME Typed', NEW i \in Issues, ~Judging(i)',
           \A s \in Verifiers : ~Resetting(i)' /\ Passed(s) \in labels'[i] => s \in judged'[i]
    PROVE  JudgePhase(i)' /\ VerdictPhase(i)'
<1>1. ASSUME NEW s \in Verifiers
      PROVE  /\ pending'[Verify(s, i)] = <<>> /\ edits'[Verify(s, i)] = <<>>
             /\ run'[Verify(s, i)].pc = "idle"
  <2>1. JobOK(Verify(s, i), run'[Verify(s, i)], pending'[Verify(s, i)], edits'[Verify(s, i)])
    BY JobNames DEF Typed, JobsOK, JobOK, RunRecords, PcsOf, EditsAt
  <2>2. run'[Verify(s, i)].pc = "idle"
    BY DEF Judging, Running
  <2> QED BY <2>1, <2>2, VerifyOK
<1>2. ~Judged(i)'
  BY DEF Judging, Judged, Joining
<1>3. run'[Finalize(i)].pc \notin {"checks", "merge"} /\ edits'[Finalize(i)] = <<>>
  BY DEF Judging
<1>4. JudgePhase(i)'
  BY <1>2 DEF JudgePhase
<1>5. VerdictPhase(i)'
  BY <1>1, <1>3, EditsDiffer DEF VerdictPhase, DropFailed, DropPassed, DropMerge
<1> QED BY <1>4, <1>5

\* The phase of the issue Dev is at work on.
LEMMA DevWorks ==
    ASSUME Typed', NEW i \in Issues, DevAt(i)', ~Judging(i)',
           \A s \in Verifiers : ~Resetting(i)' /\ Passed(s) \in labels'[i] => s \in judged'[i],
           ~Resetting(i)' /\ run'[Dev].pc # "send-finalize" => \A s \in Verifiers : ~HasResult(i, s)',
           run'[Dev].pc = "send-finalize" => \A s \in Verifiers : HasResult(i, s)',
           run'[Dev].pc \in {"build", "hand-back", "send", "fast-path", "send-finalize"}
             => HasResult(i, "gate")',
           run'[Dev].pc \in {"send", "fast-path", "send-finalize"} => branch'[i] # 0,
           run'[Dev].pc \in {"kick", "done"} => NeedsRework \in labels'[i]
    PROVE  Phase(i)'
<1>1. JudgePhase(i)' /\ VerdictPhase(i)'
  BY NobodyJudges
<1>2. HeldPhase(i)'
  BY DEF HeldPhase, Held, DevAt, Running
<1>3. DevPhase(i)'
  BY DEF DevPhase
<1> QED BY <1>1, <1>2, <1>3 DEF Phase

\* Dev goes on with what it works on, with one edit at most, and adds or drops no iteration.
LEMMA DevGoesOn ==
    ASSUME Inv, NEW i \in Issues, DevAt(i), edits[Dev] = <<>>,
           NEW pc \in {"agent", "push", "push-failed", "build", "hand-back", "kick", "send", "fast-path",
                       "send-finalize", "done"},
           Doms, RunGoes(Dev, pc), Rest({Dev}),
           DOMAIN edits' = Jobs, edits'[Dev] = <<>>, \A k \in Jobs \ {Dev} : edits'[k] = edits[k],
           StateOK, HistoryOK, Elsewhere(i), misread'[i] = misread[i],
           \A k \in Issues \ {i} : judged'[k] = judged[k],
           SameIterations(i), branch'[i] <= Level(i),
           open'[i] /\ ~Disturbed(i)' => open[i] /\ ~Disturbed(i),
           open'[i] /\ ~Disturbed(i)' /\ Phase(i) =>
             /\ \A s \in Verifiers : Passed(s) \in labels'[i] => s \in judged'[i]
             /\ pc # "send-finalize" => \A s \in Verifiers : ~HasResult(i, s)'
             /\ pc = "send-finalize" => \A s \in Verifiers : HasResult(i, s)'
             /\ pc \in {"build", "hand-back", "send", "fast-path", "send-finalize"} => HasResult(i, "gate")'
             /\ pc \in {"send", "fast-path", "send-finalize"} => branch'[i] # 0
             /\ pc \in {"kick", "done"} => NeedsRework \in labels'[i]
    PROVE  Inv'
<1>0. Typed /\ JobsOK /\ JobOK(Dev, run[Dev], pending[Dev], edits[Dev]) /\ Dev \in Jobs
  BY InvAt, JobNames DEF JobsOK
<1>1. Calm({Dev})
  BY CalmFromRest
<1>2. JobOK(Dev, run'[Dev], pending'[Dev], edits'[Dev])
  <2>1. run[Dev].issue \in Issues
    BY <1>0, DevOK DEF DevAt
  <2>2. run'[Dev] \in RunRecords /\ run'[Dev].pc = pc /\ run'[Dev].issue = run[Dev].issue
        /\ pending'[Dev] = pending[Dev] /\ pc # "idle"
    BY DEF RunGoes
  <2> QED BY <1>0, <2>1, <2>2, DevOK
<1>3. Typed'
  BY <1>0, <1>1, <1>2, TypedStep DEF JobNowOK
<1>4. /\ DevStays(i) /\ DevAt(i)' /\ run'[Dev].iteration = run[Dev].iteration
      /\ Running(Dev) /\ run[Dev].issue = i
      /\ ~Resetting(i) /\ ~Resetting(i)'
  BY DEF RunGoes, DevStays, DevAt, Running, Resetting
<1>5. LevelOf(i)' /\ Level(i)' = Level(i)
  BY <1>0, <1>4, InvAt, LevelStays DEF DevSteady
<1>6. SameJudges(i) /\ Dispatching(i)' = Dispatching(i)
  <2>1. NoPicker({Dev}) /\ Finalize(i) # Dev /\ \A s \in Verifiers : Verify(s, i) # Dev
    BY JobNames DEF NoPicker
  <2> QED BY <1>0, <1>1, <2>1, CalmJobs DEF SameJudges
<1>7. CapOf(i)'
  <2>1. ~Preparing(i)' /\ (Waiting(i)' <=> Waiting(i)) /\ (Retrying(i)' <=> Retrying(i))
    BY <1>6 DEF RunGoes, Preparing, Waiting, SameJudges, SameJob, Retrying
  <2>2. Requests(i)' <= Requests(i)
    BY <1>6, <2>1, RequestsFew
  <2> QED BY <1>0, <1>3, <1>5, <2>2, InvAt, CapStays
<1>8. ASSUME open'[i], ~Disturbed(i)' PROVE Phase(i)'
  <2>1. Phase(i)
    BY <1>8, InvAt
  <2>2. ~Judging(i)'
    <3>1. ~Judging(i)
      BY <2>1 DEF Phase, DevPhase
    <3> QED BY <1>6, <3>1 DEF Judging, SameJudges, SameJob, Running
  <2>3. run'[Dev].pc = pc
    BY DEF RunGoes
  <2> QED BY <1>3, <1>4, <1>8, <2>1, <2>2, <2>3, DevWorks
<1> QED BY <1>1, <1>3, <1>4, <1>5, <1>7, <1>8, DevStepKeeps

\* What Dev has, at a step after it prepared, of the issue it works on.
LEMMA DevHas ==
    ASSUME Inv, Running(Dev)
    PROVE  /\ Typed /\ JobsOK /\ Dev \in Jobs /\ DOMAIN edits = Jobs
           /\ run[Dev].issue \in Issues
           /\ \A i \in Issues : i = run[Dev].issue /\ run[Dev].pc # "prepare" =>
                /\ DevAt(i)
                /\ open[i] /\ ~Disturbed(i) => Phase(i) /\ ~Judging(i)
                /\ branch[i] <= Level(i) /\ Level(i) = run[Dev].iteration /\ Level(i) \in 1..MaxLabel
<1>0. Typed /\ JobsOK /\ JobOK(Dev, run[Dev], pending[Dev], edits[Dev]) /\ Dev \in Jobs /\ DOMAIN edits = Jobs
  BY InvAt, JobNames DEF JobsOK
<1>1. run[Dev].issue \in Issues
  BY <1>0, DevOK DEF Running
<1>2. ASSUME NEW i \in Issues, i = run[Dev].issue, run[Dev].pc # "prepare"
      PROVE  /\ DevAt(i)
             /\ open[i] /\ ~Disturbed(i) => Phase(i) /\ ~Judging(i)
             /\ branch[i] <= Level(i) /\ Level(i) = run[Dev].iteration /\ Level(i) \in 1..MaxLabel
  <2>1. DevAt(i)
    BY <1>2 DEF DevAt, Running
  <2>2. open[i] /\ ~Disturbed(i) => Phase(i) /\ ~Judging(i)
    BY <2>1, InvAt DEF Phase, DevPhase
  <2> QED BY <1>0, <2>1, <2>2, InvAt, LevelIs DEF LevelOf
<1> QED BY <1>0, <1>1, <1>2

LEMMA DevEditsOnce ==
    ASSUME Typed, NEW i \in Issues, NEW e, Edit(Dev, i, <<e>>), e.add \subseteq AllLabels
    PROVE  /\ DOMAIN edits' = Jobs /\ edits'[Dev] = <<>> /\ \A k \in Jobs \ {Dev} : edits'[k] = edits[k]
           /\ labels' \in [Issues -> SUBSET AllLabels] /\ Edited(i, e)
           /\ \A k \in Issues \ {i} : labels'[k] = labels[k]
<1> DEFINE es == <<e>>
<1>1. Edit(Dev, i, es) /\ Head(es) = e /\ Tail(es) = <<>> /\ Dev \in Jobs
  BY Edits12, JobNames
<1> HIDE DEF es
<1> QED BY <1>1, EditIs

LEMMA SameResults ==
    ASSUME NEW i \in Issues, NEW S, \A s \in S : SameVerdict(i, s)
    PROVE  \A s \in S : /\ HasResult(i, s)' <=> HasResult(i, s)
                        /\ Passed(s) \in labels'[i] <=> Passed(s) \in labels[i]
BY DEF SameVerdict, HasResult

LEMMA DevAgentEndsKeeps ==
    ASSUME Inv, DevAgentEnds
    PROVE  Inv'
<1>1. /\ run[Dev].pc = "agent" /\ edits[Dev] = <<>> /\ Running(Dev)
      /\ UNCHANGED <<open, branch, ci>>
  BY DEF DevAgentEnds, At, Running
<1>2. PICK i \in Issues : i = run[Dev].issue
  BY <1>1, DevHas
<1>3. /\ Typed /\ JobsOK /\ Dev \in Jobs /\ DOMAIN edits = Jobs /\ DevAt(i)
      /\ open[i] /\ ~Disturbed(i) => Phase(i) /\ ~Judging(i)
      /\ branch[i] <= Level(i)
  BY <1>1, <1>2, DevHas
<1>4. PICK pc \in {"push", "push-failed"} :
        /\ Becomes(Goto(Now, Dev, pc))
        /\ \/ \E passed \in BOOLEAN : Edit(Dev, i, <<SetResult("dev", passed)>>)
           \/ UNCHANGED <<labels, edits>>
  BY <1>2 DEF DevAgentEnds
<1>5. Doms /\ History /\ RunGoes(Dev, pc) /\ Rest({Dev})
  <2>1. pc \in AllSteps
    BY DEF AllSteps
  <2> QED BY <1>3, <1>4, <2>1, GoesTo
<1>6. /\ DOMAIN edits' = Jobs /\ edits'[Dev] = <<>> /\ \A k \in Jobs \ {Dev} : edits'[k] = edits[k]
      /\ labels' \in [Issues -> SUBSET AllLabels] /\ \A k \in Issues \ {i} : labels'[k] = labels[k]
      /\ SameIterations(i) /\ \A s \in Stages \ {"dev"} : SameVerdict(i, s)
  <2>1. CASE UNCHANGED <<labels, edits>>
    BY <1>1, <1>3, <2>1, TypedNow DEF SameIterations, SameVerdict
  <2>2. ASSUME NEW passed \in BOOLEAN, Edit(Dev, i, <<SetResult("dev", passed)>>)
        PROVE  <1>6
    <3> DEFINE e == SetResult("dev", passed)
    <3>1. e.add \subseteq AllLabels
      BY LabelNames DEF SetResult
    <3>2. Edit(Dev, i, <<e>>)
      BY <2>2
    <3> HIDE DEF e
    <3>3. /\ DOMAIN edits' = Jobs /\ edits'[Dev] = <<>> /\ \A k \in Jobs \ {Dev} : edits'[k] = edits[k]
          /\ labels' \in [Issues -> SUBSET AllLabels] /\ Edited(i, e)
          /\ \A k \in Issues \ {i} : labels'[k] = labels[k]
      BY <1>3, <3>1, <3>2, DevEditsOnce
    <3>4. SameIterations(i) /\ \A s \in Stages \ {"dev"} : SameVerdict(i, s)
      BY <3>3, EditResult, LabelNames DEF e
    <3> QED BY <3>3, <3>4
  <2> QED BY <1>4, <2>1, <2>2
<1>7. StateOK /\ HistoryOK /\ Elsewhere(i) /\ misread'[i] = misread[i]
      /\ \A k \in Issues \ {i} : judged'[k] = judged[k]
  BY <1>1, <1>3, <1>5, <1>6, TypedNow DEF StateOK, Elsewhere, History
<1>8. open'[i] /\ ~Disturbed(i)' => open[i] /\ ~Disturbed(i)
  BY <1>1, <1>5 DEF History, Disturbed
<1>9. ASSUME open'[i], ~Disturbed(i)', Phase(i)
      PROVE  \A s \in Verifiers : Passed(s) \notin labels'[i] /\ ~HasResult(i, s)'
  <2>1. \A s \in Verifiers : ~HasResult(i, s)
    BY <1>1, <1>3, <1>9 DEF Phase, DevPhase, Resetting
  <2> QED BY <1>6, <2>1, SameResults, LabelNames DEF HasResult
<1> QED BY <1>1, <1>3, <1>5, <1>6, <1>7, <1>8, <1>9, DevGoesOn

LEMMA DevPushesKeeps ==
    ASSUME Inv, DevPushes
    PROVE  Inv'
<1>1. /\ run[Dev].pc \in {"push", "push-failed"} /\ edits[Dev] = <<>> /\ Running(Dev) /\ UNCHANGED open
  BY DEF DevPushes, Running
<1>2. PICK i \in Issues : i = run[Dev].issue
  BY <1>1, DevHas
<1>3. /\ Typed /\ JobsOK /\ Dev \in Jobs /\ DOMAIN edits = Jobs /\ DevAt(i)
      /\ open[i] /\ ~Disturbed(i) => Phase(i) /\ ~Judging(i)
      /\ branch[i] <= Level(i) /\ Level(i) = run[Dev].iteration /\ Level(i) \in 1..MaxLabel
  BY <1>1, <1>2, DevHas
<1>4. PICK passed \in BOOLEAN : Edit(Dev, i, <<SetResult("gate", passed)>>)
  BY <1>2 DEF DevPushes
<1>5. /\ branch' \in [Issues -> 0..MaxLabel] /\ ci' \in [Issues -> {"none", "running", "green", "red"}]
      /\ branch'[i] <= Level(i) /\ \A k \in Issues \ {i} : branch'[k] = branch[k]
  <2>1. CASE branch' = [branch EXCEPT ![i] = run[Dev].iteration] /\ ci' = [ci EXCEPT ![i] = "running"]
    BY <1>3, <2>1, TypedNow, HarnessAssumption
  <2>2. CASE UNCHANGED <<branch, ci>>
    BY <1>3, <2>2, TypedNow
  <2> QED BY <1>2, <2>1, <2>2 DEF DevPushes
<1> DEFINE next == IF run[Dev].pc = "push" THEN "build" ELSE "hand-back"
<1>6. PICK pc \in {"build", "hand-back"} : pc = next
  OBVIOUS
<1>7. Doms /\ History /\ RunGoes(Dev, pc) /\ Rest({Dev})
  <2>1. pc \in AllSteps
    BY DEF AllSteps
  <2>2. Becomes(Goto(Now, Dev, pc))
    BY <1>6 DEF DevPushes
  <2> QED BY <1>3, <2>1, <2>2, GoesTo
<1>8. /\ DOMAIN edits' = Jobs /\ edits'[Dev] = <<>> /\ \A k \in Jobs \ {Dev} : edits'[k] = edits[k]
      /\ labels' \in [Issues -> SUBSET AllLabels] /\ \A k \in Issues \ {i} : labels'[k] = labels[k]
      /\ SameIterations(i) /\ \A s \in Stages \ {"gate"} : SameVerdict(i, s)
      /\ HasResult(i, "gate")'
  <2> DEFINE e == SetResult("gate", passed)
  <2>1. e.add \subseteq AllLabels
    BY LabelNames DEF SetResult
  <2>2. Edit(Dev, i, <<e>>)
    BY <1>4
  <2> HIDE DEF e
  <2>3. /\ DOMAIN edits' = Jobs /\ edits'[Dev] = <<>> /\ \A k \in Jobs \ {Dev} : edits'[k] = edits[k]
        /\ labels' \in [Issues -> SUBSET AllLabels] /\ Edited(i, e)
        /\ \A k \in Issues \ {i} : labels'[k] = labels[k]
    BY <1>3, <2>1, <2>2, DevEditsOnce
  <2>4. /\ SameIterations(i) /\ \A s \in Stages \ {"gate"} : SameVerdict(i, s)
        /\ Passed("gate") \in labels'[i] \/ Failed("gate") \in labels'[i]
    BY <2>3, EditResult, LabelNames DEF e
  <2> QED BY <2>3, <2>4 DEF HasResult
<1>9. StateOK /\ HistoryOK /\ Elsewhere(i) /\ misread'[i] = misread[i]
      /\ \A k \in Issues \ {i} : judged'[k] = judged[k]
  BY <1>1, <1>3, <1>5, <1>7, <1>8, TypedNow DEF StateOK, Elsewhere, History
<1>10. open'[i] /\ ~Disturbed(i)' => open[i] /\ ~Disturbed(i)
  BY <1>1, <1>7 DEF History, Disturbed
<1>11. ASSUME open'[i], ~Disturbed(i)', Phase(i)
       PROVE  \A s \in Verifiers : Passed(s) \notin labels'[i] /\ ~HasResult(i, s)'
  <2>1. \A s \in Verifiers : ~HasResult(i, s)
    BY <1>1, <1>3, <1>11 DEF Phase, DevPhase, Resetting
  <2> QED BY <1>8, <2>1, SameResults, LabelNames DEF HasResult
<1> HIDE DEF next
<1> QED BY <1>1, <1>3, <1>5, <1>7, <1>8, <1>9, <1>10, <1>11, DevGoesOn

LEMMA DevPushFailsKeeps ==
    ASSUME Inv, DevPushFails
    PROVE  Inv'
<1>1. /\ run[Dev].pc \in {"push", "push-failed"} /\ edits[Dev] = <<>> /\ Running(Dev)
      /\ UNCHANGED <<open, branch, ci>>
  BY DEF DevPushFails, Running
<1>2. PICK i \in Issues : i = run[Dev].issue
  BY <1>1, DevHas
<1>3. /\ Typed /\ JobsOK /\ Dev \in Jobs /\ DOMAIN edits = Jobs /\ DevAt(i)
      /\ open[i] /\ ~Disturbed(i) => Phase(i) /\ ~Judging(i)
      /\ branch[i] <= Level(i)
  BY <1>1, <1>2, DevHas
<1>4. Edit(Dev, i, <<Add(NeedsRework)>>) /\ Becomes(Goto(Now, Dev, "done"))
  BY <1>2 DEF DevPushFails
<1>5. Doms /\ History /\ RunGoes(Dev, "done") /\ Rest({Dev})
  <2>1. "done" \in AllSteps
    BY DEF AllSteps
  <2> QED BY <1>3, <1>4, <2>1, GoesTo
<1>6. /\ DOMAIN edits' = Jobs /\ edits'[Dev] = <<>> /\ \A k \in Jobs \ {Dev} : edits'[k] = edits[k]
      /\ labels' \in [Issues -> SUBSET AllLabels] /\ \A k \in Issues \ {i} : labels'[k] = labels[k]
      /\ SameIterations(i) /\ SameVerdicts(i) /\ NeedsRework \in labels'[i]
  <2>1. Add(NeedsRework).add \subseteq AllLabels
    BY LabelNames DEF Add
  <2>2. /\ DOMAIN edits' = Jobs /\ edits'[Dev] = <<>> /\ \A k \in Jobs \ {Dev} : edits'[k] = edits[k]
        /\ labels' \in [Issues -> SUBSET AllLabels] /\ Edited(i, Add(NeedsRework))
        /\ \A k \in Issues \ {i} : labels'[k] = labels[k]
    BY <1>3, <1>4, <2>1, DevEditsOnce
  <2> QED BY <2>2, EditRework
<1>7. StateOK /\ HistoryOK /\ Elsewhere(i) /\ misread'[i] = misread[i]
      /\ \A k \in Issues \ {i} : judged'[k] = judged[k]
  BY <1>1, <1>3, <1>5, <1>6, TypedNow DEF StateOK, Elsewhere, History
<1>8. open'[i] /\ ~Disturbed(i)' => open[i] /\ ~Disturbed(i)
  BY <1>1, <1>5 DEF History, Disturbed
<1>9. ASSUME open'[i], ~Disturbed(i)', Phase(i)
      PROVE  \A s \in Verifiers : Passed(s) \notin labels'[i] /\ ~HasResult(i, s)'
  <2>1. \A s \in Verifiers : ~HasResult(i, s)
    BY <1>1, <1>3, <1>9 DEF Phase, DevPhase, Resetting
  <2> QED BY <1>6, <2>1, SameResults, LabelNames DEF HasResult, SameVerdicts
<1> QED BY <1>1, <1>3, <1>5, <1>6, <1>7, <1>8, <1>9, DevGoesOn

\* Dev hands the issue on, or back with needs-rework.
LEMMA DevBuildGateKeeps ==
    ASSUME Inv, DevBuildGate
    PROVE  Inv'
<1>1. /\ run[Dev].pc \in {"build", "hand-back"} /\ edits[Dev] = <<>> /\ Running(Dev)
      /\ UNCHANGED <<open, branch, ci>>
  BY DEF DevBuildGate, Running
<1>2. PICK i \in Issues : i = run[Dev].issue
  BY <1>1, DevHas
<1>3. /\ Typed /\ JobsOK /\ Dev \in Jobs /\ DOMAIN edits = Jobs /\ DevAt(i)
      /\ open[i] /\ ~Disturbed(i) => Phase(i) /\ ~Judging(i)
      /\ branch[i] <= Level(i)
  BY <1>1, <1>2, DevHas
<1>4. PICK pc \in {"send", "fast-path", "kick"} :
        /\ Becomes(Goto(Now, Dev, pc))
        /\ \/ pc \in {"send", "fast-path"} /\ branch[i] # 0 /\ UNCHANGED <<labels, edits>>
           \/ pc = "kick" /\ Edit(Dev, i, HandBack)
  BY <1>2 DEF DevBuildGate
<1>5. Doms /\ History /\ RunGoes(Dev, pc) /\ Rest({Dev})
  <2>1. pc \in AllSteps
    BY DEF AllSteps
  <2> QED BY <1>3, <1>4, <2>1, GoesTo
<1>6. /\ DOMAIN edits' = Jobs /\ edits'[Dev] = <<>> /\ \A k \in Jobs \ {Dev} : edits'[k] = edits[k]
      /\ labels' \in [Issues -> SUBSET AllLabels] /\ \A k \in Issues \ {i} : labels'[k] = labels[k]
      /\ SameIterations(i) /\ SameVerdicts(i)
      /\ pc = "kick" => NeedsRework \in labels'[i]
  <2>1. CASE pc \in {"send", "fast-path"} /\ UNCHANGED <<labels, edits>>
    BY <1>1, <1>3, <2>1, TypedNow DEF SameIterations, SameVerdicts, SameVerdict
  <2>2. CASE pc = "kick" /\ Edit(Dev, i, HandBack)
    <3> DEFINE e == [add |-> {NeedsRework}, drop |-> {ReadyToMerge}]
    <3>1. e.add \subseteq AllLabels
      BY LabelNames
    <3>2. Edit(Dev, i, <<e>>)
      BY <2>2 DEF HandBack
    <3>3. e = [add |-> {NeedsRework}, drop |-> {ReadyToMerge}]
      OBVIOUS
    <3> HIDE DEF e
    <3>4. /\ DOMAIN edits' = Jobs /\ edits'[Dev] = <<>> /\ \A k \in Jobs \ {Dev} : edits'[k] = edits[k]
          /\ labels' \in [Issues -> SUBSET AllLabels] /\ Edited(i, e)
          /\ \A k \in Issues \ {i} : labels'[k] = labels[k]
      BY <1>3, <3>1, <3>2, DevEditsOnce
    <3>5. SameVerdicts(i) /\ SameIterations(i) /\ NeedsRework \in labels'[i]
      BY <3>3, <3>4, EditHandBack
    <3> QED BY <3>4, <3>5
  <2> QED BY <1>4, <2>1, <2>2
<1>7. StateOK /\ HistoryOK /\ Elsewhere(i) /\ misread'[i] = misread[i]
      /\ \A k \in Issues \ {i} : judged'[k] = judged[k]
  BY <1>1, <1>3, <1>5, <1>6, TypedNow DEF StateOK, Elsewhere, History
<1>8. open'[i] /\ ~Disturbed(i)' => open[i] /\ ~Disturbed(i)
  BY <1>1, <1>5 DEF History, Disturbed
<1>9. ASSUME open'[i], ~Disturbed(i)', Phase(i)
      PROVE  /\ \A s \in Verifiers : Passed(s) \notin labels'[i] /\ ~HasResult(i, s)'
             /\ HasResult(i, "gate")'
             /\ pc \in {"send", "fast-path"} => branch'[i] # 0
  <2>1. HasResult(i, "gate") /\ \A s \in Verifiers : ~HasResult(i, s)
    BY <1>1, <1>3, <1>9 DEF Phase, DevPhase, Resetting
  <2>2. \A s \in Stages : HasResult(i, s)' <=> HasResult(i, s)
    BY <1>6, SameResults DEF SameVerdicts
  <2> QED BY <1>1, <1>4, <2>1, <2>2, LabelNames DEF HasResult
<1> QED BY <1>1, <1>3, <1>4, <1>5, <1>6, <1>7, <1>8, <1>9, DevGoesOn

\* A tests-only diff passes every verifier at once.
LEMMA DevFastPathKeeps ==
    ASSUME Inv, DevFastPath
    PROVE  Inv'
<1> DEFINE e == [add |-> {Passed(s) : s \in Verifiers}, drop |-> {Failed(s) : s \in Verifiers}]
<1>1. /\ run[Dev].pc = "fast-path" /\ edits[Dev] = <<>> /\ Running(Dev)
      /\ UNCHANGED <<open, branch, ci>>
  BY DEF DevFastPath, At, Running
<1>2. PICK i \in Issues : i = run[Dev].issue
  BY <1>1, DevHas
<1>3. /\ Typed /\ JobsOK /\ Dev \in Jobs /\ DOMAIN edits = Jobs /\ DevAt(i)
      /\ open[i] /\ ~Disturbed(i) => Phase(i) /\ ~Judging(i)
      /\ branch[i] <= Level(i)
  BY <1>1, <1>2, DevHas
<1>4. /\ Edit(Dev, i, <<e>>)
      /\ Becomes(PassedBy(Goto(Now, Dev, "send-finalize"), i, Verifiers))
      /\ e = [add |-> {Passed(s) : s \in Verifiers}, drop |-> {Failed(s) : s \in Verifiers}]
      /\ e.add \subseteq AllLabels
  BY <1>2, LabelNames DEF DevFastPath
<1> HIDE DEF e
<1>5. /\ Doms /\ RunGoes(Dev, "send-finalize") /\ Rest({Dev})
      /\ Disturbed(i) => judged' = judged
      /\ ~Disturbed(i) => judged' = [judged EXCEPT ![i] = Verifiers]
      /\ misread' = misread
  <2>1. "send-finalize" \in AllSteps
    BY DEF AllSteps
  <2> QED BY <1>3, <1>4, <2>1, PassedGoes
<1>6. /\ DOMAIN edits' = Jobs /\ edits'[Dev] = <<>> /\ \A k \in Jobs \ {Dev} : edits'[k] = edits[k]
      /\ labels' \in [Issues -> SUBSET AllLabels] /\ \A k \in Issues \ {i} : labels'[k] = labels[k]
      /\ Edited(i, e)
  BY <1>3, <1>4, DevEditsOnce
<1>7. /\ \A s \in Stages \ Verifiers : SameVerdict(i, s)
      /\ \A s \in Verifiers : Passed(s) \in labels'[i]
      /\ SameIterations(i)
  BY <1>4, <1>6, EditFastPath
<1>8. /\ DOMAIN judged' = Issues /\ \A k \in Issues \ {i} : judged'[k] = judged[k]
      /\ ~Disturbed(i) => judged'[i] = Verifiers
      /\ \A k \in Issues : judged'[k] = {"disturbed"} \/ judged'[k] \subseteq Verifiers
  BY <1>3, <1>5, TypedNow
<1>9. StateOK /\ HistoryOK /\ Elsewhere(i) /\ misread'[i] = misread[i]
  BY <1>1, <1>3, <1>5, <1>6, <1>8, TypedNow DEF StateOK, Elsewhere, HistoryOK
<1>10. open'[i] /\ ~Disturbed(i)' => open[i] /\ ~Disturbed(i)
  BY <1>1, <1>5 DEF Disturbed
<1>11. ASSUME open'[i], ~Disturbed(i)', Phase(i)
       PROVE  /\ \A s \in Verifiers : s \in judged'[i] /\ HasResult(i, s)'
              /\ HasResult(i, "gate")' /\ branch'[i] # 0
  <2>1. HasResult(i, "gate") /\ branch[i] # 0 /\ ~Disturbed(i)
    BY <1>1, <1>3, <1>10, <1>11 DEF Phase, DevPhase
  <2> QED BY <1>1, <1>7, <1>8, <2>1, SameResults, LabelNames DEF HasResult
<1> QED BY <1>1, <1>3, <1>5, <1>6, <1>7, <1>8, <1>9, <1>10, <1>11, DevGoesOn

\* A run of Dev that ends leaves its issue marked for rework, or disturbed.
LEMMA DevEndsKeeps ==
    ASSUME Inv, NEW i \in Issues, Running(Dev), run[Dev].issue = i, edits[Dev] = <<>>,
           Doms, RunEnds(Dev), Rest({Dev}) \/ RestOrKicked({Dev}),
           UNCHANGED <<labels, open, branch, ci, edits>>, HistoryOK, misread' = misread,
           \A k \in Issues \ {i} : judged'[k] = judged[k],
           \/ judged'[i] = judged[i] /\ (open[i] /\ ~Disturbed(i) => NeedsRework \in labels[i])
           \/ Disturbed(i)'
    PROVE  Inv'
<1>0. Typed /\ JobsOK /\ Dev \in Jobs /\ DOMAIN edits' = Jobs /\ edits'[Dev] = <<>>
  BY InvAt, JobNames DEF JobsOK
<1>1. Calm({Dev})
  BY <1>0, CalmFromRest
<1>2. JobOK(Dev, run'[Dev], pending'[Dev], edits'[Dev])
  BY <1>0, EndedOK
<1>3. Typed' /\ StateOK /\ SameLabels(i)
  <2>1. StateOK /\ SameLabels(i)
    BY <1>0, UnchangedState DEF SameLabels
  <2> QED BY <1>0, <1>1, <1>2, <2>1, TypedStep DEF JobNowOK
<1>4. /\ DevLeaves
      /\ ~DevAt(i)' /\ ~Waiting(i)' /\ ~Resetting(i) /\ (Preparing(i)' => Waiting(i))
  BY <1>0, DevLeft DEF DevLeaves
<1>5. SameJudges(i) /\ Dispatching(i)' = Dispatching(i)
  <2>1. NoPicker({Dev}) /\ Finalize(i) # Dev /\ \A s \in Verifiers : Verify(s, i) # Dev
    BY JobNames DEF NoPicker
  <2> QED BY <1>0, <1>1, <2>1, CalmJobs DEF SameJudges
<1>6. LevelOf(i)' /\ Level(i)' = Level(i)
  BY <1>0, <1>3, <1>4, InvAt, LevelIs, LevelStays DEF DevSteady, SameLabels
<1>7. CapOf(i)'
  <2>1. Retrying(i)' <=> Retrying(i)
    BY <1>5 DEF SameJudges, SameJob, Retrying
  <2>2. Requests(i)' <= Requests(i)
    BY <1>4, <1>5, <2>1, RequestsFew
  <2> QED BY <1>0, <1>3, <1>6, <2>2, InvAt, CapStays
<1>8. ASSUME open'[i], ~Disturbed(i)' PROVE Phase(i)'
  <2>1. judged'[i] = judged[i] /\ open[i] /\ ~Disturbed(i) /\ NeedsRework \in labels[i]
    BY <1>8 DEF Disturbed
  <2>2. Phase(i)
    BY <2>1, InvAt
  <2> QED BY <1>3, <1>4, <1>5, <2>1, <2>2, FramePhase
<1>9. Elsewhere(i)
  BY DEF Elsewhere
<1> QED BY <1>1, <1>3, <1>4, <1>6, <1>7, <1>8, <1>9, DevStepKeeps

LEMMA DevKicksPickerKeeps ==
    ASSUME Inv, DevKicksPicker
    PROVE  Inv'
<1>1. /\ run[Dev].pc = "kick" /\ edits[Dev] = <<>> /\ Running(Dev)
      /\ UNCHANGED <<labels, open, branch, ci, edits>> /\ Becomes(End(KickPicker(Now), Dev))
  BY DEF DevKicksPicker, At, Running
<1>2. PICK i \in Issues : i = run[Dev].issue
  BY <1>1, DevHas
<1>3. /\ Typed /\ JobsOK /\ Dev \in Jobs /\ DevAt(i)
      /\ open[i] /\ ~Disturbed(i) => Phase(i)
  BY <1>1, <1>2, DevHas
<1>4. Doms /\ History /\ RunEnds(Dev) /\ RestOrKicked({Dev})
  BY <1>1, <1>3, JobNames, KickEnds
<1>5. open[i] /\ ~Disturbed(i) => NeedsRework \in labels[i]
  BY <1>1, <1>3 DEF Phase, DevPhase
<1> QED BY <1>1, <1>2, <1>3, <1>4, <1>5, TypedNow, DevEndsKeeps DEF History

LEMMA DevEndsFailedKeeps ==
    ASSUME Inv, DevEndsFailed
    PROVE  Inv'
<1>1. /\ run[Dev].pc = "done" /\ edits[Dev] = <<>> /\ Running(Dev)
      /\ UNCHANGED <<labels, open, branch, ci, edits>> /\ Becomes(End(Now, Dev))
  BY DEF DevEndsFailed, At, Running
<1>2. PICK i \in Issues : i = run[Dev].issue
  BY <1>1, DevHas
<1>3. /\ Typed /\ JobsOK /\ Dev \in Jobs /\ DevAt(i)
      /\ open[i] /\ ~Disturbed(i) => Phase(i)
  BY <1>1, <1>2, DevHas
<1>4. Doms /\ History /\ RunEnds(Dev) /\ Rest({Dev})
  BY <1>1, <1>3, EndsRun
<1>5. open[i] /\ ~Disturbed(i) => NeedsRework \in labels[i]
  BY <1>1, <1>3 DEF Phase, DevPhase
<1> QED BY <1>1, <1>2, <1>3, <1>4, <1>5, TypedNow, DevEndsKeeps DEF History

\* A run that disturbs its issue and ends.
LEMMA DisturbKeeps ==
    ASSUME Inv, NEW i \in Issues, Running(Dev), run[Dev].issue = i, edits[Dev] = <<>>,
           Becomes(Disturb(End(Now, Dev), i)), UNCHANGED <<labels, open, branch, ci, edits>>
    PROVE  Inv'
<1>1. Typed /\ JobsOK /\ Dev \in Jobs
  BY DevHas
<1>2. /\ Doms /\ RunEnds(Dev) /\ Rest({Dev})
      /\ judged' = [judged EXCEPT ![i] = {"disturbed"}] /\ misread' = misread
  BY <1>1, DisturbEnds
<1>3. /\ DOMAIN judged' = Issues /\ judged'[i] = {"disturbed"}
      /\ \A k \in Issues \ {i} : judged'[k] = judged[k]
  BY <1>1, <1>2, TypedNow
<1>4. HistoryOK /\ Disturbed(i)'
  BY <1>1, <1>2, <1>3, TypedNow DEF HistoryOK, Disturbed
<1> QED BY <1>2, <1>3, <1>4, DevEndsKeeps

LEMMA DevOpensNoPrKeeps ==
    ASSUME Inv, DevOpensNoPr
    PROVE  Inv'
<1>1. /\ edits[Dev] = <<>> /\ Running(Dev) /\ UNCHANGED <<labels, open, branch, ci, edits>>
      /\ Becomes(Disturb(End(Now, Dev), run[Dev].issue))
  BY DEF DevOpensNoPr, Running
<1>2. PICK i \in Issues : i = run[Dev].issue
  BY <1>1, DevHas
<1>3. Becomes(Disturb(End(Now, Dev), i))
  BY <1>1, <1>2
<1> QED BY <1>1, <1>2, <1>3, DisturbKeeps

LEMMA DevMeetsConflictKeeps ==
    ASSUME Inv, DevMeetsConflict
    PROVE  Inv'
<1>1. /\ edits[Dev] = <<>> /\ Running(Dev) /\ UNCHANGED <<labels, open, branch, ci, edits>>
  BY DEF DevMeetsConflict, At, Running
<1>2. PICK i \in Issues : i = run[Dev].issue
  BY <1>1, DevHas
<1>3. CASE NeedsRework \notin labels[i]
  <2>1. Becomes(Disturb(End(Now, Dev), i))
    BY <1>2, <1>3 DEF DevMeetsConflict
  <2> QED BY <1>1, <1>2, <2>1, DisturbKeeps
<1>4. CASE NeedsRework \in labels[i]
  <2>1. Becomes(End(Now, Dev)) /\ Typed /\ JobsOK /\ Dev \in Jobs
    BY <1>1, <1>2, <1>4, DevHas DEF DevMeetsConflict
  <2>2. Doms /\ History /\ RunEnds(Dev) /\ Rest({Dev})
    BY <2>1, EndsRun
  <2> QED BY <1>1, <1>2, <1>4, <2>1, <2>2, TypedNow, DevEndsKeeps DEF History
<1> QED BY <1>3, <1>4

\* Dev puts the new iteration label on, or resets the verdicts.
LEMMA DevEditKeeps ==
    ASSUME Inv, EditLabel(Dev)
    PROVE  Inv'
<1> DEFINE es == edits[Dev]
           n == run[Dev].iteration
<1>0. /\ Typed /\ JobsOK /\ Dev \in Jobs /\ DOMAIN edits = Jobs
      /\ JobOK(Dev, run[Dev], pending[Dev], edits[Dev])
  BY InvAt, JobNames DEF JobsOK
<1>1. /\ run[Dev].pc = "agent" /\ (es = Reset \/ es = AddIteration(n)) /\ es # <<>>
      /\ Running(Dev)
  BY <1>0, DevOK DEF EditLabel, Running
<1>2. PICK i \in Issues : i = run[Dev].issue
  BY <1>1, DevHas
<1>3. DevAt(i) /\ Resetting(i) /\ (open[i] /\ ~Disturbed(i) => Phase(i) /\ ~Judging(i))
      /\ branch[i] <= Level(i) /\ Level(i) = n /\ n \in 1..MaxLabel
  BY <1>1, <1>2, DevHas DEF Resetting
<1>4. /\ es = Reset => Head(es) = Drop({NeedsRework, ReadyToMerge} \union Verdicts) /\ Tail(es) = <<>>
      /\ es = AddIteration(n) => Head(es) = Add(Iteration(n)) /\ Tail(es) = Reset
  BY Heads
<1>5. Head(es).add \subseteq AllLabels
  BY <1>1, <1>3, <1>4, LabelNames DEF Add, Drop
<1>6. JobOK(Dev, run[Dev], pending[Dev], Tail(es))
  <2> DEFINE rest == Tail(es)
  <2>1. rest = <<>> \/ rest = Reset
    BY <1>1, <1>4
  <2> HIDE DEF rest
  <2>2. JobOK(Dev, run[Dev], pending[Dev], rest)
    BY <1>0, <1>1, <2>1, DevOK
  <2> QED BY <2>2 DEF rest
<1>7. /\ Typed' /\ History /\ Elsewhere(i) /\ UNCHANGED <<open, branch, run, pending>>
      /\ edits'[Dev] = Tail(es) /\ \A k \in Jobs \ {Dev} : edits'[k] = edits[k]
      /\ Calm({Dev}) /\ Edited(i, Head(es))
  BY <1>0, <1>1, <1>2, <1>5, <1>6, EditLabelDoes
<1>8. DevStays(i) /\ DevAt(i)' /\ run[Dev].issue = i /\ run'[Dev] = run[Dev]
  BY <1>1, <1>2, <1>3, <1>7 DEF DevStays, DevAt, Running
<1>9. /\ edits'[Dev] # AddIteration(n)
      /\ Iteration(n) \in labels'[i]
      /\ \A m \in 1..MaxLabel : Iteration(m) \in labels'[i] => m = n
  <2>1. CASE es = Reset
    <3>1. SameIterations(i)
      BY <1>4, <1>7, <2>1, EditReset
    <3>2. Iteration(n) \in labels[i]
      BY <1>3, <2>1, InvAt, EditsDiffer DEF LevelOf
    <3>3. \A m \in 1..MaxLabel : Iteration(m) \in labels[i] => m = n
      BY <1>3, <3>2, InvAt DEF LevelOf
    <3> QED BY <1>3, <1>4, <1>7, <2>1, <3>1, <3>2, <3>3, EditsDiffer DEF SameIterations
  <2>2. CASE es = AddIteration(n)
    <3>1. \A m \in 1..MaxLabel : Iteration(m) \notin labels[i]
      BY <1>3, <2>2, InvAt DEF LevelOf
    <3> QED BY <1>3, <1>4, <1>7, <2>2, <3>1, EditAddIteration, EditsDiffer
  <2> QED BY <1>1, <2>1, <2>2
<1>10. LevelOf(i)' /\ Level(i)' = Level(i)
  <2>1. ~LabelIsOff(i)'
    BY <1>8, <1>9 DEF LabelIsOff
  <2>2. Level(i)' = CurrentIteration(i)'
    BY <2>1 DEF Level
  <2>3. CurrentIteration(i)' = n
    <3> DEFINE found == {m \in 1..MaxLabel : Iteration(m) \in labels'[i]}
    <3>1. found = {n}
      BY <1>3, <1>9
    <3>2. CurrentIteration(i)' = IF found = {} THEN 0 ELSE CHOOSE m \in found : TRUE
      BY DEF CurrentIteration
    <3> HIDE DEF found
    <3> QED BY <3>1, <3>2
  <2>4. branch'[i] <= Level(i)'
    BY <1>3, <1>7, <2>2, <2>3
  <2> QED BY <1>3, <1>8, <1>9, <2>2, <2>3, <2>4 DEF LevelOf, AddIteration
<1>11. SameJudges(i) /\ Dispatching(i)' = Dispatching(i)
  <2>1. NoPicker({Dev}) /\ Finalize(i) # Dev /\ \A s \in Verifiers : Verify(s, i) # Dev
    BY JobNames DEF NoPicker
  <2> QED BY <1>0, <1>7, <2>1, CalmJobs DEF SameJudges
<1>12. CapOf(i)'
  <2>1. Requests(i)' <= Requests(i)
    BY <1>7, <1>11, RequestsFew DEF Preparing, Waiting, Retrying
  <2> QED BY <1>0, <1>7, <1>10, <2>1, InvAt, CapStays DEF History
<1>13. ASSUME open'[i], ~Disturbed(i)' PROVE Phase(i)'
  <2>1. Phase(i) /\ ~Judging(i)
    BY <1>3, <1>7, <1>13 DEF History, Disturbed
  <2>2. ~Judging(i)'
    BY <1>11, <2>1 DEF Judging, SameJudges, SameJob, Running
  <2>3. ~Resetting(i)' => \A s \in Verifiers : Passed(s) \notin labels'[i] /\ ~HasResult(i, s)'
    <3>1. CASE es = AddIteration(n)
      BY <1>1, <1>4, <1>7, <1>8, <3>1, EditsDiffer DEF Resetting
    <3>2. CASE es = Reset
      BY <1>4, <1>7, <3>2, EditReset, LabelNames DEF HasResult
    <3> QED BY <1>1, <3>1, <3>2
  <2> QED BY <1>1, <1>7, <1>8, <2>2, <2>3, DevWorks
<1>14. /\ misread'[i] = misread[i] /\ \A k \in Issues \ {i} : judged'[k] = judged[k]
  BY <1>7 DEF History
<1> QED BY <1>1, <1>7, <1>8, <1>10, <1>12, <1>13, <1>14, DevStepKeeps

\* Dev begins iteration n of issue i, judged so far by those in J.
LEMMA BeginsIs ==
    ASSUME JobsOK, NEW i \in Issues, NEW n \in Nat, NEW J,
           Becomes([Goto(Now, Dev, "agent") EXCEPT !.run[Dev].iteration = n, !.judged[i] = J])
    PROVE  /\ Doms /\ Rest({Dev}) /\ run'[Dev] \in RunRecords /\ run'[Dev].pc = "agent"
           /\ run'[Dev].issue = run[Dev].issue /\ run'[Dev].iteration = n
           /\ pending' = pending /\ misread' = misread /\ judged' = [judged EXCEPT ![i] = J]
<1> DEFINE R == [run EXCEPT ![Dev].pc = "agent"]
           R2 == [R EXCEPT ![Dev].iteration = n]
           J2 == [judged EXCEPT ![i] = J]
<1>0. Dev \in Jobs /\ DOMAIN run = Jobs /\ run[Dev] \in RunRecords
  BY JobNames, RecordAt
<1>1. Goto(Now, Dev, "agent") = Q(R, pending, judged, misread)
  BY GotoIs, NowIs
<1>2. /\ DOMAIN R = Jobs /\ R[Dev] \in RunRecords /\ R[Dev].pc = "agent"
      /\ R[Dev].issue = run[Dev].issue
      /\ \A k \in Jobs \ {Dev} : R[k] = run[k]
  BY <1>0 DEF RunRecords, AllSteps
<1> HIDE DEF R
<1>3. [Q(R, pending, judged, misread) EXCEPT !.run[Dev].iteration = n, !.judged[i] = J]
        = Q(R2, pending, J2, misread)
  <2> DEFINE q == Q(R, pending, judged, misread)
  <2>1. [q EXCEPT !.run[Dev].iteration = n, !.judged[i] = J]
          = [[q EXCEPT !.run[Dev].iteration = n] EXCEPT !.judged[i] = J]
    BY DEF Q
  <2>2. [q EXCEPT !.run[Dev].iteration = n] = Q(R2, pending, judged, misread)
    BY DEF Q
  <2> HIDE DEF R2
  <2>3. [Q(R2, pending, judged, misread) EXCEPT !.judged[i] = J] = Q(R2, pending, J2, misread)
    BY DEF Q
  <2> QED BY <2>1, <2>2, <2>3
<1>4. /\ DOMAIN R2 = Jobs /\ R2[Dev] \in RunRecords /\ R2[Dev].pc = "agent"
      /\ R2[Dev].issue = run[Dev].issue /\ R2[Dev].iteration = n
      /\ \A k \in Jobs \ {Dev} : R2[k] = run[k]
  BY <1>0, <1>2 DEF RunRecords
<1>5. Becomes(Q(R2, pending, J2, misread))
  BY <1>1, <1>3
<1>6. J2 = [judged EXCEPT ![i] = J]
  OBVIOUS
<1> HIDE DEF R2, J2
<1>7. run' = R2 /\ pending' = pending /\ judged' = J2 /\ misread' = misread
  BY <1>5, NowIs
<1> QED BY <1>0, <1>4, <1>6, <1>7, RecordAt DEF Doms, Rest

LEMMA OneThenTwo ==
    ASSUME NEW x, NEW y, NEW z
    PROVE  <<x>> \o <<y, z>> = <<x, y, z>>
<1> DEFINE S == {x, y, z}
           s == <<x>>
           t == <<y, z>>
           u == <<x, y, z>>
<1>1. s \in Seq(S) /\ t \in Seq(S) /\ u \in Seq(S) /\ Len(s) = 1 /\ Len(t) = 2 /\ Len(u) = 3
  OBVIOUS
<1>2. s[1] = x /\ t[1] = y /\ t[2] = z /\ u[1] = x /\ u[2] = y /\ u[3] = z
  OBVIOUS
<1> HIDE DEF s, t, u, S
<1>3. s \o t \in Seq(S) /\ Len(s \o t) = 3 /\ \A i \in 1 .. 3 : (s \o t)[i] = IF i <= 1 THEN s[i] ELSE t[i - 1]
  <2>1. /\ s \o t \in Seq(S) /\ Len(s \o t) = Len(s) + Len(t)
        /\ \A i \in 1 .. Len(s) + Len(t) : (s \o t)[i] = IF i <= Len(s) THEN s[i] ELSE t[i - Len(s)]
    BY <1>1, ConcatProperties
  <2> QED BY <1>1, <2>1
<1>4. \A i \in 1 .. 3 : (s \o t)[i] = u[i]
  BY <1>2, <1>3
<1>5. s \o t = u
  BY <1>1, <1>3, <1>4, SeqEqual
<1> QED BY <1>5 DEF s, t, u

\* The first of the edits that start iteration n + 1, and those that are left.
LEMMA StartIs ==
    ASSUME NEW n \in Nat
    PROVE  /\ n = 0 => /\ Head(StartNewIteration(n)) = Add(Iteration(1))
                       /\ Tail(StartNewIteration(n)) = Reset
           /\ n > 0 => /\ Head(StartNewIteration(n)) = Drop({Iteration(n)})
                       /\ Tail(StartNewIteration(n)) = AddIteration(n + 1)
<1> DEFINE all == {NeedsRework, ReadyToMerge} \union {Passed(s) : s \in Stages} \union {Failed(s) : s \in Stages}
<1>1. all = {NeedsRework, ReadyToMerge} \union Verdicts
  BY DEF Verdicts
<1>2. StartNewIteration(n) =
        (IF n > 0 THEN <<Drop({Iteration(n)})>> ELSE <<>>) \o <<Add(Iteration(n + 1)), Drop(all)>>
  BY DEF StartNewIteration
<1> HIDE DEF all
<1>3. Reset = <<Drop(all)>> /\ AddIteration(n + 1) = <<Add(Iteration(n + 1)), Drop(all)>>
  BY <1>1 DEF Reset, AddIteration
<1>4. \A x, y, z : /\ <<>> \o <<y, z>> = <<y, z>>
                   /\ Head(<<y, z>>) = y /\ Tail(<<y, z>>) = <<z>>
                   /\ Head(<<x, y, z>>) = x /\ Tail(<<x, y, z>>) = <<y, z>>
  OBVIOUS
<1>5. CASE n = 0
  <2>1. StartNewIteration(n) = <<Add(Iteration(1)), Drop(all)>>
    <3>1. StartNewIteration(n) = <<>> \o <<Add(Iteration(1)), Drop(all)>>
      BY <1>2, <1>5
    <3> QED BY <1>4, <3>1
  <2>2. /\ Head(StartNewIteration(n)) = Add(Iteration(1))
        /\ Tail(StartNewIteration(n)) = <<Drop(all)>>
    BY <1>4, <2>1
  <2> QED BY <1>3, <1>5, <2>2
<1>6. CASE n > 0
  <2>1. StartNewIteration(n) = <<Drop({Iteration(n)}), Add(Iteration(n + 1)), Drop(all)>>
    <3>1. StartNewIteration(n) = <<Drop({Iteration(n)})>> \o <<Add(Iteration(n + 1)), Drop(all)>>
      BY <1>2, <1>6
    <3> QED BY <3>1, OneThenTwo
  <2> QED BY <1>3, <1>4, <1>6, <2>1
<1> QED BY <1>5, <1>6

\* A new iteration label comes on, now or after the old one has gone off.
LEMMA DevPreparesLevel ==
    ASSUME Typed, NEW i \in Issues, LevelOf(i), run[Dev].pc = "prepare",
           NEW n \in Nat, n = CurrentIteration(i), n < MaxLabel,
           run'[Dev].pc = "agent", run'[Dev].issue = i, run'[Dev].iteration = n + 1, branch' = branch,
           n = 0 => Edited(i, Add(Iteration(1))) /\ edits'[Dev] = Reset,
           n > 0 => Edited(i, Drop({Iteration(n)})) /\ edits'[Dev] = AddIteration(n + 1)
    PROVE  LevelOf(i)' /\ Level(i) = n /\ Level(i)' = n + 1 /\ branch[i] <= n
<1>1. n + 1 \in 1..MaxLabel /\ MaxLabel \in Nat
  BY HarnessAssumption
<1>2. /\ Level(i) = n /\ branch[i] \in Nat /\ branch[i] <= n
      /\ \A m \in 1..MaxLabel : Iteration(m) \in labels[i] => m = n
  BY LevelIs DEF LabelIsOff
<1>3. DevAt(i)'
  BY DEF DevAt
<1>4. CASE n = 0
  <2>1. /\ Iteration(1) \in labels'[i] /\ \A m \in 1..MaxLabel : Iteration(m) \in labels'[i] => m = 1
        /\ edits'[Dev] # AddIteration(1)
    BY <1>1, <1>2, <1>4, EditAddIteration, EditsDiffer
  <2>2. ~LabelIsOff(i)'
    BY <1>4, <2>1 DEF LabelIsOff
  <2>3. CurrentIteration(i)' = 1
    <3> DEFINE found == {m \in 1..MaxLabel : Iteration(m) \in labels'[i]}
    <3>1. found = {1}
      BY <1>1, <1>4, <2>1
    <3>2. CurrentIteration(i)' = IF found = {} THEN 0 ELSE CHOOSE m \in found : TRUE
      BY DEF CurrentIteration
    <3> HIDE DEF found
    <3> QED BY <3>1, <3>2
  <2>4. Level(i)' = 1
    BY <2>2, <2>3 DEF Level
  <2> QED BY <1>1, <1>2, <1>3, <1>4, <2>1, <2>4 DEF LevelOf, AddIteration
<1>5. CASE n > 0
  <2>1. \A m \in 1..MaxLabel : Iteration(m) \notin labels'[i]
    BY <1>1, <1>2, <1>5, EditDropIteration
  <2>2. LabelIsOff(i)' /\ Level(i)' = n + 1
    BY <1>1, <2>1 DEF LabelIsOff, Level
  <2> QED BY <1>1, <1>2, <1>3, <1>5, <2>1, <2>2 DEF LevelOf, AddIteration
<1> QED BY <1>4, <1>5

\* An iteration that begins takes its request with it, and begins below the cap or by a request.
LEMMA DevPreparesCap ==
    ASSUME Typed, Typed', NEW i \in Issues, CapOf(i), Preparing(i), ~Preparing(i)',
           Dispatching(i)' = Dispatching(i), Waiting(i)' <=> Waiting(i), Retrying(i)' <=> Retrying(i),
           NEW n \in Nat, Level(i) = n, Level(i)' = n + 1, misread'[i] = misread[i]
    PROVE  CapOf(i)'
<1>1. misread[i] \in Nat /\ MaxIterations \in Nat
  BY TypedNow, HarnessAssumption
<1> DEFINE d == Cardinality(Dispatching(i))
           w == Given(Waiting(i))
           r == Given(Retrying(i))
           c == Cardinality(Pickers)
<1>2. d \in Nat /\ c \in Nat /\ d <= c /\ w \in 0..1 /\ r \in 0..1
  BY RequestsAre
<1>3. Requests(i) = d + 1 + w + r
  BY DEF Requests, Given
<1>4. Requests(i)' = d + 0 + w + r
  <2>1. /\ Given(Preparing(i)') = 0
        /\ Given(Waiting(i)') = Given(Waiting(i))
        /\ Given(Retrying(i)') = Given(Retrying(i))
    BY DEF Given
  <2>2. Requests(i)' = Cardinality(Dispatching(i)') + Given(Preparing(i)') + Given(Waiting(i)') + Given(Retrying(i)')
    BY DEF Requests, Given
  <2> QED BY <2>1, <2>2
<1> HIDE DEF d, w, r, c
<1>5. n < MaxIterations \/ n + (d + 1 + w + r) <= MaxIterations + c + 2 + misread[i]
  BY <1>3 DEF CapOf, c
<1>6. n + 1 < MaxIterations \/ n + 1 + (d + 0 + w + r) <= MaxIterations + c + 2 + misread[i]
  BY <1>1, <1>2, <1>5
<1> QED BY <1>4, <1>6 DEF CapOf, c

LEMMA DevPreparesKeeps ==
    ASSUME Inv, DevPrepares
    PROVE  Inv'
<1>1. /\ run[Dev].pc = "prepare" /\ edits[Dev] = <<>> /\ Running(Dev)
      /\ UNCHANGED <<open, branch, ci>>
  BY DEF DevPrepares, At, Running
<1>2. PICK i \in Issues : i = run[Dev].issue
  BY <1>1, DevHas
<1>3. /\ Typed /\ JobsOK /\ Dev \in Jobs /\ DOMAIN edits = Jobs
      /\ JobOK(Dev, run[Dev], pending[Dev], edits[Dev])
  BY <1>1, DevHas DEF JobsOK
<1>4. PICK n \in 0..MaxLabel : n = CurrentIteration(i)
  BY CurrentIs
<1>5. PICK J : J = IF Judging(i) THEN {"disturbed"} ELSE {}
  OBVIOUS
<1>6. /\ n \in Nat /\ n < MaxLabel /\ n + 1 \in 1..MaxLabel
      /\ Edit(Dev, i, StartNewIteration(n))
      /\ Becomes([Goto(Now, Dev, "agent") EXCEPT !.run[Dev].iteration = n + 1, !.judged[i] = J])
  <2>1. CurrentIteration(i) < MaxLabel /\ Edit(Dev, i, StartNewIteration(CurrentIteration(i)))
    BY <1>2 DEF DevPrepares
  <2>2. Becomes([Goto(Now, Dev, "agent") EXCEPT
                   !.run[Dev].iteration = CurrentIteration(i) + 1,
                   !.judged[i] = IF Judging(i) THEN {"disturbed"} ELSE {}])
    BY <1>2 DEF DevPrepares
  <2> QED BY <1>4, <1>5, <2>1, <2>2, HarnessAssumption
<1>7. /\ Doms /\ Rest({Dev}) /\ run'[Dev] \in RunRecords /\ run'[Dev].pc = "agent"
      /\ run'[Dev].issue = i /\ run'[Dev].iteration = n + 1
      /\ pending' = pending /\ misread' = misread /\ judged' = [judged EXCEPT ![i] = J]
  <2>1. n + 1 \in Nat
    BY <1>6
  <2> QED BY <1>2, <1>3, <1>6, <2>1, BeginsIs
<1>8. /\ n = 0 => /\ Head(StartNewIteration(n)) = Add(Iteration(1))
                  /\ Tail(StartNewIteration(n)) = Reset
      /\ n > 0 => /\ Head(StartNewIteration(n)) = Drop({Iteration(n)})
                  /\ Tail(StartNewIteration(n)) = AddIteration(n + 1)
  BY <1>6, StartIs
<1>9. /\ DOMAIN edits' = Jobs /\ \A k \in Jobs \ {Dev} : edits'[k] = edits[k]
      /\ labels' \in [Issues -> SUBSET AllLabels] /\ \A k \in Issues \ {i} : labels'[k] = labels[k]
      /\ n = 0 => Edited(i, Add(Iteration(1))) /\ edits'[Dev] = Reset
      /\ n > 0 => Edited(i, Drop({Iteration(n)})) /\ edits'[Dev] = AddIteration(n + 1)
  <2> DEFINE es == StartNewIteration(n)
  <2>1. Head(es).add \subseteq AllLabels
    BY <1>6, <1>8, LabelNames DEF Add, Drop
  <2>2. Edit(Dev, i, es)
    BY <1>6
  <2> HIDE DEF es
  <2>3. /\ DOMAIN edits' = Jobs /\ edits'[Dev] = Tail(es)
        /\ \A k \in Jobs \ {Dev} : edits'[k] = edits[k]
        /\ DOMAIN labels' = Issues /\ Edited(i, Head(es))
        /\ \A k \in Issues \ {i} : labels'[k] = labels[k]
        /\ labels' \in [Issues -> SUBSET AllLabels]
    BY <1>3, <2>1, <2>2, EditIs
  <2> QED BY <1>8, <2>3 DEF es
<1>10. /\ StateOK /\ HistoryOK /\ Elsewhere(i) /\ misread'[i] = misread[i]
       /\ \A k \in Issues \ {i} : judged'[k] = judged[k]
       /\ judged'[i] = J
  BY <1>1, <1>3, <1>5, <1>7, <1>9, TypedNow DEF StateOK, HistoryOK, Elsewhere
<1>11. Calm({Dev})
  BY <1>7, <1>9, CalmFromRest
<1>12. JobOK(Dev, run'[Dev], pending'[Dev], edits'[Dev])
  <2>1. edits'[Dev] = Reset \/ edits'[Dev] = AddIteration(run'[Dev].iteration)
    BY <1>6, <1>7, <1>9
  <2> QED BY <1>1, <1>3, <1>7, <2>1, DevOK
<1>13. Typed'
  BY <1>3, <1>7, <1>9, <1>10, <1>11, <1>12, TypedStep DEF JobNowOK
<1>14. /\ DevStays(i) /\ DevAt(i)' /\ Resetting(i)' /\ run[Dev].issue = i
  BY <1>2, <1>7, <1>9, <1>6, EditsDiffer DEF DevStays, DevAt, Running, Resetting
<1>15. LevelOf(i)' /\ Level(i) = n /\ Level(i)' = n + 1
  BY <1>1, <1>3, <1>4, <1>6, <1>7, <1>9, InvAt, DevPreparesLevel
<1>16. SameJudges(i) /\ Dispatching(i)' = Dispatching(i)
  <2>1. NoPicker({Dev}) /\ Finalize(i) # Dev /\ \A s \in Verifiers : Verify(s, i) # Dev
    BY JobNames DEF NoPicker
  <2> QED BY <1>3, <1>11, <2>1, CalmJobs DEF SameJudges
<1>17. CapOf(i)'
  <2>1. Preparing(i) /\ ~Preparing(i)' /\ (Waiting(i)' <=> Waiting(i)) /\ (Retrying(i)' <=> Retrying(i))
    BY <1>1, <1>2, <1>7, <1>16 DEF Preparing, Waiting, SameJudges, SameJob, Retrying
  <2> QED BY <1>3, <1>6, <1>10, <1>13, <1>15, <1>16, <2>1, InvAt, DevPreparesCap
<1>18. ASSUME open'[i], ~Disturbed(i)' PROVE Phase(i)'
  <2>1. ~Judging(i)
    BY <1>5, <1>10, <1>18 DEF Disturbed
  <2>2. ~Judging(i)'
    BY <1>16, <2>1 DEF Judging, SameJudges, SameJob, Running
  <2> QED BY <1>7, <1>13, <1>14, <2>2, DevWorks
<1> QED BY <1>1, <1>10, <1>11, <1>13, <1>14, <1>15, <1>17, <1>18, DevStepKeeps

OfJobs(R, P) == DOMAIN R = Jobs /\ DOMAIN P = Jobs

\* Runs R and requests P, where verifier s of issue i, if there is one, was asked to judge iteration n,
\* are R2 and P2.
JudgedTo(R, P, s, i, n, R2, P2) ==
    /\ DOMAIN R2 = Jobs /\ DOMAIN P2 = Jobs
    /\ \A k \in Jobs : s \notin Verifiers \/ k # Verify(s, i) => R2[k] = R[k] /\ P2[k] = P[k]
    /\ s \in Verifiers =>
         /\ R[Verify(s, i)].pc = "idle" =>
              R2[Verify(s, i)] = Started(Verify(s, i), i, n) /\ P2[Verify(s, i)] = P[Verify(s, i)]
         /\ R[Verify(s, i)].pc # "idle" =>
              R2[Verify(s, i)] = R[Verify(s, i)] /\ P2[Verify(s, i)] = <<i, n>>

LEMMA JudgeIs ==
    ASSUME NEW R, NEW P, NEW J, NEW M, OfJobs(R, P),
           NEW i \in Issues, NEW s, NEW n,
           s \in Verifiers => P[Verify(s, i)] = <<>> \/ P[Verify(s, i)][1] = i
    PROVE  \E R2, P2 : Judge(Q(R, P, J, M), s, i, n) = Q(R2, P2, J, M) /\ JudgedTo(R, P, s, i, n, R2, P2)
<1>1. CASE s \notin Verifiers
  <2>1. Judge(Q(R, P, J, M), s, i, n) = Q(R, P, J, M) /\ JudgedTo(R, P, s, i, n, R, P)
    BY <1>1 DEF Judge, JudgedTo, OfJobs
  <2> QED BY <2>1
<1>2. CASE s \in Verifiers
  <2>0. PICK v \in Jobs : v = Verify(s, i)
    BY <1>2, JobNames
  <2> DEFINE R2 == [R EXCEPT ![v] = Started(v, i, n)]
             P2 == [P EXCEPT ![v] = <<i, n>>]
  <2>1. Judge(Q(R, P, J, M), s, i, n) = Send(Q(R, P, J, M), v, i, n)
    BY <1>2, <2>0 DEF Judge
  <2>2. P[v] = <<>> \/ P[v][1] = i
    BY <1>2, <2>0
  <2>3. /\ DOMAIN R2 = Jobs /\ R2[v] = Started(v, i, n) /\ \A k \in Jobs \ {v} : R2[k] = R[k]
        /\ DOMAIN P2 = Jobs /\ P2[v] = <<i, n>> /\ \A k \in Jobs \ {v} : P2[k] = P[k]
    BY DEF OfJobs
  <2>4. CASE R[v].pc = "idle"
    <3>1. Send(Q(R, P, J, M), v, i, n) = Q(R2, P, J, M)
      BY <2>4, SendIdle
    <3> HIDE DEF R2
    <3>2. JudgedTo(R, P, s, i, n, R2, P)
      BY <1>2, <2>0, <2>3, <2>4 DEF JudgedTo, OfJobs
    <3> QED BY <2>1, <3>1, <3>2
  <2>5. CASE R[v].pc # "idle"
    <3>1. Send(Q(R, P, J, M), v, i, n) = Q(R, P2, J, M)
      BY <2>2, <2>5, SendBusy
    <3> HIDE DEF P2
    <3>2. JudgedTo(R, P, s, i, n, R, P2)
      BY <1>2, <2>0, <2>3, <2>5 DEF JudgedTo, OfJobs
    <3> QED BY <2>1, <3>1, <3>2
  <2> QED BY <2>4, <2>5
<1> QED BY <1>1, <1>2

JudgesOf(i) == {Verify(s, i) : s \in Verifiers}

\* Dev ends, and every verifier is asked to judge iteration n of issue i.
LEMMA JudgesAsked ==
    ASSUME JobsOK, NEW i \in Issues, NEW n,
           Becomes(End(Judge(Judge(Now, "test", i, n), "review", i, n), Dev))
    PROVE  /\ Doms /\ History /\ RunEnds(Dev) /\ Rest({Dev} \union JudgesOf(i))
           /\ \A s \in Verifiers : RunAsked(Verify(s, i), i, n)
<1>0. /\ DOMAIN run = Jobs /\ DOMAIN pending = Jobs
      /\ \A s \in Verifiers : pending[Verify(s, i)] = <<>> \/ pending[Verify(s, i)][1] = i
  <2>1. ASSUME NEW s \in Verifiers PROVE pending[Verify(s, i)] = <<>> \/ pending[Verify(s, i)][1] = i
    <3>1. JobOK(Verify(s, i), run[Verify(s, i)], pending[Verify(s, i)], edits[Verify(s, i)])
      BY JobNames DEF JobsOK
    <3> QED BY <3>1, VerifyOK
  <2> QED BY <2>1 DEF JobsOK
<1>1. PICK R, P :
        /\ Judge(Q(run, pending, judged, misread), "test", i, n) = Q(R, P, judged, misread)
        /\ JudgedTo(run, pending, "test", i, n, R, P)
  <2>1. "test" \in Verifiers => pending[Verify("test", i)] = <<>> \/ pending[Verify("test", i)][1] = i
    BY <1>0
  <2>2. OfJobs(run, pending)
    BY <1>0 DEF OfJobs
  <2> QED BY <2>1, <2>2, JudgeIs, ZenonT(40)
<1>2. "review" \in Verifiers =>
        R[Verify("review", i)] = run[Verify("review", i)] /\ P[Verify("review", i)] = pending[Verify("review", i)]
  <2>1. Verify("review", i) # Verify("test", i)
    BY DEF Verify
  <2> QED BY <1>1, <2>1, JobNames DEF JudgedTo
<1>3. PICK R2, P2 :
        /\ Judge(Q(R, P, judged, misread), "review", i, n) = Q(R2, P2, judged, misread)
        /\ JudgedTo(R, P, "review", i, n, R2, P2)
  <2>1. "review" \in Verifiers => P[Verify("review", i)] = <<>> \/ P[Verify("review", i)][1] = i
    BY <1>0, <1>2
  <2>2. OfJobs(R, P)
    BY <1>1 DEF JudgedTo, OfJobs
  <2> QED BY <2>1, <2>2, JudgeIs, ZenonT(40)
<1>4. Becomes(End(Q(R2, P2, judged, misread), Dev))
  BY <1>1, <1>3, NowIs
<1> DEFINE r == IF P2[Dev] = <<>> THEN Idle ELSE Started(Dev, P2[Dev][1], P2[Dev][2])
           R3 == [R2 EXCEPT ![Dev] = r]
           P3 == [P2 EXCEPT ![Dev] = <<>>]
<1>5. End(Q(R2, P2, judged, misread), Dev) = Q(R3, P3, judged, misread)
  BY EndIs
<1>6. /\ P2[Dev] = <<>> => r = Idle
      /\ P2[Dev] # <<>> => r = Started(Dev, P2[Dev][1], P2[Dev][2])
  OBVIOUS
<1>7. /\ DOMAIN R3 = Jobs /\ R3[Dev] = r /\ \A k \in Jobs \ {Dev} : R3[k] = R2[k]
      /\ DOMAIN P3 = Jobs /\ P3[Dev] = <<>> /\ \A k \in Jobs \ {Dev} : P3[k] = P2[k]
  BY <1>3, JobNames DEF JudgedTo
<1> HIDE DEF r, R3, P3
<1>8. run' = R3 /\ pending' = P3 /\ History
  BY <1>4, <1>5, NowIs DEF History
<1>9. Dev \in Jobs /\ P2[Dev] = pending[Dev]
  <2>1. /\ Dev \in Jobs
        /\ "test" \notin Verifiers \/ Dev # Verify("test", i)
        /\ "review" \notin Verifiers \/ Dev # Verify("review", i)
    BY JobNames
  <2> QED BY <1>1, <1>3, <2>1 DEF JudgedTo
<1>10. RunEnds(Dev)
  BY <1>6, <1>7, <1>8, <1>9 DEF RunEnds
<1>11. ASSUME NEW k \in Jobs \ ({Dev} \union JudgesOf(i)) PROVE run'[k] = run[k] /\ pending'[k] = pending[k]
  <2>1. /\ "test" \notin Verifiers \/ k # Verify("test", i)
        /\ "review" \notin Verifiers \/ k # Verify("review", i)
    BY <1>11 DEF JudgesOf
  <2> QED BY <1>1, <1>3, <1>7, <1>8, <1>11, <2>1 DEF JudgedTo
<1>12. "test" \in Verifiers => RunAsked(Verify("test", i), i, n)
  <2>1. "test" \in Verifiers =>
          /\ Verify("test", i) \in Jobs /\ Verify("test", i) # Dev /\ Verify("test", i) # Verify("review", i)
    BY JobNames DEF Verify
  <2> QED BY <1>1, <1>3, <1>7, <1>8, <2>1 DEF RunAsked, Running, JudgedTo
<1>13. "review" \in Verifiers => RunAsked(Verify("review", i), i, n)
  <2>1. "review" \in Verifiers => Verify("review", i) \in Jobs /\ Verify("review", i) # Dev
    BY JobNames
  <2> QED BY <1>2, <1>3, <1>7, <1>8, <2>1 DEF RunAsked, Running, JudgedTo
<1>14. \A s \in Verifiers : s = "test" \/ s = "review"
  BY HarnessAssumption
<1> QED BY <1>7, <1>8, <1>10, <1>11, <1>12, <1>13, <1>14 DEF Doms, Rest

\* What Dev leaves behind when it has dispatched the judges of its issue, whoever they are.
LEMMA DevHandsOn ==
    ASSUME Inv, Typed', NEW i \in Issues, Running(Dev), run[Dev].issue = i, DevAt(i),
           edits[Dev] = <<>>, UNCHANGED <<labels, open, branch, ci, edits>>, History, RunEnds(Dev),
           NEW js, js \subseteq {Dev} \union JobsOf(i), Calm(js),
           Retrying(i)' => Retrying(i),
           open[i] /\ ~Disturbed(i) /\ Phase(i) /\ SameLabels(i) => JudgePhase(i)' /\ VerdictPhase(i)' /\ Judging(i)'
    PROVE  Inv'
<1>0. Typed /\ JobsOK /\ edits'[Dev] = <<>>
  BY DevHas
<1>1. /\ DevLeaves
      /\ ~DevAt(i)' /\ ~Waiting(i)' /\ ~Resetting(i) /\ (Preparing(i)' => Waiting(i))
  BY <1>0, DevLeft DEF DevLeaves
<1>2. SameLabels(i)
  BY <1>0, UnchangedState DEF SameLabels
<1>3. LevelOf(i)' /\ Level(i)' = Level(i)
  BY <1>0, <1>1, <1>2, InvAt, LevelIs, LevelStays DEF DevSteady, SameLabels
<1>4. Dispatching(i)' = Dispatching(i)
  <2>1. NoPicker(js)
    BY JobNames, JobsDiffer DEF NoPicker, JobsOf
  <2> QED BY <1>0, <2>1, CalmJobs
<1>5. CapOf(i)'
  <2>1. Requests(i)' <= Requests(i)
    BY <1>1, <1>4, RequestsFew
  <2> QED BY <1>0, <1>3, <2>1, InvAt, CapStays DEF History
<1>6. ASSUME open'[i], ~Disturbed(i)' PROVE Phase(i)'
  <2>1. open[i] /\ ~Disturbed(i)
    BY <1>6 DEF Disturbed, History
  <2>2. JudgePhase(i)' /\ VerdictPhase(i)' /\ Judging(i)'
    BY <1>2, <2>1, InvAt
  <2>3. DevPhase(i)'
    BY <1>1, DevAwayPhase
  <2>4. HeldPhase(i)'
    BY <2>2 DEF HeldPhase, Held
  <2> QED BY <2>2, <2>3, <2>4 DEF Phase
<1>7. Elsewhere(i) /\ \A k \in Issues \ {i} : judged'[k] = judged[k]
  BY DEF Elsewhere, History
<1> QED BY <1>1, <1>3, <1>5, <1>6, <1>7, DevStepKeeps

LEMMA JudgeStarts ==
    ASSUME NEW i \in Issues, NEW n \in Nat, NEW s \in Verifiers
    PROVE  /\ Started(Verify(s, i), i, n) \in RunRecords
           /\ Started(Verify(s, i), i, n).pc = "guard" /\ Started(Verify(s, i), i, n).issue = i
           /\ Started(Verify(s, i), i, n).iteration = n
BY StartsOK

\* The verifiers of an issue that Dev is at work on are idle.
LEMMA NoVerifier ==
    ASSUME JobsOK, NEW i \in Issues, ~Judging(i), NEW s \in Verifiers
    PROVE  /\ run[Verify(s, i)].pc = "idle" /\ pending[Verify(s, i)] = <<>> /\ edits[Verify(s, i)] = <<>>
           /\ ~Running(Verify(s, i))
<1>1. JobOK(Verify(s, i), run[Verify(s, i)], pending[Verify(s, i)], edits[Verify(s, i)])
  BY JobNames DEF JobsOK
<1>2. run[Verify(s, i)].pc = "idle"
  BY DEF Judging, Running
<1> QED BY <1>1, <1>2, VerifyOK DEF Running

\* The fast path hands its issue to finalize, judged by all.
LEMMA DevSendsFinalizeKeeps ==
    ASSUME Inv, DevDispatches, run[Dev].pc = "send-finalize"
    PROVE  Inv'
<1>1. /\ edits[Dev] = <<>> /\ Running(Dev) /\ UNCHANGED <<labels, open, branch, ci, edits>>
      /\ Becomes(End(Send(Now, Finalize(run[Dev].issue), run[Dev].issue, run[Dev].iteration), Dev))
  BY DEF DevDispatches, At, Running
<1>2. PICK i \in Issues : i = run[Dev].issue
  BY <1>1, DevHas
<1>3. /\ Typed /\ JobsOK /\ Dev \in Jobs /\ DevAt(i)
      /\ open[i] /\ ~Disturbed(i) => Phase(i) /\ ~Judging(i)
  BY <1>1, <1>2, DevHas
<1>4. PICK n \in Nat \ {0} : n = run[Dev].iteration /\ n = CurrentIteration(i)
  <2>1. Level(i) = run[Dev].iteration /\ Level(i) \in 1..MaxLabel
    BY <1>1, <1>2, DevHas
  <2>2. CurrentIteration(i) = run[Dev].iteration
    BY <1>1, <1>3, InvAt, LevelIs
  <2> QED BY <2>1, <2>2, HarnessAssumption
<1> DEFINE f == Finalize(i)
<1>5. Becomes(End(Send(Now, f, i, n), Dev))
  BY <1>1, <1>2, <1>4
<1>a. Dev # Finalize(i) /\ Dev \in Jobs /\ edits[Dev] = <<>>
  BY <1>1, <1>3, JobNames, JobsDiffer
<1>6. /\ Typed' /\ History /\ Calm({Dev, f}) /\ RunEnds(Dev) /\ Rest({Dev, f})
      /\ edits'[f] = edits[f]
      /\ ~Running(f) => /\ run'[f].pc = "join" /\ run'[f].iteration = n
                        /\ pending'[f] = <<>> /\ edits[f] = <<>>
      /\ Running(f) => run'[f] = run[f] /\ pending'[f] # <<>> /\ pending'[f][2] = n
  BY <1>1, <1>3, <1>5, <1>a, AskFinalizeDoes
<1>7. Retrying(i)' => Retrying(i)
  BY <1>6 DEF Retrying
<1>8. {Dev, f} \subseteq {Dev} \union JobsOf(i)
  BY DEF JobsOf
<1>9. ASSUME open[i], ~Disturbed(i), Phase(i), SameLabels(i)
      PROVE  JudgePhase(i)' /\ VerdictPhase(i)' /\ Judging(i)'
  <2>1. /\ ~Judging(i) /\ HasResult(i, "gate") /\ branch[i] # 0 /\ \A s \in Verifiers : HasResult(i, s)
        /\ ~Resetting(i)
    BY <1>1, <1>3, <1>9 DEF Phase, DevPhase, Resetting
  <2>2. ASSUME NEW s \in Verifiers
        PROVE  /\ run'[Verify(s, i)].pc = "idle" /\ pending'[Verify(s, i)] = <<>>
               /\ edits'[Verify(s, i)] = <<>> /\ ~Running(Verify(s, i))'
    <3>1. Verify(s, i) \notin {Dev, f}
      BY JobNames, JobsDiffer
    <3>2. SameJob(Verify(s, i))
      BY <1>3, <1>6, <3>1, CalmJobs
    <3> QED BY <1>3, <2>1, <3>2, NoVerifier DEF SameJob, Running
  <2>3. /\ \A s \in Stages : HasResult(i, s)' <=> HasResult(i, s)
        /\ CurrentIteration(i)' = CurrentIteration(i)
    BY <1>9, SameResults, CurrentStays DEF SameLabels, SameVerdicts
  <2>4. run'[f].pc \notin {"checks", "merge"} /\ edits'[f] = <<>>
    BY <1>6, <2>1 DEF Judging
  <2>5. /\ Joining(i)' => run'[f].iteration = n
        /\ pending'[f] # <<>> => pending'[f][2] = n
        /\ run'[f].pc = "join" \/ pending'[f] # <<>>
    BY <1>6, <2>1 DEF Judging, Joining
  <2>6. JudgePhase(i)'
    BY <1>1, <1>4, <2>1, <2>2, <2>3, <2>5, LabelNames DEF JudgePhase
  <2>7. \A s \in Verifiers : Passed(s) \in labels'[i] => s \in judged'[i]
    BY <1>1, <1>6, <1>9, <2>1 DEF Phase, VerdictPhase, History
  <2>8. VerdictPhase(i)'
    BY <2>2, <2>4, <2>7, EditsDiffer DEF VerdictPhase, DropFailed, DropPassed, DropMerge
  <2>9. Judging(i)'
    BY <2>5 DEF Judging
  <2> QED BY <2>6, <2>8, <2>9
<1> QED BY <1>1, <1>2, <1>3, <1>6, <1>7, <1>8, <1>9, DevHandsOn

LEMMA DevSendsKeeps ==
    ASSUME Inv, DevDispatches, run[Dev].pc # "send-finalize"
    PROVE  Inv'
<1>1. /\ run[Dev].pc = "send" /\ edits[Dev] = <<>> /\ Running(Dev)
      /\ UNCHANGED <<labels, open, branch, ci, edits>>
      /\ CurrentIteration(run[Dev].issue) = run[Dev].iteration
      /\ Becomes(End(Judge(Judge(Now, "test", run[Dev].issue, run[Dev].iteration),
                           "review", run[Dev].issue, run[Dev].iteration), Dev))
  BY DEF DevDispatches, At, Running, DevCompleted
<1>2. PICK i \in Issues : i = run[Dev].issue
  BY <1>1, DevHas
<1>3. /\ Typed /\ JobsOK /\ Dev \in Jobs /\ DevAt(i) /\ DOMAIN edits' = Jobs
      /\ open[i] /\ ~Disturbed(i) => Phase(i) /\ ~Judging(i)
  BY <1>1, <1>2, DevHas
<1>4. PICK n \in Nat \ {0} : n = run[Dev].iteration /\ n = CurrentIteration(i)
  <2>1. Level(i) = run[Dev].iteration /\ Level(i) \in 1..MaxLabel
    BY <1>1, <1>2, DevHas
  <2> QED BY <1>1, <1>2, <2>1, HarnessAssumption
<1>5. Becomes(End(Judge(Judge(Now, "test", i, n), "review", i, n), Dev))
  BY <1>1, <1>2, <1>4
<1> DEFINE js == {Dev} \union JudgesOf(i)
<1>6. /\ Doms /\ History /\ RunEnds(Dev) /\ Rest(js)
      /\ \A s \in Verifiers : RunAsked(Verify(s, i), i, n)
  BY <1>3, <1>5, JudgesAsked
<1>7. Calm(js)
  BY <1>1, <1>3, <1>6, CalmFromRest
<1>8. ASSUME NEW s \in Verifiers
      PROVE  JobOK(Verify(s, i), run'[Verify(s, i)], pending'[Verify(s, i)], edits'[Verify(s, i)])
  <2> DEFINE v == Verify(s, i)
  <2>1. JobOK(v, run[v], pending[v], edits[v]) /\ edits'[v] = edits[v]
    BY <1>1, <1>3, JobNames DEF JobsOK
  <2>2. CASE Running(v)
    <3>1. run'[v] = run[v] /\ pending'[v] = <<i, n>> /\ run[v].pc # "idle"
      BY <1>6, <2>2 DEF RunAsked, Running
    <3>2. <<i, n>> \in Issues \X Nat /\ <<i, n>>[1] = i /\ <<i, n>>[2] > 0
      OBVIOUS
    <3> QED BY <2>1, <3>1, <3>2, VerifyOK
  <2>3. CASE ~Running(v)
    <3>1. run'[v] = Started(v, i, n) /\ pending'[v] = pending[v] /\ run[v].pc = "idle"
      BY <1>6, <2>3 DEF RunAsked, Running
    <3>2. pending'[v] = <<>> /\ edits'[v] = <<>>
      BY <2>1, <3>1, VerifyOK
    <3>a. n \in Nat
      OBVIOUS
    <3>3. /\ Started(v, i, n) \in RunRecords /\ Started(v, i, n).pc = "guard"
          /\ Started(v, i, n).issue = i /\ Started(v, i, n).iteration = n
      BY <3>a, JudgeStarts
    <3> QED BY <3>1, <3>2, <3>3, VerifyOK
  <2> QED BY <2>2, <2>3
<1>9. JobOK(Dev, run'[Dev], pending'[Dev], edits'[Dev])
  BY <1>1, <1>3, <1>6, EndedOK
<1>10. Typed'
  <2>1. \A j \in js : JobNowOK(j)
    BY <1>8, <1>9 DEF JobNowOK, JudgesOf
  <2> QED BY <1>1, <1>3, <1>6, <1>7, <2>1, TypedStep, TypedNow, UnchangedState
<1>11. Finalize(i) \notin js /\ js \subseteq {Dev} \union JobsOf(i)
  BY JobNames, JobsDiffer DEF JudgesOf, JobsOf
<1>12. SameJob(Finalize(i))
  BY <1>3, <1>7, <1>11, CalmJobs
<1>13. Retrying(i)' => Retrying(i)
  BY <1>12 DEF SameJob, Retrying
<1>14. ASSUME open[i], ~Disturbed(i), Phase(i), SameLabels(i)
       PROVE  JudgePhase(i)' /\ VerdictPhase(i)' /\ Judging(i)'
  <2>1. /\ ~Judging(i) /\ HasResult(i, "gate") /\ branch[i] # 0 /\ \A s \in Verifiers : ~HasResult(i, s)
    BY <1>1, <1>3, <1>14 DEF Phase, DevPhase, Resetting
  <2>2. ASSUME NEW s \in Verifiers
        PROVE  /\ run'[Verify(s, i)].pc = "guard" /\ run'[Verify(s, i)].iteration = n
               /\ pending'[Verify(s, i)] = <<>>
               /\ edits'[Verify(s, i)] = <<>> /\ Running(Verify(s, i))'
    <3>1. /\ ~Running(Verify(s, i)) /\ pending[Verify(s, i)] = <<>> /\ edits[Verify(s, i)] = <<>>
      BY <1>3, <2>1, NoVerifier
    <3>2. run'[Verify(s, i)] = Started(Verify(s, i), i, n)
      BY <1>6, <3>1 DEF RunAsked
    <3>3. pending'[Verify(s, i)] = <<>> /\ edits'[Verify(s, i)] = <<>>
      BY <1>1, <1>6, <3>1 DEF RunAsked
    <3>a. n \in Nat
      OBVIOUS
    <3>4. /\ Started(Verify(s, i), i, n).pc = "guard"
          /\ Started(Verify(s, i), i, n).iteration = n
      BY <3>a, JudgeStarts
    <3> QED BY <3>2, <3>3, <3>4 DEF Running
  <2>3. /\ \A s \in Stages : HasResult(i, s)' <=> HasResult(i, s)
        /\ CurrentIteration(i)' = CurrentIteration(i)
    BY <1>14, SameResults, CurrentStays DEF SameLabels, SameVerdicts
  <2>4. /\ run'[Finalize(i)].pc \notin {"join", "checks", "merge"} /\ edits'[Finalize(i)] = <<>>
        /\ pending'[Finalize(i)] = <<>>
    BY <1>12, <2>1 DEF Judging, SameJob
  <2>5. JudgePhase(i)'
    BY <1>1, <1>4, <2>1, <2>2, <2>3, <2>4, LabelNames DEF JudgePhase, Joining
  <2>6. \A s \in Verifiers : Passed(s) \notin labels'[i] /\ ~HasResult(i, s)'
    BY <2>1, <2>3, LabelNames DEF HasResult
  <2>7. VerdictPhase(i)'
    BY <2>2, <2>4, <2>6, EditsDiffer DEF VerdictPhase, DropFailed, DropPassed, DropMerge
  <2>8. Judging(i)'
    BY <2>2, HarnessAssumption DEF Judging
  <2> QED BY <2>5, <2>7, <2>8
<1> HIDE DEF js
<1> QED BY <1>1, <1>2, <1>3, <1>6, <1>7, <1>10, <1>11, <1>13, <1>14, DevHandsOn

-----------------------------------------------------------------------------
(* The invariant of the harness, and what follows from it.                  *)

LEMMA InitHolds == Init => Inv
<1> SUFFICES ASSUME Init PROVE Inv
  OBVIOUS
<1>1. /\ \A i \in Issues : /\ labels[i] = {} /\ branch[i] = 0 /\ judged[i] = {} /\ misread[i] = 0
      /\ \A j \in Jobs : run[j] = Idle /\ pending[j] = <<>> /\ edits[j] = <<>>
  BY DEF Init
<1>2. \A j \in Jobs : ~Running(j) /\ run[j].pc = "idle"
  BY <1>1 DEF Running, Idle
<1>3. Typed
  <2>1. TypeOK /\ DOMAIN judged = Issues
    BY HarnessAssumption DEF Init, TypeOK
  <2>2. ASSUME NEW j \in Jobs PROVE JobOK(j, Idle, <<>>, <<>>)
    <3>1. /\ Idle \in RunRecords /\ Idle.pc = "idle"
      BY StartsOK
    <3>2. "idle" \in PcsOf(j) /\ <<>> \in EditsAt(j, "idle", Idle.iteration)
      BY DEF PcsOf, EditsAt
    <3> QED BY <3>1, <3>2 DEF JobOK
  <2>3. JobsOK
    BY <1>1, <2>2 DEF JobsOK, Init
  <2> QED BY <2>1, <2>3 DEF Typed
<1>4. ASSUME NEW i \in Issues
      PROVE  /\ run[Dev].pc = "idle" /\ pending[Dev] = <<>> /\ run[Finalize(i)].pc = "idle"
             /\ pending[Finalize(i)] = <<>> /\ edits[Finalize(i)] = <<>>
             /\ \A s \in Verifiers : /\ run[Verify(s, i)].pc = "idle" /\ ~Running(Verify(s, i))
                                     /\ pending[Verify(s, i)] = <<>> /\ edits[Verify(s, i)] = <<>>
  BY <1>1, <1>2, JobNames
<1>5. ASSUME NEW i \in Issues PROVE LevelOf(i) /\ Level(i) = 0
  <2>1. CurrentIteration(i) = 0
    BY <1>1 DEF CurrentIteration
  <2>2. ~LabelIsOff(i) /\ ~DevAt(i)
    BY <1>4 DEF LabelIsOff, DevAt
  <2> QED BY <1>1, <2>1, <2>2 DEF LevelOf, Level
<1>6. ASSUME NEW i \in Issues PROVE CapOf(i)
  BY <1>5, HarnessAssumption DEF CapOf
<1>7. ASSUME NEW i \in Issues PROVE Phase(i)
  <2>1. ~DevAt(i) /\ ~Judged(i)
    BY <1>4 DEF DevAt, Judged, Joining
  <2>2. VerdictPhase(i)
    BY <1>1, <1>4, EditsDiffer DEF VerdictPhase, DropFailed, DropPassed, DropMerge
  <2> QED BY <1>1, <2>1, <2>2 DEF Phase, DevPhase, JudgePhase, HeldPhase
<1> QED BY <1>3, <1>5, <1>6, <1>7 DEF Inv, LevelInv, CapInv, PhaseInv

LEMMA DevDispatchesKeeps ==
    ASSUME Inv, DevDispatches
    PROVE  Inv'
BY DevSendsFinalizeKeeps, DevSendsKeeps

LEMMA EditLabelKeeps ==
    ASSUME Inv, NEW j \in Jobs, EditLabel(j)
    PROVE  Inv'
<1>1. CASE j = Dev
  BY <1>1, DevEditKeeps
<1>2. ASSUME NEW p \in Pickers, j = Picker(p) PROVE Inv'
  BY <1>2, PickerEditKeeps
<1>3. ASSUME NEW s \in Verifiers, NEW i \in Issues, j = Verify(s, i) PROVE Inv'
  BY <1>3, VerifyEditKeeps
<1>4. ASSUME NEW i \in Issues, j = Finalize(i) PROVE Inv'
  BY <1>4, FinalizeEditKeeps
<1>5. ASSUME NEW i \in Issues, j = Feedback(i) PROVE Inv'
  BY <1>5, FeedbackEditKeeps
<1> QED BY <1>1, <1>2, <1>3, <1>4, <1>5, JobKinds

LEMMA NextKeeps == Inv /\ [Next]_vars => Inv'
<1> SUFFICES ASSUME Inv, [Next]_vars PROVE Inv'
  OBVIOUS
<1>1. ASSUME NEW j \in Jobs, EditLabel(j) PROVE Inv'
  BY <1>1, EditLabelKeeps
<1>2. ASSUME NEW p \in Pickers, PickerStep(p) PROVE Inv'
  BY <1>2, PickerStartsKeeps, PickerChecksBusyKeeps, PickerPicksKeeps, PickerDispatchesKeeps DEF PickerStep
<1>3. CASE DevStep
  BY <1>3, DevPreparesKeeps, DevMeetsConflictKeeps, DevAgentEndsKeeps, DevPushesKeeps,
     DevPushFailsKeeps, DevOpensNoPrKeeps, DevBuildGateKeeps, DevKicksPickerKeeps,
     DevFastPathKeeps, DevDispatchesKeeps, DevEndsFailedKeeps DEF DevStep
<1>4. ASSUME NEW i \in Issues, NEW s \in Verifiers, VerifierStep(s, i) PROVE Inv'
  BY <1>4, VerifierGuardKeeps, VerifierReportsKeeps, VerifierEnsuresLabelKeeps, VerifierDispatchesKeeps
     DEF VerifierStep
<1>5. ASSUME NEW i \in Issues, FinalizeStep(i) PROVE Inv'
  BY <1>5, TryFinalizeKeeps, FinalizeWaitsForChecksKeeps, FinalizeMergesKeeps,
     FinalizeKicksPickerKeeps, FinalizeRetriesKeeps DEF FinalizeStep
<1>6. ASSUME NEW i \in Issues, CiEnds(i) PROVE Inv'
  BY <1>6, CiEndsKeeps
<1>7. ASSUME UNCHANGED vars PROVE Inv'
  <2>1. UNCHANGED <<labels, open, branch, ci, run, pending, edits, judged, misread>>
    BY <1>7 DEF vars
  <2>2. Typed'
    BY <2>1 DEF Inv, Typed, TypeOK, JobsOK, Disturbed
  <2>3. LevelInv'
    BY <2>1 DEF Inv, LevelInv, LevelOf, DevAt, Level, LabelIsOff, CurrentIteration
  <2>4. \A i \in Issues : Level(i)' = Level(i) /\ Requests(i)' = Requests(i)
    BY <2>1 DEF Level, LabelIsOff, CurrentIteration, Requests, Dispatching, Preparing, Waiting, Retrying
  <2>5. CapInv'
    BY <2>1, <2>4 DEF Inv, CapInv, CapOf
  <2>6. ASSUME NEW i \in Issues
        PROVE  /\ DevPhase(i)' = DevPhase(i) /\ JudgePhase(i)' = JudgePhase(i)
               /\ VerdictPhase(i)' = VerdictPhase(i) /\ HeldPhase(i)' = HeldPhase(i)
    <3>1. DevAt(i)' = DevAt(i) /\ Judging(i)' = Judging(i) /\ Resetting(i)' = Resetting(i)
      BY <2>1 DEF DevAt, Judging, Resetting, Running
    <3>2. Judged(i)' = Judged(i) /\ Joining(i)' = Joining(i) /\ Held(i)' = Held(i)
      BY <2>1, <3>1 DEF Judged, Joining, Held, Running, Dispatching, Waiting
    <3>3. CurrentIteration(i)' = CurrentIteration(i) /\ \A s : HasResult(i, s)' = HasResult(i, s)
      BY <2>1 DEF CurrentIteration, HasResult
    <3> QED BY <2>1, <3>1, <3>2, <3>3 DEF DevPhase, JudgePhase, VerdictPhase, HeldPhase, Running
  <2>7. PhaseInv'
    BY <2>1, <2>6 DEF Inv, PhaseInv, Phase, Disturbed
  <2> QED BY <2>2, <2>3, <2>5, <2>7 DEF Inv
<1> QED BY <1>1, <1>2, <1>3, <1>4, <1>5, <1>6, <1>7 DEF Next

\* Every state the harness reaches, with any number of tickets and of overlapping picker
\* runs, satisfies the inductive invariant: the jobs hold only the edits their step may
\* leave (Typed), a ticket has one iteration label and that is the one Dev works on
\* (LevelInv), beyond the cap every request on its way is paid for (CapInv), and an
\* undisturbed ticket is in one phase at a time (PhaseInv).
THEOREM HarnessInvariant == Spec => []Inv
BY InitHolds, NextKeeps, PTL DEF Spec

LEMMA InvBounds == Inv => CapOvershootIsBounded
<1> SUFFICES ASSUME Inv PROVE CapOvershootIsBounded
  OBVIOUS
<1>1. TypeOK
  BY DEF Inv, Typed
<1>2. ASSUME NEW i \in Issues
      PROVE  CurrentIteration(i) <= MaxIterations + Cardinality(Pickers) + 2 + misread[i]
  <2>1. /\ CurrentIteration(i) \in Nat /\ Level(i) \in Nat /\ CurrentIteration(i) <= Level(i) /\ misread[i] \in Nat
    BY InvAt, LevelIs, TypedNow, CurrentIs, HarnessAssumption
  <2>2. Requests(i) \in Nat /\ Cardinality(Pickers) \in Nat /\ MaxIterations \in Nat
    BY RequestsAre, HarnessAssumption DEF Requests
  <2>3. CapOf(i)
    BY InvAt
  <2> QED BY <2>1, <2>2, <2>3 DEF CapOf
<1> QED BY <1>1, <1>2 DEF CapOvershootIsBounded

\* A ticket passes the cap by no more than the requests that can be on their way at once
\* and the picker runs that looked at it between two of Dev's label edits.
THEOREM CapHolds == Spec => []CapOvershootIsBounded
BY HarnessInvariant, InvBounds, PTL

LEMMA HeldIsInHand ==
    ASSUME Inv, NEW i \in Issues, Held(i)
    PROVE  InHand(i)
<1>1. \A j \in Jobs : JobOK(j, run[j], pending[j], edits[j])
  BY InvAt DEF JobsOK
<1>2. ASSUME NEW s \in Verifiers, Running(Verify(s, i)) PROVE InHand(i)
  <2>1. run[Verify(s, i)].issue = i
    BY <1>1, <1>2, JobNames DEF JobOK, Judges, Running
  <2> QED BY <2>1, JobNames DEF InHand
<1>3. ASSUME pending[Finalize(i)] # <<>> PROVE InHand(i)
  <2>1. pending[Finalize(i)][1] = i
    BY <1>1, <1>3, JobNames DEF JobOK, Judges
  <2> QED BY <1>3, <2>1, JobNames DEF InHand
<1>4. ASSUME run[Finalize(i)].pc # "idle" PROVE InHand(i)
  <2>1. run[Finalize(i)].issue = i
    BY <1>1, <1>4, JobNames DEF JobOK, Judges
  <2> QED BY <2>1, JobNames DEF InHand
<1>5. ASSUME edits[Finalize(i)] # <<>> PROVE InHand(i)
  <2>1. run[Finalize(i)].pc # "idle"
    BY <1>1, <1>5, JobNames, FinalizeOK
  <2> QED BY <1>4, <2>1
<1>6. Judging(i) => InHand(i)
  BY <1>2, <1>3, <1>4, <1>5 DEF Judging
<1>7. ASSUME Dispatching(i) # {} PROVE InHand(i)
  BY <1>7, JobNames DEF Dispatching, InHand
<1>8. (Running(Dev) /\ run[Dev].issue = i) \/ Waiting(i) => InHand(i)
  BY JobNames DEF InHand, Waiting
<1>9. edits[Feedback(i)] # <<>> => InHand(i)
  BY DEF InHand
<1> QED BY <1>6, <1>7, <1>8, <1>9 DEF Held

LEMMA InvHolds == Inv => NoTicketIsStranded
<1> SUFFICES ASSUME Inv, NEW i \in Issues, open[i], ~Untouched(i),
                    {NeedsRework, ReadyToMerge} \intersect labels[i] = {}, ~Disturbed(i)
             PROVE  InHand(i)
  BY DEF NoTicketIsStranded
<1>1. HeldPhase(i)
  BY InvAt DEF Phase
<1>2. Held(i)
  BY <1>1 DEF HeldPhase, Untouched
<1> QED BY <1>2, HeldIsInHand

\* No open ticket that was begun is left without a label the picker looks for and without
\* a run that will give it one, but for the disturbed ones.
THEOREM NothingIsStranded == Spec => []NoTicketIsStranded
BY HarnessInvariant, InvHolds, PTL

LEMMA OnlyFinalizeMerges ==
    ASSUME [Next]_vars, NEW i \in Issues, open[i], ~open'[i], Typed
    PROVE  FinalizeMerges(i)
<1>1. \A k \in Issues : FinalizeMerges(k) /\ k # i => open'[i] = open[i]
  BY TypedNow DEF FinalizeMerges
<1>2. open' # open
  OBVIOUS
<1>3. \A k \in Issues : FinalizeStep(k) => FinalizeMerges(k)
  BY <1>2 DEF FinalizeStep, TryFinalize, FinalizeWaitsForChecks, FinalizeKicksPicker, FinalizeRetries
<1>4. /\ ~\E j \in Jobs : EditLabel(j)
      /\ ~\E p \in Pickers : PickerStep(p)
      /\ ~DevStep
      /\ \A k \in Issues : ~CiEnds(k) /\ \A s \in Verifiers : ~VerifierStep(s, k)
  <2>1. ~\E j \in Jobs : EditLabel(j)
    BY <1>2 DEF EditLabel
  <2>2. ~\E p \in Pickers : PickerStep(p)
    BY <1>2 DEF PickerStep, PickerStarts, PickerChecksBusy, PickerPicks, PickerDispatches
  <2>3. ~DevStep
    BY <1>2 DEF DevStep, DevPrepares, DevMeetsConflict, DevAgentEnds, DevPushes, DevPushFails,
       DevOpensNoPr, DevBuildGate, DevKicksPicker, DevFastPath, DevDispatches, DevEndsFailed
  <2>4. \A k \in Issues : ~CiEnds(k)
    BY <1>2 DEF CiEnds
  <2>5. \A k \in Issues : \A s \in Verifiers : ~VerifierStep(s, k)
    BY <1>2 DEF VerifierStep, VerifierGuard, VerifierReports, VerifierEnsuresLabel, VerifierDispatches
  <2> QED BY <2>1, <2>2, <2>3, <2>4, <2>5
<1> QED BY <1>1, <1>2, <1>3, <1>4 DEF Next, vars

LEMMA MergeIsJudged ==
    ASSUME Inv, NEW i \in Issues, FinalizeMerges(i), open[i], ~Disturbed(i)
    PROVE  branch[i] <= run[Finalize(i)].iteration /\ judged[i] = Verifiers
<1>1. Phase(i) /\ run[Finalize(i)].pc = "merge" /\ Typed /\ LevelOf(i)
  BY InvAt DEF FinalizeMerges, At
<1>2. Judging(i) /\ Judged(i) /\ Joining(i)
  BY <1>1 DEF Judging, Judged, Joining
<1>3. ~DevAt(i)
  BY <1>1, <1>2, AtWork
<1>4. run[Finalize(i)].iteration = CurrentIteration(i)
  BY <1>1, <1>2 DEF Phase, JudgePhase
<1>5. branch[i] <= CurrentIteration(i)
  BY <1>1, <1>3, LevelIs
<1>6. judged[i] \subseteq Verifiers
  BY <1>1, TypedNow DEF Disturbed
<1>7. \A s \in Verifiers : s \in judged[i]
  BY <1>1 DEF Phase, VerdictPhase
<1> QED BY <1>4, <1>5, <1>6, <1>7

MergesJudged ==
    \A i \in Issues :
      open[i] /\ ~open'[i] /\ ~Disturbed(i)
        => /\ branch[i] <= run[Finalize(i)].iteration
           /\ judged[i] = Verifiers

\* What finalize merges is what every verifier passed: no Dev run has pushed to the
\* branch since, and no verdict of an earlier iteration was taken for one of this.
THEOREM MergesAreJudged == Spec => MergesTheJudgedIteration
<1>1. Inv /\ [Next]_vars => [MergesJudged]_vars
  <2> SUFFICES ASSUME Inv, [Next]_vars, NEW i \in Issues, open[i], ~open'[i], ~Disturbed(i)
               PROVE  branch[i] <= run[Finalize(i)].iteration /\ judged[i] = Verifiers
    BY DEF MergesJudged
  <2>1. FinalizeMerges(i)
    BY InvAt, OnlyFinalizeMerges
  <2> QED BY <2>1, MergeIsJudged
<1>2. Spec => [][MergesJudged]_vars
  BY <1>1, HarnessInvariant, PTL DEF Spec
<1> QED BY <1>2 DEF MergesTheJudgedIteration, MergesJudged
=============================================================================
