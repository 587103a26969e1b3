---------------------------- MODULE AgentHarness ----------------------------
(***************************************************************************)
(* The development harness kept in agents/ and .github/workflows: an issue *)
(* is a ticket, its labels are the state of the ticket, and five workflows *)
(* (queue picker, Dev, Test, Review, finalize) and the CI feedback loop    *)
(* read and edit those labels with one `gh` call at a time.                *)
(*                                                                         *)
(* A workflow run is a job.  Jobs of one concurrency group are serialised  *)
(* by GitHub, which keeps one run and one pending request per group and    *)
(* cancels the older pending request when a newer one arrives.             *)
(***************************************************************************)
EXTENDS Naturals, Sequences, FiniteSets

CONSTANTS Issues,          \* ticket numbers, in the order the picker sorts them
          Pickers,         \* how many picker runs may overlap
          Verifiers,       \* the agents that judge a branch: test, review
          MaxIterations,   \* MAX_ITERATIONS
          MaxLabel         \* bound: no Dev run goes beyond this iteration

ASSUME HarnessAssumption ==
    /\ Issues \subseteq Nat \ {0} /\ IsFiniteSet(Issues)
    /\ Pickers \subseteq Nat \ {0} /\ IsFiniteSet(Pickers)
    /\ Verifiers \subseteq {"test", "review"} /\ Verifiers # {}
    /\ MaxIterations \in Nat \ {0}
    /\ MaxLabel \in Nat

VARIABLES labels,    \* agent:* labels of each issue
          open,      \* is the issue still open
          branch,    \* iteration whose work agent/issue-N holds, 0 without a branch
          ci,        \* CI of the head of that branch
          run,       \* run in progress of each job
          pending,   \* request waiting for each job's group, <<>> if none
          edits,     \* label edits each run has still to make
          judged,    \* history: verifiers that passed each issue's iteration, or
                     \* {"disturbed"} where it began under runs of an earlier one
                     \* or its Dev request or pull request was dropped
          misread    \* history: how often a picker took each issue for a fresh one
                     \* while Dev was putting an iteration beyond the cap on it

vars == <<labels, open, branch, ci, run, pending, edits, judged, misread>>

Stages == {"dev", "gate"} \union Verifiers

Dev == <<"dev", 0>>
Picker(p) == <<"picker", p>>
Verify(s, i) == <<s, i>>
Finalize(i) == <<"finalize", i>>
Feedback(i) == <<"feedback", i>>
Jobs == {Dev} \union {Picker(p) : p \in Pickers}
             \union ((Verifiers \union {"finalize", "feedback"}) \X Issues)

ReadyForDev == <<"ticket", "ready-for-dev">>
ReadyToMerge == <<"ticket", "ready-to-merge">>
NeedsRework == <<"ticket", "needs-rework">>
Iteration(n) == <<"iteration", n>>
Passed(s) == <<s, "pass">>
Failed(s) == <<s, "fail">>

Idle == [pc |-> "idle", issue |-> 0, iteration |-> 0]
Running(j) == run[j].pc # "idle"

CurrentIteration(i) ==
    LET found == {n \in 1..MaxLabel : Iteration(n) \in labels[i]}
    IN  IF found = {} THEN 0 ELSE CHOOSE n \in found : TRUE

\* True, False or None of result_from_labels, as a set: a pass label wins.
ResultFromLabels(i, s) ==
    IF Passed(s) \in labels[i] THEN {TRUE}
    ELSE IF Failed(s) \in labels[i] THEN {FALSE} ELSE {}

Add(l) == [add |-> {l}, drop |-> {}]
Drop(ls) == [add |-> {}, drop |-> ls]

SetResultLabel(s, passed) ==
    IF passed THEN <<Add(Passed(s)), Drop({Failed(s)})>>
              ELSE <<Add(Failed(s)), Drop({Passed(s)})>>

\* The results of Dev and of the gate, which nobody else sets or reads meanwhile.
SetResult(s, passed) ==
    [add |-> {IF passed THEN Passed(s) ELSE Failed(s)},
     drop |-> {IF passed THEN Failed(s) ELSE Passed(s)}]

HandBack == <<[add |-> {NeedsRework}, drop |-> {ReadyToMerge}]>>

\* Mutant: the verdicts of the iteration before stay.
StartNewIterationJudged(n) ==
    (IF n > 0 THEN <<Drop({Iteration(n)})>> ELSE <<>>)
      \o <<Add(Iteration(n + 1)), Drop({NeedsRework, ReadyToMerge})>>

\* The calls after the new iteration label are one edit: no reader that looks
\* between them decides otherwise than before or after all of them.
StartNewIteration(n) ==
    (IF n > 0 THEN <<Drop({Iteration(n)})>> ELSE <<>>)
      \o <<Add(Iteration(n + 1)),
           Drop({NeedsRework, ReadyToMerge}
                  \union {Passed(s) : s \in Stages} \union {Failed(s) : s \in Stages})>>

Untouched(i) == labels[i] = {}
Retryable(i) == NeedsRework \in labels[i] /\ CurrentIteration(i) < MaxIterations
Eligible == {i \in Issues : open[i] /\ (Untouched(i) \/ Retryable(i))}

\* needs-rework before new work, then the order of the issues.
SortsBefore(i, k) ==
    LET rework(x) == NeedsRework \in labels[x]
    IN  (rework(i) /\ ~rework(k)) \/ (rework(i) = rework(k) /\ i <= k)
NextIssue(i) == i \in Eligible /\ \A k \in Eligible : SortsBefore(i, k)

\* Dev has taken the old iteration label of the issue off and not yet put the new one on.
LabelIsOff(i) ==
    /\ run[Dev].pc = "agent" /\ run[Dev].issue = i
    /\ Iteration(run[Dev].iteration) \notin labels[i]

FirstStep(j) ==
    CASE j[1] = "dev" -> "prepare"
      [] j[1] = "picker" -> "check"
      [] j[1] \in Verifiers -> "guard"
      [] j[1] = "finalize" -> "join"
Started(j, i, n) == [pc |-> FirstStep(j), issue |-> i, iteration |-> n]

-----------------------------------------------------------------------------
(* Runs and their groups, and what is remembered of them, as a record that  *)
(* one action may change several times.                                     *)

Now == [run |-> run, pending |-> pending, judged |-> judged, misread |-> misread]
Becomes(q) ==
    run' = q.run /\ pending' = q.pending /\ judged' = q.judged /\ misread' = q.misread

Disturbed(i) == judged[i] = {"disturbed"}
Disturb(q, i) == [q EXCEPT !.judged[i] = {"disturbed"}]
PassedBy(q, i, by) == IF Disturbed(i) THEN q ELSE [q EXCEPT !.judged[i] = by]

Goto(q, j, pc) == [q EXCEPT !.run[j].pc = pc]

\* Dispatch job k for issue i: it runs if its group is idle, or else waits there
\* in the place of the request that waited before, which disturbs the ticket that
\* request was for if it is another one.
Send(q, k, i, n) ==
    IF q.run[k].pc = "idle" THEN [q EXCEPT !.run[k] = Started(k, i, n)]
    ELSE LET old == q.pending[k]
             new == [q EXCEPT !.pending[k] = <<i, n>>]
         IN  IF old = <<>> \/ old[1] = i THEN new ELSE Disturb(new, old[1])

\* Run j ends, and the pending request of its group starts.
End(q, j) ==
    [q EXCEPT !.pending[j] = <<>>,
              !.run[j] = IF q.pending[j] = <<>> THEN Idle
                         ELSE Started(j, q.pending[j][1], q.pending[j][2])]

\* Ask for a picker run.  Where all of them are busy, one more changes nothing.
KickPicker(q) ==
    LET idle == {p \in Pickers : q.run[Picker(p)].pc = "idle"} IN
    IF idle = {} THEN q ELSE Send(q, Picker(CHOOSE p \in idle : TRUE), 0, 0)

\* A step that decides on its own what to write is taken together with the first
\* edit: nothing anyone could see lies between the two.  A step that decides from
\* labels that others write leaves all its edits for later.

\* Job j is at step pc, with no label edit left to make.
At(j, pc) == run[j].pc = pc /\ edits[j] = <<>>

\* Job j makes the first of its edits of issue i and has the others still to make.
Edit(j, i, es) ==
    /\ labels' = [labels EXCEPT ![i] = (@ \ Head(es).drop) \union Head(es).add]
    /\ edits' = [edits EXCEPT ![j] = Tail(es)]

EditLabel(j) ==
    /\ edits[j] # <<>>
    /\ Edit(j, IF j = Dev \/ j[1] = "picker" THEN run[j].issue ELSE j[2], edits[j])
    /\ UNCHANGED <<open, branch, ci, run, pending, judged, misread>>

-----------------------------------------------------------------------------
(* Queue picker: agent-harness-queue-picker.yml and queue_picker.py         *)

PickerStarts(p) ==
    /\ ~Running(Picker(p))
    /\ Becomes(Send(Now, Picker(p), 0, 0))
    /\ UNCHANGED <<labels, open, branch, ci, edits>>

PickerChecksBusy(p) ==
    LET j == Picker(p) IN
    /\ At(j, "check")
    /\ Becomes(IF Running(Dev) THEN End(Now, j) ELSE Goto(Now, j, "pick"))
    /\ UNCHANGED <<labels, open, branch, ci, edits>>

Misread(q, i) ==
    IF LabelIsOff(i) /\ run[Dev].iteration > MaxIterations
    THEN [q EXCEPT !.misread[i] = @ + 1] ELSE q

PickerPicks(p) ==
    LET j == Picker(p) IN
    /\ At(j, "pick")
    /\ \/ Eligible = {} /\ Becomes(End(Now, j)) /\ UNCHANGED edits
       \/ \E i \in Issues :
            /\ NextIssue(i)
            /\ Becomes([Misread(Goto(Now, j, "dispatch"), i) EXCEPT !.run[j].issue = i])
            /\ edits' = [edits EXCEPT ![j] = <<Add(ReadyForDev)>>]
    /\ UNCHANGED <<labels, open, branch, ci>>

PickerDispatches(p) ==
    LET j == Picker(p)
        i == run[j].issue
    IN
    /\ At(j, "dispatch")
    /\ Becomes(End(Send(Now, Dev, i, 0), j))
    /\ UNCHANGED <<labels, open, branch, ci, edits>>

-----------------------------------------------------------------------------
(* Dev: agent-harness.yml and dev_agent.py                                  *)

\* A run or request of an earlier iteration may still set a verdict or a state of issue i.
Judging(i) ==
    \/ \E s \in Verifiers : Running(Verify(s, i))
    \/ pending[Finalize(i)] # <<>>
    \/ run[Finalize(i)].pc \in {"join", "checks", "merge"}
    \/ edits[Finalize(i)] # <<>>

\* prepare_iteration.py reads the iteration, then starts the next one.
DevPrepares ==
    LET i == run[Dev].issue
        n == CurrentIteration(i)
    IN
    /\ At(Dev, "prepare") /\ n < MaxLabel
    /\ Becomes([Goto(Now, Dev, "agent") EXCEPT
                  !.run[Dev].iteration = n + 1,
                  !.judged[i] = IF Judging(i) THEN {"disturbed"} ELSE {}])
    /\ Edit(Dev, i, StartNewIteration(n))
    /\ UNCHANGED <<open, branch, ci>>

\* The resumed branch conflicts with main: the run aborts before it is an iteration.
DevMeetsConflict ==
    LET i == run[Dev].issue IN
    /\ At(Dev, "prepare") /\ branch[i] # 0
    /\ Becomes(IF NeedsRework \in labels[i] THEN End(Now, Dev) ELSE Disturb(End(Now, Dev), i))
    /\ UNCHANGED <<labels, open, branch, ci, edits>>

\* dev_agent.py records its own result, unless it dies before it gets there.
DevAgentEnds ==
    /\ At(Dev, "agent")
    /\ \/ \E passed \in BOOLEAN :
            /\ Edit(Dev, run[Dev].issue, <<SetResult("dev", passed)>>)
            /\ Becomes(Goto(Now, Dev, IF passed THEN "push" ELSE "push-failed"))
       \/ Becomes(Goto(Now, Dev, "push-failed")) /\ UNCHANGED <<labels, edits>>
    /\ UNCHANGED <<open, branch, ci>>

\* Push what changed, if anything did, and record the hard gate.
DevPushes ==
    LET i == run[Dev].issue IN
    /\ run[Dev].pc \in {"push", "push-failed"} /\ edits[Dev] = <<>>
    /\ \/ /\ branch' = [branch EXCEPT ![i] = run[Dev].iteration]
          /\ ci' = [ci EXCEPT ![i] = "running"]
       \/ UNCHANGED <<branch, ci>>
    /\ \E passed \in BOOLEAN : Edit(Dev, i, <<SetResult("gate", passed)>>)
    /\ Becomes(Goto(Now, Dev, IF run[Dev].pc = "push" THEN "build" ELSE "hand-back"))
    /\ UNCHANGED open

\* The step that marks needs-rework is the only one left to such a run.
DevPushFails ==
    /\ run[Dev].pc \in {"push", "push-failed"} /\ edits[Dev] = <<>>
    /\ Becomes(Goto(Now, Dev, "done"))
    /\ Edit(Dev, run[Dev].issue, <<Add(NeedsRework)>>)
    /\ UNCHANGED <<open, branch, ci>>

\* Without a pull request the job fails, and neither the dispatch nor the
\* hand-back step runs in a failed job.
DevOpensNoPr ==
    /\ run[Dev].pc \in {"build", "hand-back"} /\ edits[Dev] = <<>>
    /\ Becomes(Disturb(End(Now, Dev), run[Dev].issue))
    /\ UNCHANGED <<labels, open, branch, ci, edits>>

\* The build gate: a Dev result, a branch with work, and a green check.sh;
\* a tests-only diff is verified by that alone.
DevBuildGate ==
    /\ run[Dev].pc \in {"build", "hand-back"} /\ edits[Dev] = <<>>
    /\ \/ /\ run[Dev].pc = "build" /\ branch[run[Dev].issue] # 0
          /\ \E next \in {"send", "fast-path"} : Becomes(Goto(Now, Dev, next))
          /\ UNCHANGED <<labels, edits>>
       \/ /\ Edit(Dev, run[Dev].issue, HandBack)
          /\ Becomes(Goto(Now, Dev, "kick"))
    /\ UNCHANGED <<open, branch, ci>>

\* Mutant: the run starts itself again for its ticket, which skips the picker's cap.
DevKicksItself ==
    /\ At(Dev, "kick")
    /\ Becomes(End(Send(Now, Dev, run[Dev].issue, 0), Dev))
    /\ UNCHANGED <<labels, open, branch, ci, edits>>

DevKicksPicker ==
    /\ At(Dev, "kick")
    /\ Becomes(End(KickPicker(Now), Dev))
    /\ UNCHANGED <<labels, open, branch, ci, edits>>

\* require_dev_completed: the issue is still on this iteration and Dev has a result.
DevCompleted(i, n) == CurrentIteration(i) = n /\ ResultFromLabels(i, "dev") # {}

DevFastPath ==
    LET i == run[Dev].issue IN
    /\ At(Dev, "fast-path")
    /\ DevCompleted(i, run[Dev].iteration)
    /\ Edit(Dev, i, <<[add |-> {Passed(s) : s \in Verifiers},
                        drop |-> {Failed(s) : s \in Verifiers}]>>)
    /\ Becomes(PassedBy(Goto(Now, Dev, "send-finalize"), i, Verifiers))
    /\ UNCHANGED <<open, branch, ci>>

\* Dispatch a verifier, where the harness has it.
Judge(q, s, i, n) == IF s \in Verifiers THEN Send(q, Verify(s, i), i, n) ELSE q

DevDispatches ==
    LET i == run[Dev].issue
        n == run[Dev].iteration
    IN
    /\ \/ /\ At(Dev, "send") /\ DevCompleted(i, n)
          /\ Becomes(End(Judge(Judge(Now, "test", i, n), "review", i, n), Dev))
       \/ /\ At(Dev, "send-finalize")
          /\ Becomes(End(Send(Now, Finalize(i), i, n), Dev))
    /\ UNCHANGED <<labels, open, branch, ci, edits>>

DevEndsFailed ==
    /\ At(Dev, "done")
    /\ Becomes(End(Now, Dev))
    /\ UNCHANGED <<labels, open, branch, ci, edits>>

-----------------------------------------------------------------------------
(* Test and Review: agent-test.yml, agent-review.yml and their agents       *)

VerifierGuard(s, i) ==
    LET j == Verify(s, i) IN
    /\ At(j, "guard")
    /\ Becomes(Goto(Now, j, IF DevCompleted(i, run[j].iteration) THEN "agent" ELSE "ensure"))
    /\ UNCHANGED <<labels, open, branch, ci, edits>>

\* The agent's own verdict, or a crash that leaves none.
VerifierReports(s, i) ==
    LET j == Verify(s, i) IN
    /\ At(j, "agent")
    /\ \/ \E passed \in BOOLEAN :
            /\ Edit(j, i, SetResultLabel(s, passed))
            /\ Becomes(PassedBy(Goto(Now, j, "ensure"), i,
                  IF passed THEN judged[i] \union {s} ELSE judged[i] \ {s}))
       \/ Becomes(Goto(Now, j, "ensure")) /\ UNCHANGED <<labels, edits>>
    /\ UNCHANGED <<open, branch, ci>>

\* Mutant: an agent that died leaves no verdict.
VerifierEnsuresNothing(s, i) ==
    LET j == Verify(s, i) IN
    /\ At(j, "ensure")
    /\ Becomes(Goto(Now, j, "send"))
    /\ UNCHANGED <<labels, open, branch, ci, edits>>

\* Runs always, after a refusal of the guard too.
VerifierEnsuresLabel(s, i) ==
    LET j == Verify(s, i) IN
    /\ At(j, "ensure")
    /\ edits' = IF ResultFromLabels(i, s) = {}
                THEN [edits EXCEPT ![j] = SetResultLabel(s, FALSE)] ELSE edits
    /\ Becomes(Goto(Now, j, "send"))
    /\ UNCHANGED <<labels, open, branch, ci>>

VerifierDispatches(s, i) ==
    LET j == Verify(s, i) IN
    /\ At(j, "send")
    /\ Becomes(End(Send(Now, Finalize(i), i, run[j].iteration), j))
    /\ UNCHANGED <<labels, open, branch, ci, edits>>

-----------------------------------------------------------------------------
(* Finalize: agent-finalize.yml and try_finalize_iteration                  *)

Joined == {"gate"} \union Verifiers
AllGreen(i) == \A s \in Joined : ResultFromLabels(i, s) = {TRUE}

\* Stale, already finalized, or waiting for another result.
NothingToJoin(i, n) ==
    \/ CurrentIteration(i) # n
    \/ {ReadyToMerge, NeedsRework} \intersect labels[i] # {}
    \/ \E s \in Joined : ResultFromLabels(i, s) = {}

FinalizeIteration(green) ==
    LET set == IF green THEN ReadyToMerge ELSE NeedsRework
        unset == IF green THEN NeedsRework ELSE ReadyToMerge
    IN  <<[add |-> {set}, drop |-> {ReadyForDev}], Drop({unset})>>

TryFinalize(i) ==
    LET j == Finalize(i) IN
    /\ At(j, "join")
    /\ IF NothingToJoin(i, run[j].iteration)
       THEN Becomes(End(KickPicker(Now), j)) /\ UNCHANGED edits
       ELSE /\ edits' = [edits EXCEPT ![j] = FinalizeIteration(AllGreen(i))]
            /\ Becomes(Goto(Now, j, IF AllGreen(i) THEN "checks" ELSE "kick-retry"))
    /\ UNCHANGED <<labels, open, branch, ci>>

\* Wait for CI of the pull request, at most twenty minutes.
FinalizeWaitsForChecks(i) ==
    LET j == Finalize(i) IN
    /\ At(j, "checks")
    /\ IF branch[i] # 0 /\ ci[i] # "green"
       THEN Becomes(Goto(Now, j, "kick")) /\ edits' = [edits EXCEPT ![j] = HandBack]
       ELSE Becomes(Goto(Now, j, IF branch[i] = 0 THEN "kick" ELSE "merge")) /\ UNCHANGED edits
    /\ UNCHANGED <<labels, open, branch, ci>>

FinalizeMerges(i) ==
    LET j == Finalize(i) IN
    /\ At(j, "merge") /\ Becomes(Goto(Now, j, "kick"))
    /\ \/ /\ branch[i] # 0
          /\ branch' = [branch EXCEPT ![i] = 0]
          /\ ci' = [ci EXCEPT ![i] = "none"]
          /\ open' = [open EXCEPT ![i] = FALSE]
          /\ UNCHANGED edits
       \/ /\ edits' = [edits EXCEPT ![j] = HandBack]
          /\ UNCHANGED <<open, branch, ci>>
    /\ UNCHANGED labels

FinalizeKicksPicker(i) ==
    LET j == Finalize(i) IN
    /\ \/ At(j, "kick") /\ Becomes(End(KickPicker(Now), j))
       \/ At(j, "kick-retry") /\ Becomes(Goto(KickPicker(Now), j, "retry"))
    /\ UNCHANGED <<labels, open, branch, ci, edits>>

FinalizeRetries(i) ==
    LET j == Finalize(i)
        retry == run[j].iteration < MaxIterations
    IN
    /\ At(j, "retry")
    /\ Becomes(End(IF retry THEN Send(Now, Dev, i, 0) ELSE Now, j))
    /\ UNCHANGED <<labels, open, branch, ci, edits>>

-----------------------------------------------------------------------------
(* CI of a branch and the feedback loop: ci-feedback-loop.yml               *)

\* A red CI flags the issue for rework while its branch is not merged.
CiEnds(i) ==
    /\ ci[i] = "running" /\ edits[Feedback(i)] = <<>>
    /\ \E result \in {"green", "red"} :
         /\ ci' = [ci EXCEPT ![i] = result]
         /\ IF result = "green" THEN UNCHANGED <<labels, edits>>
            ELSE Edit(Feedback(i), i, <<Drop({ReadyToMerge}), Add(NeedsRework)>>)
    /\ UNCHANGED <<open, branch, run, pending, judged, misread>>

-----------------------------------------------------------------------------

Init ==
    /\ labels = [i \in Issues |-> {}]
    /\ open = [i \in Issues |-> TRUE]
    /\ branch = [i \in Issues |-> 0]
    /\ ci = [i \in Issues |-> "none"]
    /\ run = [j \in Jobs |-> Idle]
    /\ pending = [j \in Jobs |-> <<>>]
    /\ edits = [j \in Jobs |-> <<>>]
    /\ judged = [i \in Issues |-> {}]
    /\ misread = [i \in Issues |-> 0]

PickerStep(p) ==
    PickerStarts(p) \/ PickerChecksBusy(p) \/ PickerPicks(p) \/ PickerDispatches(p)

DevStep ==
    \/ DevPrepares \/ DevMeetsConflict \/ DevAgentEnds \/ DevPushes \/ DevPushFails
    \/ DevOpensNoPr \/ DevBuildGate \/ DevKicksPicker
    \/ DevFastPath \/ DevDispatches \/ DevEndsFailed

VerifierStep(s, i) ==
    \/ VerifierGuard(s, i) \/ VerifierReports(s, i)
    \/ VerifierEnsuresLabel(s, i) \/ VerifierDispatches(s, i)

FinalizeStep(i) ==
    \/ TryFinalize(i) \/ FinalizeWaitsForChecks(i) \/ FinalizeMerges(i)
    \/ FinalizeKicksPicker(i) \/ FinalizeRetries(i)

Next ==
    \/ \E j \in Jobs : EditLabel(j)
    \/ \E p \in Pickers : PickerStep(p)
    \/ DevStep
    \/ \E i \in Issues :
         \/ \E s \in Verifiers : VerifierStep(s, i)
         \/ FinalizeStep(i)
         \/ CiEnds(i)

Spec == Init /\ [][Next]_vars

-----------------------------------------------------------------------------
TypeOK ==
    /\ labels \in [Issues -> SUBSET (Stages \X {"pass", "fail"}
                     \union {ReadyForDev, ReadyToMerge, NeedsRework}
                     \union {Iteration(n) : n \in 1..MaxLabel})]
    /\ open \in [Issues -> BOOLEAN]
    /\ branch \in [Issues -> 0..MaxLabel]
    /\ ci \in [Issues -> {"none", "running", "green", "red"}]
    /\ \A i \in Issues : Disturbed(i) \/ judged[i] \subseteq Verifiers
    /\ misread \in [Issues -> Nat]

\* A ticket passes MAX_ITERATIONS only by the requests that were on their way when it
\* got there (each picker's, the running and the waiting Dev's, finalize's retry), and
\* by those of the pickers that looked at it after Dev had taken the old iteration label
\* off and before it had put the new one on, and so believed it fresh.  Nothing else
\* begins an iteration beyond the cap (queue_picker.py eligible, agent-finalize.yml,
\* github_ticket_utils.py start_new_iteration).
CapOvershootIsBounded ==
    /\ TypeOK
    /\ \A i \in Issues :
         CurrentIteration(i) <= MaxIterations + Cardinality(Pickers) + 2 + misread[i]

InHand(i) ==
    \/ \E j \in Jobs : run[j].issue = i \/ (pending[j] # <<>> /\ pending[j][1] = i)
    \/ edits[Feedback(i)] # <<>>

\* A ticket that was begun and is neither done nor marked for rework is in the hands
\* of some run: a dead agent, a missing verdict and a stale one included.  The
\* disturbed ones are those of what the harness does not survive: a Dev
\* request dropped for another ticket's, a job without its pull request, a Dev run
\* under verdicts of the iteration before.
NoTicketIsStranded ==
    \A i \in Issues :
        open[i] /\ ~Untouched(i)
            /\ {NeedsRework, ReadyToMerge} \intersect labels[i] = {}
            => InHand(i) \/ Disturbed(i)

\* What is merged was passed by every verifier since its iteration began, and no
\* later Dev run has pushed to it, unless that run began under the verdicts of the
\* one before (github_ticket_utils.py try_finalize_iteration, start_new_iteration).
MergesTheJudgedIteration ==
    [][\A i \in Issues :
         open[i] /\ ~open'[i] /\ ~Disturbed(i)
            => /\ branch[i] <= run[Finalize(i)].iteration
               /\ judged[i] = Verifiers]_vars
=============================================================================
