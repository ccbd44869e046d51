----------------------------- MODULE FlowEngine -----------------------------
(***************************************************************************)
(* antFlow, the orchestrator of agent roles in antosd: flow/mod.rs (the    *)
(* state machine of a ticket's task), flow/pipeline.rs (the agents'        *)
(* pipeline) and the requests of ipc/mod.rs that drive it.                 *)
(*                                                                         *)
(* One ticket and one process, the daemon or a command (a command has a    *)
(* map of its own and shares the files only).  Every StartFlow with a      *)
(* model provider holds WORKSPACE_MUTATION_LOCK for the whole pipeline, so *)
(* at most one pipeline runs ("run"); ApproveFlow, the notification tray   *)
(* and a StartFlow without provider do not take it and fall between any    *)
(* two of the pipeline's critical sections.  A step of the pipeline below  *)
(* is one critical section of FlowEngine.state together with the agent run *)
(* or test run before it: those touch the worktree.  The other users of    *)
(* the worktree are the commands that remove it.  The agents (models) are  *)
(* nondeterministic.                                                       *)
(***************************************************************************)
EXTENDS Naturals, FiniteSets

CONSTANTS RepoFiles,        \* the files of the ticket's repository
          MaxQaRetries,     \* FlowTask::max_qa_retries (3 in the code)
          GitWorkspace,     \* whether the workspace has a .git
          MaxStarts,        \* bound: requests that start a task
          MaxDecisions,     \* bound: developers' answers
          MaxRemovals,      \* bound: commands that remove the worktree
          MaxRestarts       \* bound: restarts of the daemon

ASSUME FlowAssumption ==
    /\ RepoFiles # {}
    /\ {MaxQaRetries, MaxStarts, MaxDecisions, MaxRemovals, MaxRestarts} \subseteq Nat
    /\ GitWorkspace \in BOOLEAN

VARIABLES
    task,       \* FlowEngine.state's entry for the ticket, or NoTask
    stored,     \* flows/<ticket>.json
    tree,       \* the worktree of the ticket
    run,        \* the pipeline: its program counter and its locals
    met,        \* history: the requests that came since a pipeline started
    starts, decisions, removals, restarts  \* counters of the environment's requests

flowVars == <<task, stored, tree, run, met, starts, decisions, removals, restarts>>
flowEnv == <<met, starts, decisions, removals, restarts>>

FlowState == {"Pending", "Planning", "Implementing", "Testing", "Reviewing",
              "ReadyForApproval", "Merged", "Failed"}

\* A FlowTransition keeps who produced it and its "simulated" label.
Transition == [by : {"agent", "script", "developer"}, simulated : BOOLEAN]

\* history: the last transition and the set of those before it.
\* diff: diff_preview, {} for None and {F} for a diff that names the files F.
FlowTask == [state : FlowState, qa_retries : Nat, backend : {"Simulated", "Agent"},
             diff : {{}} \cup {{F} : F \in SUBSET RepoFiles},
             last : Transition, past : SUBSET Transition]
NoTask == [state |-> "absent"]

FileStatus == {"clean", "modified", "new", "deleted"}

\* there: the directory.  git: whether git has it registered, and then whether
\* its .git is still in the directory ("linked") or not ("stale").
\* tested: the suite was green for the files as they are now.
Worktree == [there : BOOLEAN, git : {"none", "linked", "stale"},
             files : [RepoFiles -> FileStatus], tested : BOOLEAN]

\* Program points of run_agent_pipeline_with ("a." ...) and run_worktree_pipeline ("s." ...).
ProgramPoint == {"idle", "a.backend", "a.worktree", "a.architect", "a.planned", "a.coder",
                 "a.coded", "a.qa", "a.tested", "a.auditor", "a.audited", "a.attach",
                 "a.giveUp", "a.rewind",
                 "s.architect", "s.coder", "s.qa", "s.auditor", "s.attach", "s.save"}

\* plan: files_to_touch.  ok, seen: the suite's answer and the state that
\* advance_phase_with_model returned.  copy: the task the script will save.
Pipeline == [pc : ProgramPoint, plan : SUBSET RepoFiles, ok : BOOLEAN,
             seen : FlowState, copy : FlowTask \cup {NoTask}]

Push(t, by, simulated) ==
    [t EXCEPT !.past = @ \cup {t.last}, !.last = [by |-> by, simulated |-> simulated]]

-----------------------------------------------------------------------------
(* The critical sections of flow/mod.rs and flow/pipeline.rs.              *)

\* start_task: whatever the ticket's task was, it is replaced.
FreshTask(by) ==
    [state |-> "Planning", qa_retries |-> 0, backend |-> "Simulated", diff |-> {},
     last |-> [by |-> by, simulated |-> TRUE], past |-> {}]

\* advance_phase_with_model returns an error in these states.
Bails(t) == t.state \in {"ReadyForApproval", "Merged", "Failed"}

QaFailedUncounted(t) == [t EXCEPT !.state = "Implementing"]

\* Testing with a red suite: back to the Coder while there are retries left.
QaFailed(t) ==
    IF t.qa_retries < MaxQaRetries
    THEN [t EXCEPT !.qa_retries = @ + 1, !.state = "Implementing"]
    ELSE [t EXCEPT !.state = "Failed"]

\* Mutant: the suite's answer is not looked at.
NextPhaseBlind(t, ok) ==
    CASE t.state = "Pending"      -> [t EXCEPT !.state = "Planning"]
      [] t.state = "Planning"     -> [t EXCEPT !.state = "Implementing"]
      [] t.state = "Implementing" -> [t EXCEPT !.state = "Testing"]
      [] t.state = "Testing"      -> [t EXCEPT !.state = "Reviewing"]
      [] t.state = "Reviewing"    -> [t EXCEPT !.state = "ReadyForApproval"]

\* The match of advance_phase_with_model, for the states where it succeeds.
NextPhase(t, ok) ==
    CASE t.state = "Pending"      -> [t EXCEPT !.state = "Planning"]
      [] t.state = "Planning"     -> [t EXCEPT !.state = "Implementing"]
      [] t.state = "Implementing" -> [t EXCEPT !.state = "Testing"]
      [] t.state = "Testing"      -> IF ok THEN [t EXCEPT !.state = "Reviewing"]
                                     ELSE QaFailed(t)
      [] t.state = "Reviewing"    -> [t EXCEPT !.state = "ReadyForApproval"]

Advanced(t, ok, by) ==
    IF t.state = "Pending" THEN NextPhase(t, ok) ELSE Push(NextPhase(t, ok), by, TRUE)

LabelledForgets(t) == t

\* mark_last_real, and the second critical section of advance_phase_with_report.
Labelled(t) == [t EXCEPT !.last.simulated = FALSE]

\* fail_task: from whatever state the task is in.
Failed(t) == Push([t EXCEPT !.state = "Failed"], "agent", FALSE)

\* rewind_to_coder: from whatever state the task is in.
Rewound(t) ==
    Push([t EXCEPT !.state = "Implementing", !.qa_retries = @ + 1], "agent", FALSE)

\* git diff HEAD names the files that git tracks and that still exist:
\* files_in_diff keeps the lines "+++ b/..." only.  In a directory that is no
\* worktree of git there is no such line.
FilesInDiff ==
    IF tree.git = "linked" THEN {f \in RepoFiles : tree.files[f] = "modified"} ELSE {}

-----------------------------------------------------------------------------
Untouched == [f \in RepoFiles |-> "clean"]

Idle == [pc |-> "idle", plan |-> {}, ok |-> FALSE, seen |-> "Pending", copy |-> NoTask]

FlowInit ==
    /\ task = NoTask /\ stored = NoTask
    /\ tree = [there |-> FALSE, git |-> "none", files |-> Untouched, tested |-> FALSE]
    /\ run = Idle /\ met = {}
    /\ starts = 0 /\ decisions = 0 /\ removals = 0 /\ restarts = 0

Running == run.pc # "idle"
RunAt(pc) == run.pc = pc
RunGoTo(pc) == run' = [run EXCEPT !.pc = pc]

\* The pipeline returns, releasing WORKSPACE_MUTATION_LOCK.
Return == run' = Idle

\* It returns with a task that waits for approval: its plan is kept for the
\* properties, and the next pipeline sets its own.
ReturnReady == run' = [Idle EXCEPT !.plan = run.plan]

\* A step that advances the task, going on at pc, or returns advance's error.
AdvanceTo(pc, ok, by) ==
    IF Bails(task)
    THEN Return /\ UNCHANGED task
    ELSE task' = Advanced(task, ok, by) /\ RunGoTo(pc)

\* fail_task, whose result is the pipeline's.
FailTask == task' = Failed(task) /\ Return /\ UNCHANGED <<stored, tree, flowEnv>>

-----------------------------------------------------------------------------
(* Requests.                                                               *)

Meets(request) == met' = IF Running THEN met \cup {request} ELSE met

StartTask(by) ==
    /\ starts < MaxStarts
    /\ task' = FreshTask(by) /\ stored' = FreshTask(by)
    /\ starts' = starts + 1
    /\ UNCHANGED <<tree, decisions, removals, restarts>>

StartPipeline(by, pc) ==
    /\ ~Running /\ StartTask(by)
    /\ run' = [Idle EXCEPT !.pc = pc] /\ met' = {}

\* StartFlow with a provider: run_agent_pipeline_with up to start_task.
StartAgentPipeline == StartPipeline("agent", "a.backend")

\* StartFlow without one (it may have been unset while a pipeline runs):
\* start_task and nothing more, and no lock.
StartAlone == StartTask("script") /\ Meets("start") /\ UNCHANGED run

\* agent run --simulated: run_worktree_pipeline up to start_task.
StartScript == StartPipeline("script", "s.architect")

\* approve_task, from ApproveFlow or from the notification tray.
ApproveTask(decision) ==
    /\ task # NoTask /\ decisions < MaxDecisions
    /\ task' = Push([task EXCEPT !.state = IF decision THEN "Merged" ELSE "Failed"],
                    "developer", TRUE)
    /\ decisions' = decisions + 1
    /\ Meets("answer")
    /\ UNCHANGED <<stored, tree, run, starts, removals, restarts>>

\* antos undo --ticket deletes the directory and leaves git's registration;
\* git.worktree_cleanup prunes that too.  Both may come from another process,
\* while the pipeline works in it or after.
RemoveWorktree(prunes) ==
    /\ removals < MaxRemovals
    /\ tree.there \/ (prunes /\ tree.git # "none")
    /\ tree' = [there |-> FALSE, files |-> Untouched, tested |-> FALSE,
                git |-> IF prunes \/ tree.git = "none" THEN "none" ELSE "stale"]
    /\ removals' = removals + 1
    /\ met' = met \cup {"removal"}
    /\ UNCHANGED <<task, stored, run, starts, decisions, restarts>>

\* The daemon stops and starts again: the engine's map and the pipeline are gone.
Restart ==
    /\ restarts < MaxRestarts
    /\ task' = NoTask /\ Return
    /\ restarts' = restarts + 1
    /\ UNCHANGED <<stored, tree, met, starts, decisions, removals>>

-----------------------------------------------------------------------------
(* run_agent_pipeline_with.                                                *)

\* set_backend relabels every transition there is.
SetBackend ==
    /\ RunAt("a.backend") /\ RunGoTo("a.worktree")
    /\ task' = [task EXCEPT !.backend = "Agent", !.last.simulated = FALSE,
                            !.past = {[h EXCEPT !.simulated = FALSE] : h \in task.past}]
    /\ UNCHANGED <<stored, tree, flowEnv>>

\* git worktree add refuses a worktree that it still has registered and a
\* directory that is already there; without git the directory is used as it is.
CanCreate == GitWorkspace => ~tree.there /\ tree.git = "none"

NewTree ==
    IF GitWorkspace
    THEN [there |-> TRUE, git |-> "linked", files |-> Untouched, tested |-> FALSE]
    ELSE [tree EXCEPT !.there = TRUE, !.tested = FALSE]

CreateWorktree ==
    /\ RunAt("a.worktree") /\ RunGoTo("a.architect")
    /\ CanCreate /\ tree' = NewTree
    /\ UNCHANGED <<task, stored, flowEnv>>

\* The worktree as a Coder leaves it who edited, created or deleted files, in
\* the plan or not.  What is written makes a directory that is gone again.
Edited(files) ==
    [tree EXCEPT !.files = files, !.tested = FALSE,
                 !.there = @ \/ \E f \in RepoFiles : files[f] # "clean"]

\* What a run of the Coder that broke off has done stays in the worktree.
CoderLeaves == UNCHANGED tree \/ \E files \in [RepoFiles -> FileStatus] : tree' = Edited(files)

\* The worktree cannot be made, or agent::run returns an error: the pipeline
\* returns and the task stays as it is.
PipelineError ==
    /\ run.pc \in {"a.worktree", "a.architect", "a.coder", "a.auditor"}
    /\ IF RunAt("a.coder") THEN CoderLeaves ELSE UNCHANGED tree
    /\ Return
    /\ UNCHANGED <<task, stored, flowEnv>>

\* No provider, no valid plan, or a plan without files.
ArchitectFails == RunAt("a.architect") /\ FailTask

ArchitectPlans(plan) ==
    /\ RunAt("a.architect")
    /\ IF Bails(task)
       THEN Return /\ UNCHANGED task
       ELSE /\ task' = Advanced(task, TRUE, "agent")
            /\ run' = [run EXCEPT !.pc = "a.planned", !.plan = plan]
    /\ UNCHANGED <<stored, tree, flowEnv>>

LabelTo(from, to) ==
    /\ RunAt(from) /\ RunGoTo(to)
    /\ task' = Labelled(task)
    /\ UNCHANGED <<stored, tree, flowEnv>>

LabelPlan == LabelTo("a.planned", "a.coder")

\* No provider, or the Coder's run ends Declined or Error.
CoderFails ==
    /\ RunAt("a.coder") /\ CoderLeaves
    /\ task' = Failed(task) /\ Return
    /\ UNCHANGED <<stored, flowEnv>>

CoderWrites(files) ==
    /\ RunAt("a.coder")
    /\ tree' = Edited(files)
    /\ AdvanceTo("a.coded", TRUE, "agent")
    /\ UNCHANGED <<stored, flowEnv>>

LabelCode == LabelTo("a.coded", "a.qa")

QaRuns(ok) ==
    /\ RunAt("a.qa")
    /\ tree' = [tree EXCEPT !.tested = ok]
    /\ IF Bails(task)
       THEN Return /\ UNCHANGED task
       ELSE /\ task' = Advanced(task, ok, "agent")
            /\ run' = [run EXCEPT !.pc = "a.tested", !.ok = ok,
                                  !.seen = Advanced(task, ok, "agent").state]
    /\ UNCHANGED <<stored, flowEnv>>

\* mark_last_real; then red and Failed returns, red goes round, green goes on.
LabelQa ==
    /\ RunAt("a.tested")
    /\ task' = Labelled(task)
    /\ \/ run.ok /\ RunGoTo("a.auditor")
       \/ ~run.ok /\ run.seen = "Failed" /\ Return
       \/ ~run.ok /\ run.seen # "Failed" /\ RunGoTo("a.coder")
    /\ UNCHANGED <<stored, tree, flowEnv>>

\* No provider, or no verdict.
AuditorFails == RunAt("a.auditor") /\ FailTask

\* The rule of the plan, on top of the model's verdict.
OutsideThePlan(plan) == ~(FilesInDiff \subseteq plan)

\* The Auditor's model approves and no file of the diff is outside the plan.
AuditorApproves ==
    /\ RunAt("a.auditor") /\ ~OutsideThePlan(run.plan)
    /\ AdvanceTo("a.audited", TRUE, "agent")
    /\ UNCHANGED <<stored, tree, flowEnv>>

LabelAudit == LabelTo("a.audited", "a.attach")

\* diff_preview and audit_summary, saved under the lock.
Attach ==
    /\ RunAt("a.attach") /\ ReturnReady
    /\ LET t == [task EXCEPT !.diff = {FilesInDiff}]
       IN  task' = t /\ stored' = t
    /\ UNCHANGED <<tree, flowEnv>>

\* Rejected by the model, with findings or not, or by the rule of the plan,
\* which adds one; get_task then decides between giving up and a retry.
AuditorRejects(findings) ==
    /\ RunAt("a.auditor")
    /\ LET f == findings \/ OutsideThePlan(run.plan)
       IN  IF ~f \/ task.qa_retries >= MaxQaRetries
           THEN RunGoTo("a.giveUp") ELSE RunGoTo("a.rewind")
    /\ UNCHANGED <<task, stored, tree, flowEnv>>

GiveUp == RunAt("a.giveUp") /\ FailTask

RewindToCoder ==
    /\ RunAt("a.rewind") /\ RunGoTo("a.coder")
    /\ task' = Rewound(task)
    /\ UNCHANGED <<stored, tree, flowEnv>>

-----------------------------------------------------------------------------
(* run_worktree_pipeline, the simulated one.                               *)

\* An error of git worktree add is ignored here, and the script goes on with
\* what is there, or nothing.
ScriptPlans ==
    /\ RunAt("s.architect") /\ AdvanceTo("s.coder", TRUE, "script")
    /\ \/ CanCreate /\ tree' = NewTree
       \/ GitWorkspace /\ UNCHANGED tree
    /\ UNCHANGED <<stored, flowEnv>>

\* The scaffold is one new file; the directories above it are made.
ScriptWrites(f) ==
    /\ RunAt("s.coder") /\ AdvanceTo("s.qa", TRUE, "script")
    /\ tree' = [tree EXCEPT !.files[f] = IF @ = "clean" THEN "new" ELSE @,
                            !.there = TRUE, !.tested = FALSE]
    /\ UNCHANGED <<stored, flowEnv>>

\* A red suite gives one advance and the pipeline returns.
ScriptTests(ok) ==
    /\ RunAt("s.qa")
    /\ tree' = [tree EXCEPT !.tested = ok]
    /\ IF Bails(task) THEN Return /\ UNCHANGED task
       ELSE /\ task' = Advanced(task, ok, "script")
            /\ IF ok THEN RunGoTo("s.auditor") ELSE Return
    /\ UNCHANGED <<stored, flowEnv>>

ScriptAudits ==
    /\ RunAt("s.auditor") /\ AdvanceTo("s.attach", TRUE, "script")
    /\ UNCHANGED <<stored, tree, flowEnv>>

ScriptAttaches ==
    /\ RunAt("s.attach")
    /\ LET t == [task EXCEPT !.diff = {FilesInDiff}]
       IN  task' = t /\ run' = [run EXCEPT !.pc = "s.save", !.copy = t]
    /\ UNCHANGED <<stored, tree, flowEnv>>

\* save_task_to_disk, after the lock: the copy that was cloned under it.
ScriptSaves ==
    /\ RunAt("s.save") /\ stored' = run.copy /\ Return
    /\ UNCHANGED <<task, tree, flowEnv>>

-----------------------------------------------------------------------------
PipelineStep ==
    \/ SetBackend \/ CreateWorktree \/ PipelineError
    \/ ArchitectFails \/ (\E plan \in (SUBSET RepoFiles) \ {{}} : ArchitectPlans(plan))
    \/ LabelPlan \/ CoderFails \/ (\E files \in [RepoFiles -> FileStatus] : CoderWrites(files))
    \/ LabelCode \/ (\E ok \in BOOLEAN : QaRuns(ok)) \/ LabelQa
    \/ AuditorFails \/ AuditorApproves \/ LabelAudit \/ Attach
    \/ (\E findings \in BOOLEAN : AuditorRejects(findings)) \/ GiveUp \/ RewindToCoder
    \/ ScriptPlans \/ (\E f \in RepoFiles : ScriptWrites(f)) \/ (\E ok \in BOOLEAN : ScriptTests(ok))
    \/ ScriptAudits \/ ScriptAttaches \/ ScriptSaves

Request ==
    \/ StartAgentPipeline \/ StartAlone \/ StartScript
    \/ (\E decision \in BOOLEAN : ApproveTask(decision))
    \/ (\E prunes \in BOOLEAN : RemoveWorktree(prunes))
    \/ Restart

FlowNext == PipelineStep \/ Request

FlowSpec == FlowInit /\ [][FlowNext]_flowVars

\* The pipeline's thread runs, agent runs have a budget and suites end.
FlowFairSpec == FlowSpec /\ WF_flowVars(PipelineStep)

-----------------------------------------------------------------------------
(* Properties.                                                             *)

\* Every variable has its type; QA's and the Auditor's retries together stay
\* within max_qa_retries (rewind_to_coder adds one without looking).
FlowTypeOK ==
    /\ task \in FlowTask \cup {NoTask} /\ stored \in FlowTask \cup {NoTask}
    /\ task # NoTask => task.qa_retries <= MaxQaRetries
    /\ tree \in Worktree /\ run \in Pipeline
    /\ met \subseteq {"start", "answer", "removal"}
    /\ starts \in 0..MaxStarts /\ decisions \in 0..MaxDecisions
    /\ removals \in 0..MaxRemovals /\ restarts \in 0..MaxRestarts
    /\ Running => task # NoTask

\* A task that waits for the developer's approval, in memory or as a restart
\* finds it on disk, was green in QA for exactly the worktree that is there and
\* carries that worktree's diff once its pipeline is over.  All this as long as,
\* since its pipeline started, no start without a provider reset the task under
\* it (start_task takes no WORKSPACE_MUTATION_LOCK there, and a red suite then
\* advances a later phase) and no command removed the worktree.
ReadyIsAudited ==
    met \subseteq {"answer"} => \A t \in {task, stored} :
        t # NoTask /\ ~Running /\ t.state = "ReadyForApproval" =>
            tree.there /\ tree.tested /\ t.diff = {FilesInDiff}

\* "Un diff que toque ficheros fuera de files_to_touch se rechaza aunque el
\* modelo apruebe": what agents made ready for approval touches only files that
\* the Architect planned.  The code does not keep it: the rule looks at the
\* "+++ b/" lines of git diff HEAD, which name neither a new file, which git does
\* not track, nor a deleted one.
PlanIsKept ==
    met = {} /\ task # NoTask /\ ~Running
      /\ task.state = "ReadyForApproval" /\ task.backend = "Agent" =>
        {f \in RepoFiles : tree.files[f] # "clean"} \subseteq run.plan

\* A pipeline ends: the retries that QA and the Auditor share bound its loop,
\* whatever the developer answers meanwhile.
PipelineEnds == [](Running => <>~Running)

\* The labels of the history are honest once the pipeline is over: a transition
\* is "simulated = false" exactly when an agent's pipeline produced it.  A start
\* or an answer that falls between an advance and mark_last_real may get the
\* label of the transition before it, and is left out.
LabelsAreHonest ==
    met \subseteq {"removal"} /\ task # NoTask /\ ~Running =>
        \A h \in task.past \cup {task.last} : h.simulated <=> h.by # "agent"
=============================================================================
