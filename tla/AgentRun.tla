------------------------------ MODULE AgentRun ------------------------------
(***************************************************************************)
(* A run of an agent in antosd: the loop of agent/mod.rs between the model *)
(* (an AgentProvider) and the tools, with its budget, its nudge, the free  *)
(* retry and the cut of a loop; snapshot::extend; and the client behind    *)
(* the SocketHandler of ipc/transport.rs, whose answers and stop requests  *)
(* arrive as lines of one stream.                                          *)
(*                                                                         *)
(* What the model answers is nondeterministic: any of Turns, an error, or  *)
(* prose.  A run holds WORKSPACE_MUTATION_LOCK, so one run is modelled.    *)
(* Tokens and seconds are the flag late.  A directory is the set of files  *)
(* below it; a file's content is "old" until the run writes it.            *)
(***************************************************************************)
EXTENDS Naturals, Sequences

CONSTANTS Files,
          Turns,        \* the sequences of calls a model may answer with
          MaxSteps,     \* budget.max_steps
          MaxNudges,    \* MAX_NUDGES
          MaxIdenticalFailures,
          DryRuns,      \* the values of cfg.dry_run
          MaxRepeats,   \* bound: answers the client sends twice
          MaxStops      \* bound: stop requests

\* finish, or why execute_tool rejects the call, or the tier of its gate.
Kinds == {"finish", "foreign", "badargs", "denied", "auto", "confirm"}

\* A call is a record [name, kind, reversible, paths]: its capability, its
\* kind, its policy, and the paths that it writes or deletes, the directories
\* it makes on the way included (each one as the set of files below it).  What
\* an "unnecessary" call writes is its scratch.
Calls == UNION {{turn[i] : i \in DOMAIN turn} : turn \in Turns}

Policies == {"snapshot", "unnecessary", "never"}

\* The files that a call writes, and those that some call writes without a
\* snapshot.
Reach(call) == UNION call.paths
Unkept == UNION {Reach(c) : c \in {d \in Calls : d.reversible # "snapshot"}}

ASSUME AgentAssumption ==
    /\ \A turn \in Turns : \A i \in DOMAIN turn :
         /\ turn[i].kind \in Kinds /\ turn[i].reversible \in Policies
         /\ turn[i].paths \subseteq SUBSET Files
    /\ {MaxSteps, MaxNudges, MaxIdenticalFailures, MaxRepeats, MaxStops} \subseteq Nat
    /\ \A turn \in Turns : turn \in Seq(Calls)
    /\ DryRuns \subseteq BOOLEAN

Reasons == {"none", "Finished", "BudgetExhausted", "Declined", "ModelStopped",
            "Stopped", "Error", "Looping", "aborted"}
Points == {"turn", "prose", "resort", "close", "call", "begin", "confirm", "execute",
           "settle", "looping", "record", "done"}

VARIABLES
    pc, dry,
    calls, at,       \* the turn's calls, and the one at hand
    flags,           \* of finished, declined, stopped, looping, those set this turn
    steps, nudges, retried, fails, outcome, reason,
    late,            \* max_tokens or max_seconds are spent
    ws, snap,        \* the files, and the entries of the run's snapshot
    tried,           \* tools handed to the executor
    ran,             \* executed_steps is not empty
    whole,           \* history: the files written by tools that did not fail
    journalled,      \* the run's record is in the journal
    inbox, present,  \* the client's lines not yet read; whether it is connected
    asked, answered, \* proposals sent, and the last one the client answered
    approval,        \* the proposal that the last yes was an answer to
    heard,           \* should_stop has said so once
    repeats, stops,  \* counters of the client's requests
    crossed          \* history: an answer was repeated where should_stop does not
                     \* take it: behind another line, or after it had looked

loop == <<calls, at, flags, steps, nudges, retried, fails, outcome, reason>>
disk == <<ws, snap, tried, ran, whole, journalled>>
client == <<present, asked, answered, repeats, stops, crossed>>
vars == <<pc, dry, loop, late, disk, inbox, client, approval, heard>>

Init ==
    /\ pc = "turn" /\ dry \in DryRuns
    /\ calls = <<>> /\ at = 1 /\ flags = {}
    /\ steps = 0 /\ nudges = 0 /\ retried = {} /\ fails = [c \in Calls |-> 0]
    /\ outcome = "none" /\ reason = "none" /\ late = FALSE
    /\ ws = [f \in Files |-> "old"] /\ snap = {}
    /\ tried = 0 /\ ran = FALSE /\ whole = {} /\ journalled = FALSE
    /\ inbox = <<>> /\ present = TRUE /\ asked = 0 /\ answered = 0
    /\ approval = 0 /\ heard = FALSE /\ repeats = 0 /\ stops = 0 /\ crossed = FALSE

-----------------------------------------------------------------------------
(* SocketHandler.                                                          *)

\* should_stop reads at most one line, without waiting.  Any line but a stop
\* is dropped; a client that is gone counts as one that stops.
Stops == IF inbox = <<>> THEN ~present ELSE Head(inbox).kind = "stop"

\* Mutant: what is not a stop stays in the stream.
ConsultPeeks ==
    /\ inbox' = inbox
    /\ heard' = (heard \/ Stops)

Consult ==
    /\ inbox' = IF inbox = <<>> THEN inbox ELSE Tail(inbox)
    /\ heard' = (heard \/ Stops)

NoConsult == UNCHANGED <<inbox, heard>>

\* An error leaves the run: no record, no report.
Abort == pc' = "done" /\ reason' = "aborted"

\* send: to a client that is gone it is an error of the run.
Sending(next) == IF present THEN next ELSE Abort

-----------------------------------------------------------------------------
(* The loop: the model's answer.                                           *)

End(why) == pc' = "record" /\ reason' = why

over_budget_late == steps > MaxSteps \/ late

over_budget == steps >= MaxSteps \/ late

ProviderFails ==
    /\ pc = "turn" /\ End("Error")
    /\ UNCHANGED <<dry, calls, at, flags, steps, nudges, retried, fails, outcome, late, disk,
                   client, approval>> /\ NoConsult

\* An answer, with or without a text that is passed on as a note.
Reply(turn, text) ==
    /\ pc = "turn"
    /\ calls' = turn /\ at' = 1 /\ flags' = {}
    /\ IF text /\ ~present THEN Abort
       ELSE pc' = (IF turn = <<>> THEN "prose" ELSE "call") /\ UNCHANGED reason
    /\ UNCHANGED <<dry, steps, nudges, retried, fails, outcome, late, disk, client, approval>>
    /\ NoConsult

CanNudge == nudges < MaxNudges

NotNudged == nudges

Nudged == nudges + 1

\* Prose without a call: a reminder, and only MAX_NUDGES of them.
Nudge ==
    /\ pc = "prose"
    /\ IF CanNudge
       THEN /\ Consult
            /\ pc' = IF Stops THEN "resort" ELSE "turn"
            /\ nudges' = IF Stops THEN nudges ELSE Nudged
       ELSE pc' = "resort" /\ UNCHANGED nudges /\ NoConsult
    /\ UNCHANGED <<dry, calls, at, flags, steps, retried, fails, outcome, reason, late, disk,
                   client, approval>>

\* The last resort is the structured finish; should_stop is asked anew.
Resort(point, why) ==
    /\ pc = point
    /\ Consult
    /\ pc' = (IF Stops THEN "record" ELSE "close") /\ reason' = why
    /\ UNCHANGED <<dry, calls, at, flags, steps, nudges, retried, fails, outcome, late, disk,
                   client, approval>>

\* structured_finish: the model gives the typed end, or it does not.
Close(given) ==
    /\ pc = "close"
    /\ IF given THEN steps' = steps + 1 /\ Sending(End("Finished"))
       ELSE pc' = "record" /\ UNCHANGED <<steps, reason>>
    /\ UNCHANGED <<dry, calls, at, flags, nudges, retried, fails, outcome, late, disk, client,
                   approval>> /\ NoConsult

-----------------------------------------------------------------------------
(* The calls of a turn.                                                    *)

Now == calls[at]
AtCall == pc = "call" /\ at <= Len(calls)

\* Nothing else of this turn is executed.
TurnOver == flags \cap {"finished", "declined", "stopped"} # {}

Skip ==
    /\ AtCall /\ TurnOver
    /\ at' = at + 1
    /\ UNCHANGED <<pc, dry, calls, flags, steps, nudges, retried, fails, outcome, reason, late,
                   disk, client, approval>> /\ NoConsult

\* FINISH_TOOL, which is neither stopped nor budgeted.
Finalizar ==
    /\ AtCall /\ ~TurnOver /\ Now.kind = "finish"
    /\ steps' = steps + 1
    /\ flags' = flags \cup {"finished"} /\ at' = at + 1
    /\ Sending(UNCHANGED <<pc, reason>>)
    /\ UNCHANGED <<dry, calls, nudges, retried, fails, outcome, late, disk, client, approval>>
    /\ NoConsult

CheckStop ==
    /\ AtCall /\ ~TurnOver /\ Now.kind # "finish"
    /\ Consult
    /\ IF Stops THEN flags' = flags \cup {"stopped"} /\ at' = at + 1 /\ UNCHANGED pc
       ELSE pc' = "begin" /\ UNCHANGED <<flags, at>>
    /\ UNCHANGED <<dry, calls, steps, nudges, retried, fails, outcome, reason, late, disk,
                   client, approval>>

OverBudget ==
    /\ pc = "begin" /\ over_budget
    /\ pc' = "call" /\ at' = at + 1
    /\ UNCHANGED <<dry, calls, flags, steps, nudges, retried, fails, outcome, reason, late,
                   disk, client, approval>> /\ NoConsult

\* execute_tool up to its gate: toolset, arguments, blast radius, grant,
\* changes; then the proposal, if the tier asks for one.
Begin ==
    /\ pc = "begin" /\ ~over_budget
    /\ steps' = steps + 1
    /\ CASE Now.kind = "auto" -> pc' = "execute" /\ UNCHANGED <<reason, asked, outcome>>
         [] Now.kind = "confirm" ->
              /\ Sending(pc' = "confirm" /\ UNCHANGED reason)
              /\ asked' = asked + 1 /\ UNCHANGED outcome
         [] OTHER -> pc' = "settle" /\ outcome' = "Rejected" /\ UNCHANGED <<reason, asked>>
    /\ UNCHANGED <<dry, calls, at, flags, nudges, retried, fails, late, disk, present, answered,
                   repeats, stops, crossed, approval>> /\ NoConsult

\* on_confirm waits for one line; all but a yes declines.
Confirmed ==
    /\ pc = "confirm" /\ inbox # <<>> /\ Head(inbox).kind = "yes"
    /\ approval' = Head(inbox).for /\ inbox' = Tail(inbox)
    /\ pc' = "execute"
    /\ UNCHANGED <<dry, loop, late, disk, client, heard>>

Declined ==
    /\ pc = "confirm"
    /\ IF inbox = <<>> THEN ~present ELSE Head(inbox).kind # "yes"
    /\ inbox' = IF inbox = <<>> THEN inbox ELSE Tail(inbox)
    /\ pc' = "settle" /\ outcome' = "Declined" /\ flags' = flags \cup {"declined"}
    /\ UNCHANGED <<dry, calls, at, steps, nudges, retried, fails, reason, late, disk, client,
                   approval, heard>>

Kept == Now.reversible = "snapshot" /\ Now.paths # {}

\* The entry of a path in the snapshot: what was below it before this tool.
Entry(path) == [place |-> path, saved |-> ws, step |-> tried]

ExtendAlways ==
    snap' = IF Kept THEN snap \cup {Entry(p) : p \in Now.paths} ELSE snap

\* snapshot::extend, over all the paths of the tool's blast radius: a path that
\* has an entry is not captured again.
Extend ==
    snap' = IF Kept
            THEN snap \cup {Entry(p) : p \in {q \in Now.paths : \A e \in snap : e.place # q}}
            ELSE snap

\* In a dry run only what is marked unnecessary is executed.
Shown == dry /\ Now.reversible # "unnecessary"

Simulated ==
    /\ pc = "execute" /\ Shown
    /\ pc' = "settle" /\ outcome' = "Executed"
    /\ UNCHANGED <<dry, calls, at, flags, steps, nudges, retried, fails, reason, late, disk,
                   client, approval>> /\ NoConsult

Write(place) == ws' = [f \in Files |-> IF f \in place THEN "new" ELSE ws[f]]

\* The snapshot of what is about to be written, then the enclosure.
Executed ==
    /\ pc = "execute" /\ ~Shown
    /\ Extend /\ Write(Reach(Now)) /\ whole' = whole \cup Reach(Now)
    /\ tried' = tried + 1 /\ ran' = TRUE
    /\ pc' = "settle" /\ outcome' = "Executed"
    /\ UNCHANGED <<dry, calls, at, flags, steps, nudges, retried, fails, reason, late,
                   journalled, client, approval>> /\ NoConsult

\* The tool fails, maybe with a part of its changes applied.
Failed(part) ==
    /\ pc = "execute" /\ ~Shown
    /\ part \subseteq Reach(Now)
    /\ Extend /\ Write(part)
    /\ tried' = tried + 1
    /\ pc' = "settle" /\ outcome' = "Failed"
    /\ UNCHANGED <<dry, calls, at, flags, steps, nudges, retried, fails, reason, late, ran,
                   whole, journalled, client, approval>> /\ NoConsult

\* A path that cannot be captured is an error of the run.
SnapshotFails ==
    /\ pc = "execute" /\ ~Shown /\ Kept
    /\ Abort
    /\ UNCHANGED <<dry, calls, at, flags, steps, nudges, retried, fails, outcome, late, disk,
                   client, approval>> /\ NoConsult

\* Malformed arguments: the first time for a tool the step is given back.
FreeRetry == outcome = "Rejected" /\ Now.kind = "badargs" /\ Now.name \notin retried

Failing == outcome \in {"Failed", "Rejected"}

Repeated == fails[Now] + 1 >= MaxIdenticalFailures

\* Failures of the same call are counted; then the step is reported.
Settle ==
    /\ pc = "settle"
    /\ fails' = IF Failing THEN [fails EXCEPT ![Now] = @ + 1] ELSE fails
    /\ flags' = IF Failing /\ Repeated
                THEN flags \cup {"looping"} ELSE flags
    /\ IF FreeRetry THEN steps' = steps - 1 /\ retried' = retried \cup {Now.name}
       ELSE UNCHANGED <<steps, retried>>
    /\ at' = at + 1
    /\ Sending(pc' = "call" /\ UNCHANGED reason)
    /\ UNCHANGED <<dry, calls, nudges, outcome, late, disk, client, approval>> /\ NoConsult

EndOfTurn ==
    /\ pc = "call" /\ at > Len(calls)
    /\ \/ /\ "finished" \in flags
          /\ End("Finished") /\ NoConsult
       \/ /\ "declined" \in flags
          /\ End("Declined") /\ NoConsult
       \/ /\ "stopped" \in flags
          /\ End("Stopped") /\ NoConsult
       \/ /\ ~TurnOver
          /\ Consult
          /\ IF Stops THEN End("Stopped")
             ELSE IF "looping" \in flags THEN pc' = "looping" /\ UNCHANGED reason
             ELSE IF over_budget THEN End("BudgetExhausted")
             ELSE pc' = "turn" /\ UNCHANGED reason
    /\ UNCHANGED <<dry, calls, at, flags, steps, nudges, retried, fails, outcome, late, disk,
                   client, approval>>

RecordFinished ==
    /\ pc = "record"
    /\ journalled' = (ran /\ ~dry /\ reason = "Finished") /\ pc' = "done"
    /\ UNCHANGED <<dry, loop, late, ws, snap, tried, ran, whole, client, approval>> /\ NoConsult

\* One record for the run, if it executed anything; then the report.
RecordRun ==
    /\ pc = "record"
    /\ journalled' = (ran /\ ~dry) /\ pc' = "done"
    /\ UNCHANGED <<dry, loop, late, ws, snap, tried, ran, whole, client, approval>> /\ NoConsult

\* The record cannot be appended: an error of the run, with all it wrote.
RecordFails ==
    /\ pc = "record" /\ ran /\ ~dry
    /\ Abort
    /\ UNCHANGED <<dry, calls, at, flags, steps, nudges, retried, fails, outcome, late, disk,
                   client, approval>> /\ NoConsult

-----------------------------------------------------------------------------
(* The client, and time.                                                   *)

Says(kind, for) == inbox' = Append(inbox, [kind |-> kind, for |-> for])
Elsewhere == UNCHANGED <<pc, dry, loop, disk, approval, heard>>

\* The client answers the proposal it is shown.
Answer(kind) ==
    /\ present /\ pc = "confirm" /\ answered < asked
    /\ Says(kind, asked) /\ answered' = asked
    /\ Elsewhere /\ UNCHANGED <<late, present, asked, repeats, stops, crossed>>

\* A second yes to a proposal already answered.
Repeat ==
    /\ present /\ answered > 0 /\ repeats < MaxRepeats /\ pc # "done"
    /\ Says("yes", answered) /\ repeats' = repeats + 1
    /\ crossed' = \/ crossed \/ pc = "begin" \/ (pc = "confirm" /\ answered < asked)
                  \/ Len(inbox) > (IF pc = "confirm" THEN 1 ELSE 0)
    /\ Elsewhere /\ UNCHANGED <<late, present, asked, answered, stops>>

AgentStop ==
    /\ present /\ stops < MaxStops /\ pc # "done"
    /\ Says("stop", 0) /\ stops' = stops + 1
    /\ Elsewhere /\ UNCHANGED <<late, present, asked, answered, repeats, crossed>>

Leave ==
    /\ present /\ pc # "done"
    /\ present' = FALSE
    /\ Elsewhere /\ UNCHANGED <<late, inbox, asked, answered, repeats, stops, crossed>>

TimePasses ==
    /\ ~late /\ pc # "done"
    /\ late' = TRUE
    /\ Elsewhere /\ UNCHANGED <<inbox, client>>

RunStep ==
    \/ ProviderFails \/ (\E turn \in Turns, text \in BOOLEAN : Reply(turn, text))
    \/ Nudge \/ Resort("resort", "ModelStopped") \/ Resort("looping", "Looping")
    \/ (\E given \in BOOLEAN : Close(given))
    \/ Skip \/ Finalizar \/ CheckStop \/ OverBudget \/ Begin
    \/ Confirmed \/ Declined
    \/ Simulated \/ Executed \/ (\E part \in SUBSET Files : Failed(part)) \/ SnapshotFails
    \/ Settle \/ EndOfTurn \/ RecordRun \/ RecordFails

Next ==
    \/ RunStep
    \/ (\E kind \in {"yes", "no"} : Answer(kind)) \/ Repeat \/ AgentStop \/ Leave
    \/ TimePasses

Spec == Init /\ [][Next]_vars

\* The daemon's thread runs, a provider's call returns (its HTTP client has a
\* timeout), and a client that is shown a proposal answers it or leaves.
FairSpec == Spec /\ WF_vars(RunStep) /\ WF_vars(Answer("yes") \/ Answer("no"))

-----------------------------------------------------------------------------
(* Properties.                                                             *)

\* The types of the state of run, of its snapshot and of the client's stream.
TypeOK ==
    /\ pc \in Points /\ dry \in BOOLEAN /\ late \in BOOLEAN
    /\ calls \in Turns \cup {<<>>} /\ at \in 1..(Len(calls) + 1)
    /\ pc \in {"begin", "confirm", "execute", "settle"} => at <= Len(calls)
    /\ flags \subseteq {"finished", "declined", "stopped", "looping"}
    /\ steps \in Nat /\ nudges \in 0..MaxNudges /\ tried \in Nat
    /\ fails \in [Calls -> Nat]
    /\ reason \in Reasons
    /\ ws \in [Files -> {"old", "new"}]
    /\ snap \subseteq [place : SUBSET Files, saved : [Files -> {"old", "new"}], step : Nat]
    /\ whole \subseteq Files
    /\ answered \in 0..asked /\ approval \in 0..asked
    /\ {ran, journalled, present, heard} \subseteq BOOLEAN

\* The budget is never overspent, whatever is given back for malformed
\* arguments: no more tools than max_steps reach the enclosure, and only the
\* finish of the model is a step beyond them.
BudgetIsKept ==
    /\ tried <= MaxSteps
    /\ steps <= MaxSteps + 1
    /\ steps > MaxSteps => "finished" \in flags \/ reason \in {"Finished", "aborted"}

\* Restoring the run's snapshot, entry by entry: the entry of the latest step
\* that holds a file decides about it.
Undone(f) ==
    LET holding == {e \in snap : f \in e.place}
        last    == CHOOSE e \in holding : \A d \in holding : d.step <= e.step
    IN  IF holding = {} THEN ws[f] ELSE last.saved[f]

\* No step captures a directory around, or a path below, what an earlier step
\* captured: extend compares whole paths and gives it an entry of its own, with
\* what is there in the middle of the run.
Flat == \A e, d \in snap :
    e.step = d.step \/ e.place = d.place \/ e.place \cap d.place = {}

\* At every moment, whatever tools ran and failed, restoring the snapshot of
\* the run takes the workspace back to what it was before the run, but for the
\* scratch of the tools that keep no snapshot, as long as the snapshot is flat.
UndoTakesAllBack == Flat => \A f \in Files \ Unkept : Undone(f) = "old"

\* A run that is over, that was no rehearsal and that an error did not leave
\* (the client was gone when a step was reported, a snapshot failed, the journal
\* could not be written) has its record in the journal as soon as one of its
\* tools wrote to the end, whatever else failed midway; and the snapshot of that
\* record holds all that the run has changed, the parts of failed tools
\* included, so that `antos undo` finds it.
WrittenIsRecorded ==
    pc = "done" /\ reason # "aborted" /\ ~dry /\ whole # {}
        => /\ journalled
           /\ \A f \in Files \ Unkept : ws[f] # "old" => \E e \in snap : f \in e.place

\* A dry run leaves every file as it was: "each tool that writes is shown but
\* not executed" (RunConfig::dry_run).  The gate of execute_tool lets through
\* the tools marked unnecessary, which write their scratch.
DryRunIsDry == dry => \A f \in Files : ws[f] = "old"

\* Once the model has finished, a step is declined or should_stop has said
\* that the user stops, no tool changes the workspace and none is proposed.
NothingAfterTheEnd ==
    [][flags \cap {"finished", "declined", "stopped"} # {} \/ heard
         => ws' = ws /\ asked' = asked]_vars

\* A tool that needs a confirmation runs on the answer to its own proposal,
\* although the client may answer twice: should_stop drops what it finds in the
\* stream.  It takes one line and only when it looks, so a repeated answer that
\* comes behind another line, or between its look and the proposal's answer, is
\* beyond it.
ApprovedWasShown ==
    ~crossed /\ pc = "execute" /\ Now.kind = "confirm" => approval = asked

\* Every run ends, whatever the model answers: budget, nudges and free retries
\* run out.
RunEnds == <>(pc = "done")
=============================================================================
