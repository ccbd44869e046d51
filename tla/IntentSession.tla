--------------------------- MODULE IntentSession ---------------------------
(***************************************************************************)
(* The lifecycle of an intent in antosd: session.rs (plan, policy, gate,   *)
(* snapshot, execution), journal.rs, snapshot.rs, grants.rs, blast.rs's    *)
(* derivation of the tier, and the commands that undo (cli undo.rs).       *)
(*                                                                         *)
(* Sessions of the daemon run one at a time, under WORKSPACE_MUTATION_LOCK *)
(* (ipc/mod.rs).  A session of a command (antos without a daemon), and     *)
(* undo, are other processes, which share the files and no lock.  What a   *)
(* planner proposes and what a client answers is nondeterministic.  The    *)
(* content of a path is the session that wrote it, or "old": what was      *)
(* there before, which may be that the path does not exist.                *)
(***************************************************************************)
EXTENDS Naturals, Sequences, FiniteSets, SequencesExt

CONSTANTS Sessions,
          Homes,        \* the sets of sessions that may be the daemon's
          Paths,
          Plans,        \* the plans that planners propose
          MaxUndos,     \* bound: calls of undo
          MaxCrashes,   \* bound: deaths of the daemon or of undo, and errors
          MaxGrants     \* bound: changes of the grant

Tiers == {"auto", "confirm", "grant"}

\* A plan: the paths it writes or deletes, the highest tier its capabilities
\* declare, whether it reaches the network, whether it deletes or is
\* irreversible, whether it changes the system, whether it leaves the
\* workspace, whether its intent names the ticket, whether it is a dry run.
Plan == [writes : SUBSET Paths, declared : Tiers, network : BOOLEAN, deletes : BOOLEAN,
         system : BOOLEAN, escapes : BOOLEAN, ticket : BOOLEAN, dry : BOOLEAN]

None == "none"

ASSUME SessionAssumption ==
    /\ Homes \subseteq SUBSET Sessions
    /\ "old" \notin Sessions /\ None \notin Sessions
    /\ Plans \subseteq Plan
    /\ {MaxUndos, MaxCrashes, MaxGrants} \subseteq Nat

VARIABLES
    daemon,   \* the sessions of the daemon; the others are processes of their own
    ws,       \* the content of every path
    journal,  \* journal.jsonl
    snaps,    \* snapshots/<id>/: the content of the paths captured
    granted,  \* whether the capability of tier grant is granted now
    lock,     \* WORKSPACE_MUTATION_LOCK: its holder, or None
    ses,      \* the sessions: program counter and locals
    undo,     \* the undo command: program counter and locals
    events,   \* history: the disturbances there have been so far
    undos, crashes, grantings   \* counters of the environment's requests

sessionVars == <<daemon, ws, journal, snaps, granted, lock, ses, undo, events, undos, crashes,
          grantings>>
env == <<daemon, events, undos, crashes, grantings>>

Content == Sessions \cup {"old"}
Nothing == [writes |-> {}, declared |-> "auto", network |-> FALSE, deletes |-> FALSE,
            system |-> FALSE, escapes |-> FALSE, ticket |-> FALSE, dry |-> FALSE]

Outcome == {"Executed", "Cancelled", "Denied", "Failed", "Reverted"}
Record == [id : Sessions, outcome : Outcome, snapshot : BOOLEAN,
           reverted : BOOLEAN, ticket : BOOLEAN]

\* overlap: processes that share no lock were under way together.  crash: of
\* the daemon.  died: an undo before its end.  error: a session could not write
\* its record or put back its snapshot.  ticket: undo --ticket.  below: it took
\* back a plan that another intent's plan came after.
Event == {"overlap", "crash", "died", "error", "ticket", "below"}

SessionPoint == {"new", "gate", "snapshot", "run", "ran", "broke", "restore", "done"}
UndoPoint == {"idle", "restore", "truncate", "write", "append",
              "t.restore", "t.append", "t.truncate", "t.write"}

\* todo: the changes not yet applied.  present: the client is still connected.
SessionState == [pc : SessionPoint, plan : Plan, todo : SUBSET Paths, present : BOOLEAN]

-----------------------------------------------------------------------------
(* journal.rs and snapshot.rs.                                             *)

NewRecord(s, outcome, snapshot) ==
    [id |-> s, outcome |-> outcome, snapshot |-> snapshot, reverted |-> FALSE,
     ticket |-> ses[s].plan.ticket]

\* journal::append
Appended(r) == journal' = Append(journal, r)

\* snapshot::restore of the snapshot with this id
Restored(id) == [p \in Paths |-> IF p \in DOMAIN snaps[id] THEN snaps[id][p] ELSE ws[p]]

\* Blast::required_tier: the declared tier is a floor.
RequiredTier(plan) ==
    IF plan.deletes \/ plan.escapes \/ plan.system THEN "grant"
    ELSE IF plan.declared = "auto" /\ (plan.writes # {} \/ plan.network) THEN "confirm"
    ELSE plan.declared

\* The policy looks for a grant where the capability itself declares the tier.
MissingGrant(plan) == RequiredTier(plan) = "grant" /\ plan.declared = "grant" /\ ~granted

-----------------------------------------------------------------------------
Fresh == [pc |-> "new", plan |-> Nothing, todo |-> {}, present |-> TRUE]
UndoIdle == [pc |-> "idle", records |-> <<>>, todo |-> {}, at |-> 0]

SessionInit ==
    /\ daemon \in Homes
    /\ ws = [p \in Paths |-> "old"]
    /\ journal = <<>>
    /\ snaps = [s \in Sessions |-> <<>>]
    /\ granted = FALSE
    /\ lock = None
    /\ ses = [s \in Sessions |-> Fresh]
    /\ undo = UndoIdle /\ events = {}
    /\ undos = 0 /\ crashes = 0 /\ grantings = 0

At(s, pc) == ses[s].pc = pc
GoTo(s, pc) == ses' = [ses EXCEPT ![s].pc = pc]

\* The session returns: the daemon's thread drops the lock's guard.
Finish(s) ==
    /\ GoTo(s, "done")
    /\ lock' = IF lock = s THEN None ELSE lock

Active == \E s \in Sessions : ses[s].pc \notin {"new", "done"}
Undoing == undo.pc # "idle"

Note(E) == events' = events \cup E
NoteOverlap == Note(IF Active \/ Undoing THEN {"overlap"} ELSE {})

-----------------------------------------------------------------------------
(* intent_session.                                                         *)

\* Planning, validation, blast radius and policy.  Nothing is written but the
\* record of a denial, which is settled before anything is shown, or not even
\* that when the journal cannot be written.
Begin(s, plan) ==
    /\ At(s, "new")
    /\ s \in daemon => lock = None
    /\ NoteOverlap
    /\ IF plan.escapes \/ MissingGrant(plan)
       THEN /\ ses' = [ses EXCEPT ![s].plan = plan, ![s].pc = "done"]
            /\ \/ Appended([NewRecord(s, "Denied", FALSE) EXCEPT !.ticket = plan.ticket])
               \/ UNCHANGED journal
            /\ UNCHANGED lock
       ELSE /\ ses' = [ses EXCEPT ![s].plan = plan, ![s].pc = "gate"]
            /\ lock' = IF s \in daemon THEN s ELSE lock
            /\ UNCHANGED journal
    /\ UNCHANGED <<ws, snaps, granted, undo, daemon, undos, crashes, grantings>>

Approve(s) ==
    /\ At(s, "gate") /\ ses[s].present /\ ~ses[s].plan.dry
    /\ GoTo(s, "snapshot")
    /\ UNCHANGED <<ws, journal, snaps, granted, lock, undo, env>>

\* A dry run asks too, and returns whatever the answer is.
DryRun(s) ==
    /\ At(s, "gate") /\ ses[s].plan.dry
    /\ Finish(s)
    /\ UNCHANGED <<ws, journal, snaps, granted, undo, env>>

DeclineIfPresent(s) ==
    /\ At(s, "gate") /\ ses[s].present /\ ~ses[s].plan.dry
    /\ Appended(NewRecord(s, "Cancelled", FALSE)) /\ Finish(s)
    /\ UNCHANGED <<ws, snaps, granted, undo, env>>

\* A no, or anything else than an approval: silence is never a yes.
Decline(s) ==
    /\ At(s, "gate") /\ ~ses[s].plan.dry
    /\ Appended(NewRecord(s, "Cancelled", FALSE)) /\ Finish(s)
    /\ UNCHANGED <<ws, snaps, granted, undo, env>>

\* The client disconnects.
Leave(s) ==
    /\ At(s, "gate") /\ ses[s].present
    /\ ses' = [ses EXCEPT ![s].present = FALSE]
    /\ UNCHANGED <<ws, journal, snaps, granted, lock, undo, env>>

TakeSnapshotOnce(s) ==
    /\ At(s, "snapshot")
    /\ snaps' = [snaps EXCEPT ![s] =
                   [p \in {q \in ses[s].plan.writes : \A t \in Sessions : q \notin DOMAIN snaps[t]}
                      |-> ws[p]]]
    /\ ses' = [ses EXCEPT ![s].pc = "run", ![s].todo = ses[s].plan.writes]
    /\ UNCHANGED <<ws, journal, granted, lock, undo, env>>

\* snapshot::take of everything the plan writes or deletes; none if nothing.
TakeSnapshot(s) ==
    /\ At(s, "snapshot")
    /\ snaps' = [snaps EXCEPT ![s] = [p \in ses[s].plan.writes |-> ws[p]]]
    /\ ses' = [ses EXCEPT ![s].pc = "run", ![s].todo = ses[s].plan.writes]
    /\ UNCHANGED <<ws, journal, granted, lock, undo, env>>

\* A path cannot be captured: the error leaves the session, unrecorded.
SnapshotFails(s) ==
    /\ At(s, "snapshot") /\ ses[s].plan.writes # {}
    /\ Finish(s)
    /\ UNCHANGED <<ws, journal, snaps, granted, undo, env>>

\* The confined executor applies the changes one by one.
Apply(s, p) ==
    /\ At(s, "run") /\ p \in ses[s].todo
    /\ ws' = [ws EXCEPT ![p] = s]
    /\ ses' = [ses EXCEPT ![s].todo = @ \ {p}]
    /\ UNCHANGED <<journal, snaps, granted, lock, undo, env>>

RunEnds(s) ==
    /\ At(s, "run") /\ ses[s].todo = {}
    /\ GoTo(s, "ran")
    /\ UNCHANGED <<ws, journal, snaps, granted, lock, undo, env>>

\* The executor fails, is refused by the enclosure or is killed by its quota.
RunBreaks(s) ==
    /\ At(s, "run")
    /\ GoTo(s, "broke")
    /\ UNCHANGED <<ws, journal, snaps, granted, lock, undo, env>>

HasSnapshot(s) == ses[s].plan.writes # {}

RecordExecuted(s) ==
    /\ At(s, "ran")
    /\ Appended(NewRecord(s, "Executed", HasSnapshot(s))) /\ Finish(s)
    /\ UNCHANGED <<ws, snaps, granted, undo, env>>

RecordFailedOnly(s) ==
    /\ At(s, "broke")
    /\ Appended(NewRecord(s, "Failed", HasSnapshot(s))) /\ Finish(s)
    /\ UNCHANGED <<ws, snaps, granted, undo, env>>

RecordFailed(s) ==
    /\ At(s, "broke")
    /\ Appended(NewRecord(s, "Failed", HasSnapshot(s)))
    /\ IF HasSnapshot(s) THEN GoTo(s, "restore") /\ UNCHANGED lock ELSE Finish(s)
    /\ UNCHANGED <<ws, snaps, granted, undo, env>>

\* "failed midway and reverted to previous state"
RestoreAfterFailure(s) ==
    /\ At(s, "restore")
    /\ ws' = Restored(s) /\ Finish(s)
    /\ UNCHANGED <<journal, snaps, granted, undo, env>>

\* on_proposal, the append of a record or the restore returns an error: the
\* session ends there, and what it has written stays.
ErrorLeaves(s) ==
    /\ ses[s].pc \in {"gate", "ran", "broke", "restore"} /\ crashes < MaxCrashes
    /\ Note(IF At(s, "gate") THEN {} ELSE {"error"})
    /\ Finish(s) /\ crashes' = crashes + 1
    /\ UNCHANGED <<ws, journal, snaps, granted, undo, daemon, undos, grantings>>

-----------------------------------------------------------------------------
(* cmd_undo.  Its copy of the records is read once, at the start.          *)

\* The order of undo --ticket: the last record first.
NextOf(todo) == Max(todo)

Undoable(r) == r.outcome = "Executed" /\ ~r.reverted /\ r.snapshot

CanUndo == ~Undoing /\ undos < MaxUndos

\* undo: the last executed record that is not reverted.
UndoLast ==
    /\ CanUndo
    /\ \E i \in DOMAIN journal :
        /\ Undoable(journal[i])
        /\ \A j \in DOMAIN journal : Undoable(journal[j]) => j <= i
        /\ undo' = [pc |-> "restore", records |-> journal, todo |-> {i}, at |-> i]
    /\ undos' = undos + 1 /\ NoteOverlap
    /\ UNCHANGED <<ws, journal, snaps, granted, lock, ses, daemon, crashes, grantings>>

\* undo --ticket: all the executed records of the ticket, the last one first.
\* Without one it still removes the ticket's worktree, when there is one, and
\* goes on to rewrite the journal.
UndoTicket ==
    /\ CanUndo
    /\ LET mine == {i \in DOMAIN journal : Undoable(journal[i]) /\ journal[i].ticket}
       IN  /\ undo' = IF mine = {}
                      THEN [UndoIdle EXCEPT !.pc = "t.truncate", !.records = journal]
                      ELSE [pc |-> "t.restore", records |-> journal, todo |-> mine,
                            at |-> NextOf(mine)]
           /\ Note({"ticket"} \cup (IF Active THEN {"overlap"} ELSE {})
                     \cup (IF mine # {} /\ \E i \in DOMAIN journal \ mine : Undoable(journal[i])
                           THEN {"below"} ELSE {}))
    /\ undos' = undos + 1
    /\ UNCHANGED <<ws, journal, snaps, granted, lock, ses, daemon, crashes, grantings>>

UndoRestores ==
    /\ undo.pc \in {"restore", "t.restore"}
    /\ ws' = Restored(undo.records[undo.at].id)
    /\ undo' = [undo EXCEPT !.records[undo.at].reverted = TRUE, !.todo = @ \ {undo.at},
                            !.pc = IF undo.pc = "restore" THEN "truncate" ELSE "t.append"]
    /\ UNCHANGED <<journal, snaps, granted, lock, ses, env>>

UndoneRecord ==
    LET r == undo.records[undo.at]
    IN  [r EXCEPT !.outcome = "Reverted", !.reverted = FALSE]

\* journal::rewrite is one fs::write, which empties the file ...
UndoTruncates ==
    /\ undo.pc \in {"truncate", "t.truncate"}
    /\ journal' = <<>>
    /\ undo' = [undo EXCEPT !.pc = IF undo.pc = "truncate" THEN "write" ELSE "t.write"]
    /\ UNCHANGED <<ws, snaps, granted, lock, ses, env>>

\* ... and then writes the copy at its beginning, over the first of the records
\* that others have appended meanwhile.  With --ticket that is the end.
UndoWrites(over) ==
    /\ undo.pc \in {"write", "t.write"}
    /\ over = 0 <=> (journal = <<>> \/ undo.records = <<>>)
    /\ journal' = undo.records \o SubSeq(journal, over + 1, Len(journal))
    /\ undo' = IF undo.pc = "write" THEN [undo EXCEPT !.pc = "append"] ELSE UndoIdle
    /\ UNCHANGED <<ws, snaps, granted, lock, ses, env>>

UndoAppends ==
    /\ undo.pc = "append"
    /\ Appended(UndoneRecord)
    /\ undo' = UndoIdle
    /\ UNCHANGED <<ws, snaps, granted, lock, ses, env>>

\* With --ticket the record of each reversal is appended in the loop and the
\* file is rewritten from the copy after it.
TicketAppends ==
    /\ undo.pc = "t.append"
    /\ Appended(UndoneRecord)
    /\ undo' = IF undo.todo = {} THEN [undo EXCEPT !.pc = "t.truncate"]
               ELSE [undo EXCEPT !.pc = "t.restore", !.at = NextOf(undo.todo)]
    /\ UNCHANGED <<ws, snaps, granted, lock, ses, env>>

\* The command is killed, or leaves by an error, between two of its steps.
UndoDies ==
    /\ Undoing /\ crashes < MaxCrashes
    /\ undo' = UndoIdle
    /\ crashes' = crashes + 1 /\ Note({"died"})
    /\ UNCHANGED <<ws, journal, snaps, granted, lock, ses, daemon, undos, grantings>>

-----------------------------------------------------------------------------
(* The world around.                                                       *)

\* antos grant, antos revoke, or the grant expires.
ChangeGrant ==
    /\ grantings < MaxGrants
    /\ granted' = ~granted /\ grantings' = grantings + 1
    /\ UNCHANGED <<ws, journal, snaps, lock, ses, undo, daemon, events, undos, crashes>>

\* The daemon dies: its sessions end where they are.
Crash ==
    /\ crashes < MaxCrashes
    /\ ses' = [s \in Sessions |->
                 IF s \in daemon /\ ~At(s, "new") THEN [ses[s] EXCEPT !.pc = "done"] ELSE ses[s]]
    /\ lock' = None /\ crashes' = crashes + 1 /\ Note({"crash"})
    /\ UNCHANGED <<ws, journal, snaps, granted, undo, daemon, undos, grantings>>

SessionStep(s) ==
    \/ Approve(s) \/ DryRun(s) \/ Decline(s)
    \/ TakeSnapshot(s) \/ SnapshotFails(s)
    \/ (\E p \in Paths : Apply(s, p)) \/ RunEnds(s) \/ RunBreaks(s)
    \/ RecordExecuted(s) \/ RecordFailed(s) \/ RestoreAfterFailure(s)

SessionNext ==
    \/ \E s \in Sessions :
        \/ \E plan \in Plans : Begin(s, plan)
        \/ SessionStep(s) \/ Leave(s) \/ ErrorLeaves(s)
    \/ UndoLast \/ UndoTicket \/ UndoRestores \/ UndoTruncates
    \/ (\E over \in 0..Len(journal) : UndoWrites(over))
    \/ UndoAppends \/ TicketAppends \/ UndoDies
    \/ ChangeGrant \/ Crash

SessionSpec == SessionInit /\ [][SessionNext]_sessionVars

\* A session's thread runs; a client answers or leaves.
SessionFairSpec == SessionSpec /\ \A s \in Sessions : WF_sessionVars(SessionStep(s))

-----------------------------------------------------------------------------
(* Properties.                                                             *)

\* Every variable has its type, and the daemon's sessions are never two past
\* their beginning: the lock's holder is the one that is.
SessionTypeOK ==
    /\ daemon \in Homes
    /\ ws \in [Paths -> Content]
    /\ journal \in Seq(Record)
    /\ \A s \in Sessions : \E P \in SUBSET Paths : snaps[s] \in [P -> Content]
    /\ granted \in BOOLEAN
    /\ ses \in [Sessions -> SessionState]
    /\ undo.pc \in UndoPoint /\ undo.todo \subseteq DOMAIN undo.records
    /\ \A s \in daemon : ses[s].pc \notin {"new", "done"} <=> lock = s
    /\ lock \in daemon \cup {None}
    /\ events \subseteq Event

\* The executed records of the journal that wrote p and are not reverted.
Writers(p) == {i \in DOMAIN journal : /\ journal[i].outcome = "Executed" /\ ~journal[i].reverted
                                      /\ p \in ses[journal[i].id].plan.writes}

Quiet == ~Active /\ ~Undoing

\* The workspace is what the journal tells: when nothing is under way, a path
\* holds what the last executed and not reverted record wrote there, and what
\* was there at first when there is none.  A plan that fails midway leaves no
\* trace, and undo takes back exactly one plan, undo --ticket exactly the
\* ticket's.  What the code does not keep it through: sessions or undos of two
\* processes at once, a crash before the record, an undo that dies between its
\* restore and its last record, a record that cannot be written, and undo
\* --ticket below a plan of another intent.
WorkspaceIsJournal ==
    Quiet /\ events \subseteq {"ticket"} => \A p \in Paths :
        ws[p] = IF Writers(p) = {} THEN "old" ELSE journal[Max(Writers(p))].id

\* What a session wrote is in its snapshot from before it wrote, whatever
\* crashed, raced or was undone since: the way back is always on disk.
CoveredBySnapshot ==
    \A p \in Paths : ws[p] # "old" => p \in DOMAIN snaps[ws[p]]

\* The journal tells every reversal, as an append-only journal ("Append-only
\* journal: what was requested, ... and what happened") would: a record that is
\* marked as reverted has the record of its reversal.  The code does not keep it:
\* undo --ticket appends those records in its loop and then rewrites the file from
\* the copy it read before.
ReversalsAreTold ==
    Quiet => \A i \in DOMAIN journal : journal[i].reverted =>
        \E j \in DOMAIN journal : journal[j].id = journal[i].id /\ journal[j].outcome = "Reverted"

\* A session that asks its client ends, and with it the lock is free again,
\* also when the client is gone.
SessionEnds == \A s \in Sessions : [](At(s, "gate") => <>At(s, "done"))

=============================================================================
