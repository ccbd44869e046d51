------------------------ MODULE IntentSessionProofs ------------------------
(***************************************************************************)
(* Proofs about the lifecycle of an intent (IntentSession).                *)
(*                                                                         *)
(* The invariant has three parts.  Types: the types, and the lock's holder.*)
(* SnapInv: CoveredBySnapshot, with the same of what the snapshots hold,   *)
(* because a restore brings it back.  AloneInv, while nothing disturbs:    *)
(* the records in force (the journal, or the copy of an undo, also while   *)
(* the file is empty between the two halves of its rewrite) tell what      *)
(* every path holds, and the snapshot of every record what the records     *)
(* before it tell; so taking back the last one leaves what the others tell *)
(* (ChainReverted), and a session that fails halfway goes back to what the *)
(* journal tells (SessionAlone).                                           *)
(***************************************************************************)
EXTENDS IntentSession, WellFoundedInduction, TLAPS

(* The greatest of the records that undo --ticket has left.                *)
LEMMA MaxFacts ==
    ASSUME NEW n \in Nat, NEW S \in SUBSET (1 .. n), S # {}
    PROVE  Max(S) \in S /\ \A j \in S : j <= Max(S)
  <1> DEFINE T == {k \in Nat : \A j \in S : j <= k}
             R == OpToRel(<, Nat)
  <1>1. n \in T
    OBVIOUS
  <1>2. PICK k \in T : \A j \in T : ~(<<j, k>> \in R)
    <2>1. T \subseteq Nat /\ T # {}
      BY <1>1
    <2>2. IsWellFoundedOn(R, Nat)
      BY NatLessThanWellFounded
    <2> HIDE DEF T, R
    <2> QED
      BY <2>1, <2>2, WFMin
  <1>3. \A j \in T : ~(j < k)
    BY <1>2 DEF OpToRel
  <1> HIDE DEF R
  <1>4. k \in S
    <2> SUFFICES ASSUME k \notin S PROVE FALSE
      OBVIOUS
    <2>1. PICK e \in S : TRUE
      OBVIOUS
    <2>2. k \in Nat /\ \A j \in S : j \in Nat /\ j >= 1 /\ j <= k /\ j # k
      <3>1. k \in Nat /\ \A j \in S : j <= k
        OBVIOUS
      <3>2. \A j \in S : j \in Nat /\ j >= 1
        OBVIOUS
      <3> QED
        BY <3>1, <3>2
    <2>3. k - 1 \in Nat /\ k - 1 < k
      BY <2>1, <2>2
    <2>4. \A j \in S : j <= k - 1
      BY <2>2
    <2> QED
      BY <1>3, <2>3, <2>4
  <1>5. \A y \in S : k >= y
    BY <1>2
  <1>6. Max(S) \in S /\ \A y \in S : Max(S) >= y
    BY <1>4, <1>5, Zenon DEF Max
  <1> QED
    BY <1>6

(* The undo command knows the record it is at.                             *)
UndoTypes ==
    /\ DOMAIN undo = {"pc", "records", "todo", "at"}
    /\ undo.pc \in UndoPoint /\ undo.records \in Seq(Record)
    /\ undo.todo \subseteq 1 .. Len(undo.records)
    /\ undo.pc \notin {"idle", "t.truncate", "t.write"} =>
          undo.at \in 1 .. Len(undo.records)
    /\ undo.pc = "t.restore" => undo.at \in undo.todo

(* Files hold content, and a snapshot is of paths.                         *)
FileTypes ==
    /\ ws \in [Paths -> Content]
    /\ DOMAIN snaps = Sessions
    /\ \A s \in Sessions : \E P \in SUBSET Paths : snaps[s] \in [P -> Content]

(* The lock is with the daemon's session that is under way.                *)
LockInv ==
    /\ \A s \in daemon : ses[s].pc \notin {"new", "done"} <=> lock = s
    /\ lock \in daemon \cup {None}

(* The types of the variables.                                             *)
Types ==
    /\ daemon \in Homes /\ granted \in BOOLEAN /\ events \subseteq Event
    /\ journal \in Seq(Record)
    /\ ses \in [Sessions -> SessionState]
    /\ UndoTypes /\ FileTypes /\ LockInv

(* A session between its snapshot and its end.                             *)
Running(s) == ses[s].pc \in {"run", "ran", "broke", "restore"}

(* The points and plans of the sessions stay in their types.               *)
LEMMA SesStep == Types /\ [SessionNext]_sessionVars => (ses \in [Sessions -> SessionState])'
  <1> SUFFICES ASSUME Types, [SessionNext]_sessionVars
               PROVE  ses' \in [Sessions -> SessionState]
    OBVIOUS
  <1>1. ses \in [Sessions -> SessionState]
    BY DEF Types
  <1>2. ASSUME NEW s \in Sessions, NEW plan \in Plans, Begin(s, plan)
        PROVE  ses' \in [Sessions -> SessionState]
    <2>1. plan \in Plan
      BY SessionAssumption
    <2> QED
      BY <1>1, <1>2, <2>1 DEF Begin, SessionState, SessionPoint
  <1>3. ASSUME NEW s \in Sessions, SessionStep(s)
        PROVE  ses' \in [Sessions -> SessionState]
    <2>1. ses[s] \in SessionState
      BY <1>1
    <2>2. ses[s].plan.writes \subseteq Paths
      BY <2>1 DEF SessionState, Plan
    <2>3. \A pc \in SessionPoint :
             GoTo(s, pc) => ses' \in [Sessions -> SessionState]
      BY <1>1 DEF GoTo, SessionState
    <2>4. CASE TakeSnapshot(s)
      BY <1>1, <2>1, <2>2, <2>4 DEF TakeSnapshot, SessionPoint, SessionState
    <2>5. CASE \E p \in Paths : Apply(s, p)
      BY <1>1, <2>1, <2>5 DEF Apply, SessionState
    <2>6. CASE UNCHANGED ses
      BY <1>1, <2>6
    <2> QED
      BY <1>3, <2>3, <2>4, <2>5, <2>6
      DEF SessionStep, Approve, DryRun, Decline, SnapshotFails, RunEnds,
          RunBreaks, RecordExecuted, RecordFailed, RestoreAfterFailure, Finish,
          SessionPoint
  <1>4. ASSUME NEW s \in Sessions, Leave(s)
        PROVE  ses' \in [Sessions -> SessionState]
    BY <1>1, <1>4 DEF Leave, SessionState
  <1>5. CASE Crash
    BY <1>1, <1>5 DEF Crash, SessionState, SessionPoint
  <1>6. CASE UNCHANGED ses
    BY <1>1, <1>6
  <1>7. ASSUME NEW s \in Sessions, ErrorLeaves(s)
        PROVE  ses' \in [Sessions -> SessionState]
    BY <1>1, <1>7 DEF ErrorLeaves, Finish, GoTo, SessionState, SessionPoint
  <1> QED
    BY <1>2, <1>3, <1>4, <1>5, <1>6, <1>7
    DEF SessionNext, UndoLast, UndoTicket, UndoRestores, UndoTruncates,
        UndoWrites, UndoAppends,
        TicketAppends, UndoDies, ErrorLeaves, ChangeGrant, sessionVars

(* Every record that is appended or rewritten is one.                      *)
LEMMA JournalStep == Types /\ [SessionNext]_sessionVars => (journal \in Seq(Record))'
  <1> SUFFICES ASSUME Types, [SessionNext]_sessionVars PROVE journal' \in Seq(Record)
    OBVIOUS
  <1>1. /\ journal \in Seq(Record) /\ ses \in [Sessions -> SessionState]
        /\ UndoTypes
    BY DEF Types
  <1>2. \A r \in Record : Appended(r) => journal' \in Seq(Record)
    BY <1>1 DEF Appended
  <1>3. ASSUME NEW s \in Sessions, NEW o \in Outcome, NEW b \in BOOLEAN
        PROVE  NewRecord(s, o, b) \in Record
    BY <1>1 DEF NewRecord, Record, SessionState, Plan
  <1>4. ASSUME NEW s \in Sessions, NEW plan \in Plans, Begin(s, plan)
        PROVE  journal' \in Seq(Record)
    <2>1. plan.ticket \in BOOLEAN
      BY SessionAssumption DEF Plan
    <2>2. NewRecord(s, "Denied", FALSE) \in Record
      BY <1>3 DEF Outcome
    <2>3. [NewRecord(s, "Denied", FALSE) EXCEPT !.ticket = plan.ticket]
            \in Record
      BY <2>1, <2>2 DEF Record
    <2> QED
      BY <1>1, <1>2, <1>4, <2>3 DEF Begin
  <1>5. ASSUME NEW s \in Sessions, SessionStep(s)
        PROVE  journal' \in Seq(Record)
    <2>1. \A b \in BOOLEAN : /\ NewRecord(s, "Cancelled", b) \in Record
                             /\ NewRecord(s, "Executed", b) \in Record
                             /\ NewRecord(s, "Failed", b) \in Record
      BY <1>3 DEF Outcome
    <2>2. HasSnapshot(s) \in BOOLEAN
      BY DEF HasSnapshot
    <2> QED
      BY <1>1, <1>2, <1>5, <2>1, <2>2
      DEF SessionStep, Approve, DryRun, Decline, TakeSnapshot, SnapshotFails,
          Apply, RunEnds, RunBreaks, RecordExecuted, RecordFailed,
          RestoreAfterFailure
  <1>6. CASE UndoAppends \/ TicketAppends
    <2>1. undo.records[undo.at] \in Record
      BY <1>1, <1>6 DEF UndoTypes, UndoAppends, TicketAppends
    <2>2. UndoneRecord \in Record
      BY <2>1 DEF UndoneRecord, Record, Outcome
    <2> QED
      BY <1>2, <1>6, <2>2 DEF UndoAppends, TicketAppends
  <1>7. CASE UndoTruncates
    BY <1>7 DEF UndoTruncates
  <1>9. ASSUME NEW over \in 0 .. Len(journal), UndoWrites(over)
        PROVE  journal' \in Seq(Record)
    <2>1. SubSeq(journal, over + 1, Len(journal)) \in Seq(Record)
      <3>1. /\ Len(journal) \in Nat /\ over + 1 \in 1 .. Len(journal) + 1
            /\ \A i \in 1 .. Len(journal) : journal[i] \in Record
        BY <1>1
      <3> QED
        BY <1>1, <3>1
    <2> QED
      BY <1>1, <1>9, <2>1 DEF UndoWrites, UndoTypes
  <1>8. CASE UNCHANGED journal
    BY <1>1, <1>8
  <1> QED
    BY <1>4, <1>5, <1>6, <1>7, <1>8, <1>9
    DEF SessionNext, Leave, ErrorLeaves, UndoLast, UndoTicket, UndoRestores,
        UndoDies, ChangeGrant, Crash, sessionVars

(* undo and undo --ticket keep the place of the record they are at.        *)
LEMMA UndoStep == Types /\ [SessionNext]_sessionVars => UndoTypes'
  <1> SUFFICES ASSUME Types, [SessionNext]_sessionVars PROVE UndoTypes'
    OBVIOUS
  <1>1. journal \in Seq(Record) /\ UndoTypes
    BY DEF Types
  <1>2. CASE UndoLast
    <2>1. PICK i \in DOMAIN journal :
             undo' = [pc |-> "restore", records |-> journal, todo |-> {i},
                      at |-> i]
      BY <1>2 DEF UndoLast
    <2> QED
      BY <1>1, <2>1 DEF UndoTypes, UndoPoint
  <1>3. CASE UndoTicket
    <2> DEFINE mine == {i \in DOMAIN journal :
                           Undoable(journal[i]) /\ journal[i].ticket}
    <2>1. undo' = IF mine = {}
                  THEN [UndoIdle EXCEPT !.pc = "t.truncate",
                                        !.records = journal]
                  ELSE [pc |-> "t.restore", records |-> journal,
                        todo |-> mine, at |-> NextOf(mine)]
      BY <1>3 DEF UndoTicket
    <2>2. mine \in SUBSET (1 .. Len(journal)) /\ Len(journal) \in Nat
      BY <1>1
    <2> HIDE DEF mine
    <2>3. mine # {} => NextOf(mine) \in mine
      BY <2>2, MaxFacts DEF NextOf
    <2>4. CASE mine = {}
      BY <1>1, <2>1, <2>4 DEF UndoIdle, UndoTypes, UndoPoint
    <2>5. CASE mine # {}
      BY <1>1, <2>1, <2>2, <2>3, <2>5 DEF UndoTypes, UndoPoint
    <2> QED
      BY <2>4, <2>5
  <1>4. CASE UndoRestores
    <2>1. undo.pc \in {"restore", "t.restore"}
          /\ undo' = [undo EXCEPT !.records[undo.at].reverted = TRUE,
                        !.todo = @ \ {undo.at},
                        !.pc = IF undo.pc = "restore" THEN "truncate"
                               ELSE "t.append"]
      BY <1>4 DEF UndoRestores
    <2>2. PICK rs \in Seq(Record) : rs = undo.records
      BY <1>1 DEF UndoTypes
    <2>3. PICK a \in 1 .. Len(rs) : a = undo.at
      BY <1>1, <2>1, <2>2 DEF UndoTypes
    <2>4. /\ undo'.records = [rs EXCEPT ![a].reverted = TRUE]
          /\ undo'.todo = undo.todo \ {a} /\ undo'.at = a
          /\ undo'.pc \in {"truncate", "t.append"}
          /\ DOMAIN undo' = DOMAIN undo
      BY <1>1, <2>1, <2>2, <2>3 DEF UndoTypes
    <2>5. [rs[a] EXCEPT !.reverted = TRUE] \in Record
      <3>1. PICK r \in Record : r = rs[a]
        BY <2>3
      <3>2. [r EXCEPT !.reverted = TRUE] \in Record
        BY DEF Record
      <3> QED
        BY <3>1, <3>2
    <2>6. undo'.records \in Seq(Record) /\ Len(undo'.records) = Len(rs)
      BY <2>3, <2>4, <2>5
    <2> QED
      BY <1>1, <2>2, <2>3, <2>4, <2>6 DEF UndoTypes, UndoPoint
  <1>5. ASSUME NEW pc \in {"write", "t.write", "append"},
               undo' = [undo EXCEPT !.pc = pc],
               undo.pc \in {"truncate", "write"} \/ pc = "t.write"
        PROVE  UndoTypes'
    BY <1>1, <1>5 DEF UndoTypes, UndoPoint
  <1>6. CASE undo' = UndoIdle
    <2>1. undo' = UndoIdle
      BY <1>6
    <2> QED
      BY <2>1 DEF UndoIdle, UndoTypes, UndoPoint
  <1>7. CASE TicketAppends
    <2>1. \/ undo' = [undo EXCEPT !.pc = "t.truncate"]
          \/ /\ undo.todo # {}
             /\ undo' = [undo EXCEPT !.pc = "t.restore",
                                     !.at = NextOf(undo.todo)]
      BY <1>7 DEF TicketAppends
    <2>2. undo.todo # {} => NextOf(undo.todo) \in undo.todo
      <3>1. undo.todo \in SUBSET (1 .. Len(undo.records))
            /\ Len(undo.records) \in Nat
        BY <1>1 DEF UndoTypes
      <3> QED
        BY <3>1, MaxFacts DEF NextOf
    <2>3. undo.pc = "t.append"
      BY <1>7 DEF TicketAppends
    <2> QED
      BY <1>1, <2>1, <2>2, <2>3 DEF UndoTypes, UndoPoint
  <1>8. CASE UNCHANGED undo
    BY <1>1, <1>8 DEF UndoTypes
  <1>9. CASE UndoTruncates \/ \E over \in 0 .. Len(journal) : UndoWrites(over)
    BY <1>5, <1>6, <1>9 DEF UndoTruncates, UndoWrites
  <1>10. CASE UndoAppends \/ UndoDies
    BY <1>6, <1>10 DEF UndoAppends, UndoDies
  <1> QED
    BY <1>2, <1>3, <1>4, <1>7, <1>8, <1>9, <1>10
    DEF SessionNext, Begin, Leave, ErrorLeaves, SessionStep, Approve, DryRun,
        Decline,
        TakeSnapshot, SnapshotFails, Apply, RunEnds, RunBreaks,
        RecordExecuted, RecordFailed, RestoreAfterFailure, ChangeGrant, Crash,
        sessionVars

(* What a restore gives back is content.                                   *)
LEMMA RestoredFacts ==
    ASSUME FileTypes, NEW id \in Sessions
    PROVE  Restored(id) \in [Paths -> Content]
  BY DEF FileTypes, Restored

(* Writes, snapshots and restores keep the types of the files.             *)
LEMMA FileStep == Types /\ [SessionNext]_sessionVars => FileTypes'
  <1> SUFFICES ASSUME Types, [SessionNext]_sessionVars PROVE FileTypes'
    OBVIOUS
  <1>1. FileTypes /\ UndoTypes /\ ses \in [Sessions -> SessionState]
    BY DEF Types
  <1>2. ASSUME NEW s \in Sessions, TakeSnapshot(s) PROVE FileTypes'
    <2>1. ses[s].plan.writes \subseteq Paths
      BY <1>1 DEF SessionState, Plan
    <2>2. /\ snaps' = [snaps EXCEPT ![s] =
                          [p \in ses[s].plan.writes |-> ws[p]]]
          /\ ws' = ws
      BY <1>2 DEF TakeSnapshot
    <2>3. [p \in ses[s].plan.writes |-> ws[p]]
            \in [ses[s].plan.writes -> Content]
      BY <1>1, <2>1 DEF FileTypes
    <2>4. \A t \in Sessions : t # s => snaps'[t] = snaps[t]
      BY <1>1, <2>2 DEF FileTypes
    <2>5. snaps'[s] = [p \in ses[s].plan.writes |-> ws[p]]
      BY <1>1, <2>2 DEF FileTypes
    <2>6. DOMAIN snaps' = Sessions
      BY <1>1, <2>2 DEF FileTypes
    <2>7. ASSUME NEW t \in Sessions
          PROVE  \E P \in SUBSET Paths : snaps'[t] \in [P -> Content]
      <3>1. CASE t = s
        BY <2>1, <2>3, <2>5, <3>1
      <3>2. CASE t # s
        BY <1>1, <2>4, <3>2 DEF FileTypes
      <3> QED
        BY <3>1, <3>2
    <2> QED
      BY <1>1, <2>2, <2>6, <2>7 DEF FileTypes
  <1>3. ASSUME NEW s \in Sessions, NEW p \in Paths, Apply(s, p)
        PROVE  FileTypes'
    BY <1>1, <1>3 DEF Apply, FileTypes, Content
  <1>4. ASSUME NEW s \in Sessions, RestoreAfterFailure(s) PROVE FileTypes'
    <2>1. ws' = Restored(s) /\ snaps' = snaps
      BY <1>4 DEF RestoreAfterFailure
    <2>2. Restored(s) \in [Paths -> Content]
      BY <1>1, RestoredFacts
    <2> QED
      BY <1>1, <2>1, <2>2 DEF FileTypes
  <1>5. CASE UndoRestores
    <2>1. undo.records[undo.at].id \in Sessions
      <3>1. undo.pc \in {"restore", "t.restore"}
        BY <1>5 DEF UndoRestores
      <3>2. undo.records[undo.at] \in Record
        BY <1>1, <3>1 DEF UndoTypes
      <3> QED
        BY <3>2 DEF Record
    <2>2. PICK id \in Sessions : id = undo.records[undo.at].id
      BY <2>1
    <2>3. ws' = Restored(id) /\ snaps' = snaps
      BY <1>5, <2>2 DEF UndoRestores
    <2>4. Restored(id) \in [Paths -> Content]
      BY <1>1, RestoredFacts
    <2> QED
      BY <1>1, <2>3, <2>4 DEF FileTypes
  <1>6. CASE UNCHANGED <<ws, snaps>>
    BY <1>1, <1>6 DEF FileTypes
  <1> QED
    BY <1>2, <1>3, <1>4, <1>5, <1>6
    DEF SessionNext, Begin, Leave, SessionStep, Approve, DryRun, Decline,
        SnapshotFails, RunEnds, RunBreaks, RecordExecuted, RecordFailed,
        UndoLast, UndoTicket, UndoTruncates, UndoWrites, UndoAppends,
        TicketAppends, UndoDies, ErrorLeaves, ChangeGrant, Crash, sessionVars

(* WORKSPACE_MUTATION_LOCK is with the daemon's session that is under way. *)
LEMMA LockStep == Types /\ [SessionNext]_sessionVars => LockInv'
  <1> SUFFICES ASSUME Types, [SessionNext]_sessionVars PROVE LockInv'
    OBVIOUS
  <1>1. /\ ses \in [Sessions -> SessionState] /\ LockInv
        /\ daemon \subseteq Sessions /\ None \notin Sessions
    BY SessionAssumption DEF Types
  <1>2. ASSUME NEW s \in Sessions, NEW plan \in Plans, Begin(s, plan)
        PROVE  LockInv'
    BY <1>1, <1>2 DEF Begin, At, LockInv, SessionState
  <1>3. ASSUME NEW s \in Sessions, UNCHANGED daemon, Finish(s),
               ses[s].pc \notin {"new", "done"}
        PROVE  LockInv'
    BY <1>1, <1>3 DEF Finish, GoTo, LockInv, SessionState
  <1>4. ASSUME NEW s \in Sessions, UNCHANGED <<daemon, lock>>,
               ses'[s].pc \notin {"new", "done"},
               ses[s].pc \notin {"new", "done"},
               \A t \in Sessions : t # s => ses'[t] = ses[t]
        PROVE  LockInv'
    BY <1>1, <1>4 DEF LockInv
  <1>5. CASE UNCHANGED <<daemon, lock, ses>>
    BY <1>1, <1>5 DEF LockInv
  <1>6. CASE Crash
    BY <1>1, <1>6 DEF Crash, At, LockInv, SessionState
  <1>7. ASSUME NEW s \in Sessions, SessionStep(s) PROVE LockInv'
    <2>1. CASE Approve(s) \/ RunEnds(s) \/ RunBreaks(s)
      BY <1>1, <1>4, <2>1
      DEF Approve, RunEnds, RunBreaks, GoTo, At, env, SessionState
    <2>2. CASE TakeSnapshot(s)
      BY <1>1, <1>4, <2>2 DEF TakeSnapshot, At, env, SessionState
    <2>3. ASSUME NEW p \in Paths, Apply(s, p) PROVE LockInv'
      BY <1>1, <1>4, <2>3 DEF Apply, At, env, SessionState
    <2>4. CASE RecordFailed(s)
      <3>1. CASE Finish(s)
        BY <1>3, <2>4, <3>1 DEF RecordFailed, At, env
      <3>2. CASE GoTo(s, "restore") /\ UNCHANGED lock
        BY <1>1, <1>4, <2>4, <3>2 DEF RecordFailed, GoTo, At, env, SessionState
      <3> QED
        BY <2>4, <3>1, <3>2 DEF RecordFailed
    <2>5. CASE \/ DryRun(s) \/ Decline(s) \/ SnapshotFails(s)
               \/ RecordExecuted(s) \/ RestoreAfterFailure(s)
      BY <1>3, <2>5
      DEF DryRun, Decline, SnapshotFails, RecordExecuted, RestoreAfterFailure,
          At, env
    <2> QED
      BY <1>7, <2>1, <2>2, <2>3, <2>4, <2>5 DEF SessionStep
  <1>8. ASSUME NEW s \in Sessions, Leave(s) PROVE LockInv'
    BY <1>1, <1>4, <1>8 DEF Leave, At, env, SessionState
  <1>9. ASSUME NEW s \in Sessions, ErrorLeaves(s) PROVE LockInv'
    BY <1>3, <1>9 DEF ErrorLeaves
  <1> QED
    BY <1>2, <1>5, <1>6, <1>7, <1>8, <1>9
    DEF SessionNext, UndoLast, UndoTicket, UndoRestores, UndoTruncates,
        UndoWrites, UndoAppends,
        TicketAppends, UndoDies, ErrorLeaves, ChangeGrant, sessionVars, env

(* Who stops before the snapshot has none, and who runs has in it all that *)
(* the plan writes.                                                        *)
PlaceInv ==
    \A s \in Sessions :
        /\ ses[s].pc \in {"new", "gate", "snapshot"} => DOMAIN snaps[s] = {}
        /\ Running(s) => DOMAIN snaps[s] = ses[s].plan.writes
        /\ ses[s].pc = "run" => ses[s].todo \subseteq ses[s].plan.writes

(* What a snapshot holds is covered by the snapshot of who wrote it.       *)
ChainCovered ==
    \A s \in Sessions : \A p \in DOMAIN snaps[s] :
        snaps[s][p] # "old" => p \in DOMAIN snaps[snaps[s][p]]

(* The way back is on disk.                                                *)
SnapInv == PlaceInv /\ ChainCovered /\ CoveredBySnapshot

(* A session goes from point to point as the code of intent_session does.  *)
LEMMA PlaceStep == Types /\ PlaceInv /\ [SessionNext]_sessionVars => PlaceInv'
  <1> SUFFICES ASSUME Types, PlaceInv, [SessionNext]_sessionVars PROVE PlaceInv'
    OBVIOUS
  <1>1. ses \in [Sessions -> SessionState] /\ FileTypes
    BY DEF Types
  <1>2. ASSUME NEW s \in Sessions, NEW plan \in Plans, Begin(s, plan)
        PROVE  PlaceInv'
    BY <1>1, <1>2 DEF Begin, At, PlaceInv, Running, SessionState
  <1>3. ASSUME NEW s \in Sessions, SessionStep(s) PROVE PlaceInv'
    <2>1. CASE TakeSnapshot(s)
      <3>1. /\ snaps' = [snaps EXCEPT ![s] =
                            [p \in ses[s].plan.writes |-> ws[p]]]
            /\ ses' = [ses EXCEPT ![s].pc = "run",
                                  ![s].todo = ses[s].plan.writes]
        BY <2>1 DEF TakeSnapshot
      <3>2. DOMAIN snaps'[s] = ses[s].plan.writes
        BY <1>1, <3>1 DEF FileTypes
      <3>3. \A t \in Sessions : t # s =>
               snaps'[t] = snaps[t] /\ ses'[t] = ses[t]
        BY <1>1, <3>1 DEF FileTypes
      <3>4. /\ ses'[s].pc = "run" /\ ses'[s].todo = ses[s].plan.writes
            /\ ses'[s].plan = ses[s].plan
        BY <1>1, <3>1 DEF SessionState
      <3> QED
        BY <3>2, <3>3, <3>4 DEF PlaceInv, Running
    <2>2. ASSUME NEW p \in Paths, Apply(s, p) PROVE PlaceInv'
      BY <1>1, <2>2 DEF Apply, At, PlaceInv, Running, SessionState
    <2>3. ASSUME NEW pc \in {"snapshot", "ran", "broke", "restore", "done"},
                 GoTo(s, pc), UNCHANGED snaps,
                 \/ ses[s].pc = "gate" /\ pc = "snapshot"
                 \/ Running(s) /\ pc \in {"ran", "broke", "restore"}
                 \/ pc = "done"
          PROVE  PlaceInv'
      BY <1>1, <2>3 DEF GoTo, PlaceInv, Running, SessionState
    <2> QED
      BY <1>3, <2>1, <2>2, <2>3
      DEF SessionStep, Approve, DryRun, Decline, SnapshotFails, RunEnds,
          RunBreaks, RecordExecuted, RecordFailed, RestoreAfterFailure,
          Finish, At, Running
  <1>4. ASSUME NEW s \in Sessions, Leave(s) PROVE PlaceInv'
    BY <1>1, <1>4 DEF Leave, At, PlaceInv, Running, SessionState
  <1>5. CASE Crash
    BY <1>1, <1>5 DEF Crash, At, PlaceInv, Running, SessionState
  <1>6. CASE UNCHANGED <<ses, snaps>>
    BY <1>6 DEF PlaceInv, Running
  <1>7. ASSUME NEW s \in Sessions, ErrorLeaves(s) PROVE PlaceInv'
    BY <1>1, <1>7
    DEF ErrorLeaves, Finish, GoTo, PlaceInv, Running, SessionState
  <1> QED
    BY <1>2, <1>3, <1>4, <1>5, <1>6, <1>7
    DEF SessionNext, UndoLast, UndoTicket, UndoRestores, UndoTruncates,
        UndoWrites, UndoAppends,
        TicketAppends, UndoDies, ErrorLeaves, ChangeGrant, sessionVars

(* Snapshots are taken of what is covered, and restored from what is.      *)
LEMMA SnapStep == Types /\ SnapInv /\ [SessionNext]_sessionVars => SnapInv'
  <1> SUFFICES ASSUME Types, SnapInv, [SessionNext]_sessionVars
               PROVE  ChainCovered' /\ CoveredBySnapshot'
    BY PlaceStep DEF SnapInv
  <1>1. /\ ses \in [Sessions -> SessionState] /\ FileTypes /\ UndoTypes
        /\ PlaceInv /\ ChainCovered /\ CoveredBySnapshot
    BY DEF Types, SnapInv
  <1>2. ASSUME NEW s \in Sessions, TakeSnapshot(s)
        PROVE  ChainCovered' /\ CoveredBySnapshot'
    <2>1. DOMAIN snaps[s] = {} /\ ws' = ws
      BY <1>1, <1>2 DEF TakeSnapshot, At, PlaceInv
    <2>2. /\ DOMAIN snaps'[s] = ses[s].plan.writes
          /\ \A p \in ses[s].plan.writes : snaps'[s][p] = ws[p]
          /\ \A t \in Sessions : t # s => snaps'[t] = snaps[t]
      BY <1>1, <1>2 DEF TakeSnapshot, FileTypes
    <2>3. \A t \in Sessions : DOMAIN snaps[t] \subseteq DOMAIN snaps'[t]
      BY <2>1, <2>2
    <2>4. /\ \A p \in Paths : ws[p] \in Sessions \cup {"old"}
          /\ \A t \in Sessions : \A p \in DOMAIN snaps[t] :
                snaps[t][p] \in Sessions \cup {"old"}
          /\ ses[s].plan.writes \subseteq Paths
      BY <1>1 DEF FileTypes, Content, SessionState, Plan
    <2>5. CoveredBySnapshot'
      BY <1>1, <2>1, <2>3, <2>4 DEF CoveredBySnapshot
    <2>6. ChainCovered'
      BY <1>1, <2>1, <2>2, <2>3, <2>4 DEF CoveredBySnapshot, ChainCovered
    <2> QED
      BY <2>5, <2>6
  <1>3. ASSUME NEW s \in Sessions, NEW p \in Paths, Apply(s, p)
        PROVE  ChainCovered' /\ CoveredBySnapshot'
    <2>1. p \in DOMAIN snaps[s]
      BY <1>1, <1>3 DEF Apply, At, PlaceInv, Running
    <2> QED
      BY <1>1, <1>3, <2>1
      DEF Apply, FileTypes, CoveredBySnapshot, ChainCovered
  <1>4. ASSUME NEW id \in Sessions, ws' = Restored(id), UNCHANGED snaps
        PROVE  ChainCovered' /\ CoveredBySnapshot'
    <2>1. \A p \in Paths :
             \/ ws'[p] = ws[p]
             \/ p \in DOMAIN snaps[id] /\ ws'[p] = snaps[id][p]
      BY <1>4 DEF Restored
    <2> QED
      BY <1>1, <1>4, <2>1 DEF CoveredBySnapshot, ChainCovered
  <1>5. CASE UndoRestores
    <2>1. undo.pc \in {"restore", "t.restore"}
      BY <1>5 DEF UndoRestores
    <2>2. undo.records[undo.at] \in Record
      BY <1>1, <2>1 DEF UndoTypes
    <2>3. PICK id \in Sessions : id = undo.records[undo.at].id
      BY <2>2 DEF Record
    <2>4. ws' = Restored(id) /\ UNCHANGED snaps
      BY <1>5, <2>3 DEF UndoRestores
    <2> QED
      BY <1>4, <2>4
  <1>6. CASE UNCHANGED <<ws, snaps>>
    BY <1>1, <1>6 DEF CoveredBySnapshot, ChainCovered
  <1> QED
    BY <1>2, <1>3, <1>4, <1>5, <1>6
    DEF SessionNext, Begin, Leave, SessionStep, Approve, DryRun, Decline,
        SnapshotFails, RunEnds, RunBreaks, RecordExecuted, RecordFailed,
        RestoreAfterFailure, UndoLast, UndoTicket, UndoTruncates, UndoWrites,
        UndoAppends,
        TicketAppends, UndoDies, ErrorLeaves, ChangeGrant, Crash, sessionVars

-----------------------------------------------------------------------------
(* The workspace.  The operators below take the sessions S, the snapshots  *)
(* N and the records J as parameters: they are used of the journal and of  *)
(* the copy of an undo, in one state and in the next.                      *)

(* The record r is of an execution that is in force and wrote p.           *)
Wrote(S, r, p) ==
    r.outcome = "Executed" /\ ~r.reverted /\ p \in S[r.id].plan.writes

(* w is what the last of the records before n that wrote p left there.     *)
Below(S, J, n, w, p) ==
    \/ w = "old" /\ \A j \in 1 .. Len(J) : j < n => ~Wrote(S, J[j], p)
    \/ \E i \in 1 .. Len(J) :
         /\ i < n /\ Wrote(S, J[i], p) /\ w = J[i].id
         /\ \A j \in 1 .. Len(J) : j < n /\ Wrote(S, J[j], p) => j <= i

(* The workspace w is what the records tell.                               *)
Tells(S, J, w) == \A p \in Paths : Below(S, J, Len(J) + 1, w[p], p)

(* The snapshot of an executed record is what those before it tell.        *)
Chain(S, N, J) ==
    \A i \in 1 .. Len(J) : J[i].outcome = "Executed" =>
       /\ S[J[i].id].pc = "done"
       /\ DOMAIN N[J[i].id] = S[J[i].id].plan.writes
       /\ J[i].snapshot <=> S[J[i].id].plan.writes # {}
       /\ ~J[i].reverted => \A p \in S[J[i].id].plan.writes :
                               Below(S, J, i, N[J[i].id][p], p)

(* Below depends on the records that wrote the path only.                  *)
LEMMA SameBelow ==
    ASSUME NEW S, NEW T, NEW J \in Seq(Record), NEW K \in Seq(Record),
           NEW n \in Nat, NEW m \in Nat, NEW w, NEW p,
           \A j \in Nat :
              (j \in 1 .. Len(J) /\ j < n /\ Wrote(S, J[j], p))
              <=> (j \in 1 .. Len(K) /\ j < m /\ Wrote(T, K[j], p)),
           \A j \in 1 .. Len(J) :
              j < n /\ Wrote(S, J[j], p) => K[j].id = J[j].id,
           Below(S, J, n, w, p)
    PROVE  Below(T, K, m, w, p)
  BY DEF Below

(* A step that leaves the finished sessions alone keeps what the records   *)
(* tell.                                                                   *)
LEMMA ChainKept ==
    ASSUME NEW S, NEW T, NEW N, NEW M, NEW J \in Seq(Record), Chain(S, N, J),
           \A s \in Sessions : S[s].pc = "done" => T[s] = S[s] /\ M[s] = N[s]
    PROVE  /\ \A n \in Nat : \A w, p : Below(S, J, n, w, p) =>
                                          Below(T, J, n, w, p)
           /\ Chain(T, M, J)
  <1>1. \A i \in 1 .. Len(J) : J[i].id \in Sessions
    <2>1. \A i \in 1 .. Len(J) : J[i] \in Record
      OBVIOUS
    <2> QED
      BY <2>1 DEF Record
  <1>2. \A i \in 1 .. Len(J) : J[i].outcome = "Executed" =>
           T[J[i].id] = S[J[i].id] /\ M[J[i].id] = N[J[i].id]
    BY <1>1 DEF Chain
  <1>3. \A i \in 1 .. Len(J) : \A p :
           Wrote(S, J[i], p) <=> Wrote(T, J[i], p)
    BY <1>2 DEF Wrote
  <1>4. ASSUME NEW n \in Nat, NEW w, NEW p, Below(S, J, n, w, p)
        PROVE  Below(T, J, n, w, p)
    BY <1>3, <1>4, SameBelow
  <1>5. ASSUME NEW i \in 1 .. Len(J), J[i].outcome = "Executed"
        PROVE  /\ T[J[i].id].pc = "done"
               /\ DOMAIN M[J[i].id] = T[J[i].id].plan.writes
               /\ J[i].snapshot <=> T[J[i].id].plan.writes # {}
               /\ ~J[i].reverted => \A p \in T[J[i].id].plan.writes :
                                       Below(T, J, i, M[J[i].id][p], p)
    <2>1. T[J[i].id] = S[J[i].id] /\ M[J[i].id] = N[J[i].id]
      BY <1>2, <1>5
    <2>2. /\ S[J[i].id].pc = "done"
          /\ DOMAIN N[J[i].id] = S[J[i].id].plan.writes
          /\ J[i].snapshot <=> S[J[i].id].plan.writes # {}
          /\ ~J[i].reverted => \A p \in S[J[i].id].plan.writes :
                                  Below(S, J, i, N[J[i].id][p], p)
      BY <1>5 DEF Chain
    <2>3. i \in Nat
      OBVIOUS
    <2> QED
      BY <1>4, <2>1, <2>2, <2>3
  <1> QED
    BY <1>4, <1>5 DEF Chain

(* A record that is not of an execution tells nothing.                     *)
LEMMA ChainAppended ==
    ASSUME NEW S, NEW N, NEW J \in Seq(Record), NEW r \in Record,
           Chain(S, N, J), r.outcome # "Executed"
    PROVE  /\ Chain(S, N, Append(J, r))
           /\ \A w : Tells(S, J, w) => Tells(S, Append(J, r), w)
  <1> DEFINE K == Append(J, r)
  <1>1. /\ K \in Seq(Record) /\ Len(K) = Len(J) + 1 /\ Len(J) \in Nat
        /\ \A i \in 1 .. Len(J) : K[i] = J[i]
        /\ K[Len(J) + 1] = r
    OBVIOUS
  <1> HIDE DEF K
  <1>2. \A p : ~Wrote(S, r, p)
    BY DEF Wrote
  <1>3. ASSUME NEW n \in Nat, NEW m \in Nat, NEW w, NEW p,
               n = m \/ (n = Len(J) + 1 /\ m = Len(K) + 1),
               Below(S, J, n, w, p)
        PROVE  Below(S, K, m, w, p)
    <2>1. \A j \in Nat :
             (j \in 1 .. Len(J) /\ j < n /\ Wrote(S, J[j], p))
             <=> (j \in 1 .. Len(K) /\ j < m /\ Wrote(S, K[j], p))
      BY <1>1, <1>2, <1>3
    <2>2. \A j \in 1 .. Len(J) : K[j].id = J[j].id
      BY <1>1
    <2> QED
      BY <1>1, <1>3, <2>1, <2>2, SameBelow
  <1>4. ASSUME NEW i \in 1 .. Len(K), K[i].outcome = "Executed"
        PROVE  /\ i \in 1 .. Len(J) /\ K[i] = J[i]
    BY <1>1, <1>4
  <1>5. ASSUME NEW i \in 1 .. Len(K), K[i].outcome = "Executed"
        PROVE  /\ S[K[i].id].pc = "done"
               /\ DOMAIN N[K[i].id] = S[K[i].id].plan.writes
               /\ K[i].snapshot <=> S[K[i].id].plan.writes # {}
               /\ ~K[i].reverted => \A p \in S[K[i].id].plan.writes :
                                       Below(S, K, i, N[K[i].id][p], p)
    <2>1. i \in 1 .. Len(J) /\ K[i] = J[i] /\ i \in Nat
      BY <1>4, <1>5
    <2> QED
      BY <1>3, <1>5, <2>1 DEF Chain
  <1>6. ASSUME NEW w, Tells(S, J, w) PROVE Tells(S, K, w)
    BY <1>1, <1>3, <1>6 DEF Tells
  <1> QED
    BY <1>5, <1>6 DEF K, Chain

(* The session s ends, from S to T, with its writes applied on v, which    *)
(* gives w, and its record r.                                              *)
Executes(S, T, N, r, s, v, w) ==
    /\ r.id = s /\ r.outcome = "Executed" /\ ~r.reverted
    /\ r.snapshot <=> S[s].plan.writes # {}
    /\ S[s].pc # "done" /\ T[s].pc = "done" /\ T[s].plan = S[s].plan
    /\ \A t \in Sessions : t # s => T[t] = S[t]
    /\ DOMAIN N[s] = S[s].plan.writes /\ S[s].plan.writes \subseteq Paths
    /\ \A p \in Paths : IF p \in S[s].plan.writes
                         THEN v[p] = N[s][p] /\ w[p] = s
                         ELSE w[p] = v[p]

(* The record of an execution tells what it left, and its snapshot what    *)
(* was there.                                                              *)
LEMMA ChainExecuted ==
    ASSUME NEW S, NEW T, NEW N, NEW J \in Seq(Record), NEW r \in Record,
           NEW s \in Sessions, NEW v, NEW w, Chain(S, N, J), Tells(S, J, v),
           Executes(S, T, N, r, s, v, w)
    PROVE  Chain(T, N, Append(J, r)) /\ Tells(T, Append(J, r), w)
  <1>0. /\ r.id = s /\ r.outcome = "Executed" /\ ~r.reverted
        /\ r.snapshot <=> S[r.id].plan.writes # {}
        /\ S[r.id].pc # "done" /\ T[r.id].pc = "done"
        /\ T[r.id].plan = S[r.id].plan
        /\ \A t \in Sessions : t # r.id => T[t] = S[t]
        /\ DOMAIN N[r.id] = S[r.id].plan.writes
        /\ S[r.id].plan.writes \subseteq Paths
        /\ \A p \in Paths : IF p \in S[r.id].plan.writes
                             THEN v[p] = N[r.id][p] /\ w[p] = r.id
                             ELSE w[p] = v[p]
    BY DEF Executes
  <1> DEFINE K == Append(J, r)
  <1>1. /\ K \in Seq(Record) /\ Len(K) = Len(J) + 1 /\ Len(J) \in Nat
        /\ \A i \in 1 .. Len(J) : K[i] = J[i]
        /\ K[Len(J) + 1] = r
    OBVIOUS
  <1> HIDE DEF K
  <1>2. \A t \in Sessions : S[t].pc = "done" => T[t] = S[t]
    BY <1>0
  <1>3. /\ \A n \in Nat : \A x, p : Below(S, J, n, x, p) =>
                                       Below(T, J, n, x, p)
        /\ Chain(T, N, J)
    <2>1. \A t \in Sessions : S[t].pc = "done" => T[t] = S[t] /\ N[t] = N[t]
      BY <1>2
    <2>2. Chain(T, N, J)
      BY <2>1, ChainKept
    <2>3. \A n \in Nat : \A x, p : Below(S, J, n, x, p) =>
                                     Below(T, J, n, x, p)
      BY <2>1, ChainKept
    <2> QED
      BY <2>2, <2>3
  <1>4. \A p : Wrote(T, r, p) <=> p \in S[r.id].plan.writes
    BY <1>0 DEF Wrote
  <1>5. ASSUME NEW n \in Nat, NEW m \in Nat, NEW x, NEW p,
               \/ n = m /\ n <= Len(J) + 1
               \/ /\ n = Len(J) + 1 /\ m = Len(K) + 1
                  /\ p \notin S[r.id].plan.writes,
               Below(T, J, n, x, p)
        PROVE  Below(T, K, m, x, p)
    <2>1. \A j \in Nat :
             (j \in 1 .. Len(J) /\ j < n /\ Wrote(T, J[j], p))
             <=> (j \in 1 .. Len(K) /\ j < m /\ Wrote(T, K[j], p))
      BY <1>1, <1>4, <1>5
    <2>2. \A j \in 1 .. Len(J) : K[j].id = J[j].id
      BY <1>1
    <2> QED
      BY <1>1, <1>5, <2>1, <2>2, SameBelow
  <1>6. ASSUME NEW i \in 1 .. Len(K), K[i].outcome = "Executed"
        PROVE  /\ T[K[i].id].pc = "done"
               /\ DOMAIN N[K[i].id] = T[K[i].id].plan.writes
               /\ K[i].snapshot <=> T[K[i].id].plan.writes # {}
               /\ ~K[i].reverted => \A p \in T[K[i].id].plan.writes :
                                       Below(T, K, i, N[K[i].id][p], p)
    <2>1. CASE i \in 1 .. Len(J)
      <3>1. K[i] = J[i] /\ i \in Nat /\ i <= Len(J) + 1
        BY <1>1, <2>1
      <3> QED
        BY <1>3, <1>5, <1>6, <2>1, <3>1 DEF Chain
    <2>2. CASE i = Len(J) + 1
      <3>1. K[i] = r /\ i \in Nat
        BY <1>1, <2>2
      <3>2. ASSUME NEW p \in S[r.id].plan.writes
            PROVE  Below(T, K, i, N[r.id][p], p)
        <4>1. p \in Paths /\ v[p] = N[r.id][p]
          BY <1>0
        <4>2. Below(S, J, Len(J) + 1, N[r.id][p], p)
          BY <4>1 DEF Tells
        <4>3. Below(T, J, i, N[r.id][p], p)
          BY <1>1, <1>3, <2>2, <4>2
        <4> QED
          BY <1>5, <2>2, <3>1, <4>3
      <3> QED
        BY <1>0, <3>1, <3>2
    <2> QED
      BY <1>1, <2>1, <2>2
  <1>7. Chain(T, N, K)
    BY <1>6 DEF Chain
  <1>8. ASSUME NEW p \in Paths PROVE Below(T, K, Len(K) + 1, w[p], p)
    <2>1. CASE p \in S[r.id].plan.writes
      <3>1. /\ Len(J) + 1 \in 1 .. Len(K) /\ Len(J) + 1 < Len(K) + 1
            /\ \A j \in 1 .. Len(K) : j <= Len(J) + 1
        BY <1>1
      <3>2. Wrote(T, K[Len(J) + 1], p) /\ w[p] = K[Len(J) + 1].id
        BY <1>0, <1>1, <1>4, <2>1
      <3> QED
        BY <3>1, <3>2 DEF Below
    <2>2. CASE p \notin S[r.id].plan.writes
      <3>1. Below(S, J, Len(J) + 1, v[p], p) /\ w[p] = v[p]
        BY <1>0, <2>2 DEF Tells
      <3>2. Below(T, J, Len(J) + 1, w[p], p)
        BY <1>1, <1>3, <3>1
      <3>3. Len(J) + 1 \in Nat /\ Len(K) + 1 \in Nat
        BY <1>1
      <3> QED
        BY <1>5, <2>2, <3>2, <3>3
    <2> QED
      BY <2>1, <2>2
  <1> QED
    BY <1>7, <1>8 DEF K, Tells

(* The last record to undo, a, is taken back: the records go from J to K   *)
(* and the workspace from w to v.                                          *)
TakesBack(N, J, K, a, w, v) ==
    /\ Undoable(J[a]) /\ \A j \in 1 .. Len(J) : Undoable(J[j]) => j <= a
    /\ Len(K) = Len(J) /\ \A j \in 1 .. Len(J) : j # a => K[j] = J[j]
    /\ K[a] = [J[a] EXCEPT !.reverted = TRUE]
    /\ \A p \in Paths : v[p] = IF p \in DOMAIN N[J[a].id]
                                THEN N[J[a].id][p] ELSE w[p]

(* Taking back the last execution leaves what the others tell.             *)
LEMMA ChainReverted ==
    ASSUME NEW S, NEW N, NEW J \in Seq(Record), NEW a \in 1 .. Len(J),
           NEW K \in Seq(Record), NEW v, NEW w, Chain(S, N, J),
           Tells(S, J, w), TakesBack(N, J, K, a, w, v)
    PROVE  /\ Chain(S, N, K) /\ Tells(S, K, v)
           /\ \A j \in 1 .. Len(J) :
                 Undoable(K[j]) <=> Undoable(J[j]) /\ j # a
  <1> USE DEF TakesBack
  <1>1. Len(J) \in Nat /\ a \in Nat /\ J[a] \in Record
    OBVIOUS
  <1>2. /\ K[a].reverted = TRUE /\ K[a].id = J[a].id
        /\ K[a].outcome = J[a].outcome /\ K[a].snapshot = J[a].snapshot
    BY <1>1 DEF Record
  <1>3. J[a].outcome = "Executed" /\ ~J[a].reverted
    BY DEF Undoable
  <1>4. \A j \in 1 .. Len(J) : \A p :
           Wrote(S, K[j], p) <=> Wrote(S, J[j], p) /\ j # a
    BY <1>2 DEF Wrote
  <1>5. \A j \in 1 .. Len(J) : \A p : Wrote(S, J[j], p) => j <= a
    BY DEF Wrote, Chain, Undoable
  <1>6. \A j \in 1 .. Len(J) : K[j].id = J[j].id
    BY <1>2
  <1>7. ASSUME NEW n \in Nat, NEW m \in Nat, NEW x, NEW p,
               \/ n = m /\ (n <= a \/ ~Wrote(S, J[a], p))
               \/ n = a /\ m = Len(J) + 1,
               Below(S, J, n, x, p)
        PROVE  Below(S, K, m, x, p)
    <2>1. \A j \in Nat :
             (j \in 1 .. Len(J) /\ j < n /\ Wrote(S, J[j], p))
             <=> (j \in 1 .. Len(K) /\ j < m /\ Wrote(S, K[j], p))
      <3>1. CASE n = m /\ (n <= a \/ ~Wrote(S, J[a], p))
        BY <1>1, <1>4, <3>1
      <3>2. CASE n = a /\ m = Len(J) + 1
        <4>1. \A j \in 1 .. Len(J) :
                 (j < a /\ Wrote(S, J[j], p)) <=> Wrote(S, K[j], p)
          BY <1>1, <1>4, <1>5
        <4>2. \A j \in 1 .. Len(J) : j < m
          BY <1>1, <3>2
        <4> QED
          BY <3>2, <4>1, <4>2
      <3> QED
        BY <1>7, <3>1, <3>2
    <2> QED
      BY <1>6, <1>7, <2>1, SameBelow
  <1>8. ASSUME NEW i \in 1 .. Len(K), K[i].outcome = "Executed"
        PROVE  /\ S[K[i].id].pc = "done"
               /\ DOMAIN N[K[i].id] = S[K[i].id].plan.writes
               /\ K[i].snapshot <=> S[K[i].id].plan.writes # {}
               /\ ~K[i].reverted => \A p \in S[K[i].id].plan.writes :
                                       Below(S, K, i, N[K[i].id][p], p)
    <2>1. CASE i = a
      BY <1>2, <1>3, <2>1 DEF Chain
    <2>2. CASE i # a
      <3>1. K[i] = J[i] /\ i \in Nat /\ i \in 1 .. Len(J)
        BY <2>2
      <3>2. ASSUME ~J[i].reverted, NEW p \in S[J[i].id].plan.writes
            PROVE  Below(S, K, i, N[J[i].id][p], p)
        <4>1. Wrote(S, J[i], p)
          BY <1>8, <3>1, <3>2 DEF Wrote
        <4>2. i <= a
          BY <1>5, <3>1, <4>1
        <4>3. Below(S, J, i, N[J[i].id][p], p)
          BY <1>8, <3>1, <3>2 DEF Chain
        <4> QED
          BY <1>7, <3>1, <4>2, <4>3
      <3> QED
        BY <1>8, <3>1, <3>2 DEF Chain
    <2> QED
      BY <2>1, <2>2
  <1>9. ASSUME NEW p \in Paths PROVE Below(S, K, Len(K) + 1, v[p], p)
    <2>1. DOMAIN N[J[a].id] = S[J[a].id].plan.writes
      BY <1>3 DEF Chain
    <2>2. Len(K) + 1 \in Nat /\ Len(K) + 1 = Len(J) + 1
      BY <1>1
    <2>3. CASE p \in S[J[a].id].plan.writes
      <3>1. v[p] = N[J[a].id][p]
        BY <2>1, <2>3
      <3>2. Below(S, J, a, v[p], p)
        BY <1>3, <2>3, <3>1 DEF Chain
      <3> QED
        BY <1>1, <1>7, <2>2, <3>2
    <2>4. CASE p \notin S[J[a].id].plan.writes
      <3>1. v[p] = w[p] /\ ~Wrote(S, J[a], p)
        BY <2>1, <2>4 DEF Wrote
      <3>2. Below(S, J, Len(J) + 1, v[p], p)
        BY <3>1 DEF Tells
      <3> QED
        BY <1>7, <2>2, <3>1, <3>2
    <2> QED
      BY <2>3, <2>4
  <1>10. \A j \in 1 .. Len(J) : Undoable(K[j]) <=> Undoable(J[j]) /\ j # a
    BY <1>2 DEF Undoable
  <1> QED
    BY <1>8, <1>9, <1>10 DEF Chain, Tells

(* Tells looks at the content of the paths only.                           *)
LEMMA TellsSame ==
    ASSUME NEW S, NEW J, NEW v, NEW w, Tells(S, J, v),
           \A p \in Paths : w[p] = v[p]
    PROVE  Tells(S, J, w)
  BY DEF Tells

(* A step of one session that records no execution.                        *)
LEMMA ChainRecord ==
    ASSUME NEW S, NEW T, NEW N, NEW M, NEW J \in Seq(Record), NEW K, NEW v,
           NEW s \in Sessions, Chain(S, N, J), Tells(S, J, v),
           S[s].pc # "done",
           \A t \in Sessions : t # s => T[t] = S[t] /\ M[t] = N[t],
           \/ K = J
           \/ \E r \in Record : r.outcome # "Executed" /\ K = Append(J, r)
    PROVE  Chain(T, M, K) /\ Tells(T, K, v)
  <1>1. \A t \in Sessions : S[t].pc = "done" => T[t] = S[t] /\ M[t] = N[t]
    OBVIOUS
  <1>2. Chain(T, M, J)
    BY <1>1, ChainKept
  <1>3. \A n \in Nat : \A w, p : Below(S, J, n, w, p) => Below(T, J, n, w, p)
    BY <1>1, ChainKept
  <1>4. Tells(T, J, v)
    <2>1. Len(J) + 1 \in Nat
      OBVIOUS
    <2> QED
      BY <1>3, <2>1 DEF Tells
  <1>5. CASE K = J
    BY <1>2, <1>4, <1>5
  <1>6. ASSUME NEW r \in Record, r.outcome # "Executed", K = Append(J, r)
        PROVE  Chain(T, M, K) /\ Tells(T, K, v)
    BY <1>2, <1>4, <1>6, ChainAppended
  <1> QED
    BY <1>5, <1>6

(* A session that has begun and not ended.                                 *)
UnderWay(s) == ses[s].pc \notin {"new", "done"}

(* The records that tell: an undo goes by its copy.                        *)
InForce == IF Undoing THEN undo.records ELSE journal

(* One at a time.                                                          *)
OneInv ==
    /\ Active => ~Undoing
    /\ \A s, t \in Sessions : UnderWay(s) /\ UnderWay(t) => s = t

(* The records tell the workspace, without what the session that runs has  *)
(* written so far.                                                         *)
ToldInv ==
    /\ Chain(ses, snaps, InForce)
    /\ \A s \in Sessions : Running(s) => Tells(ses, journal, Restored(s))
    /\ (\A s \in Sessions : ~Running(s)) => Tells(ses, InForce, ws)

(* What a session that runs has written so far.                            *)
WrittenInv ==
    \A s \in Sessions :
        /\ ses[s].pc = "run" =>
              \A p \in ses[s].plan.writes \ ses[s].todo : ws[p] = s
        /\ ses[s].pc = "ran" => \A p \in ses[s].plan.writes : ws[p] = s

(* undo is at the last record there is to undo, and undo --ticket has all  *)
(* of them to do when nothing of another intent lies above.                *)
TurnInv ==
    /\ undo.pc = "restore" =>
          /\ Undoable(undo.records[undo.at])
          /\ \A j \in 1 .. Len(undo.records) :
                Undoable(undo.records[j]) => j <= undo.at
    /\ undo.pc \in {"t.restore", "t.append"} =>
          undo.todo = {j \in 1 .. Len(undo.records) :
                          Undoable(undo.records[j])}
    /\ undo.pc = "t.restore" => \A j \in undo.todo : j <= undo.at
    /\ undo.pc \in {"write", "t.write"} => journal = <<>>
    /\ undo.pc = "append" => journal = undo.records

(* All of this as long as nothing disturbs.                                *)
AloneInv ==
    events \subseteq {"ticket"} => OneInv /\ ToldInv /\ WrittenInv /\ TurnInv

(* The history of disturbances only grows.                                 *)
LEMMA EventsGrow == [SessionNext]_sessionVars => events \subseteq events'
  BY DEF SessionNext, Begin, Leave, SessionStep, Approve, DryRun, Decline,
      TakeSnapshot, SnapshotFails, Apply, RunEnds, RunBreaks, RecordExecuted,
      RecordFailed, RestoreAfterFailure, UndoLast, UndoTicket, UndoRestores,
      UndoTruncates, UndoWrites, UndoAppends, TicketAppends, UndoDies,
      ErrorLeaves, ChangeGrant,
      Crash, sessionVars, env, NoteOverlap, Note

(* What every step of a session that is alone amounts to, but for the      *)
(* record of its execution: v is the workspace without what it has written *)
(* and stays so.                                                           *)
LEMMA SessionTold ==
    ASSUME Types, NEW s \in Sessions, NEW v, Chain(ses, snaps, journal),
           Tells(ses, journal, v), ses[s].pc # "done",
           \A t \in Sessions : t # s => ~Running(t),
           \A t \in Sessions :
              t # s => ses'[t] = ses[t] /\ snaps'[t] = snaps[t],
           \/ journal' = journal
           \/ \E r \in Record :
                r.outcome # "Executed" /\ journal' = Append(journal, r),
           ~Undoing, undo' = undo,
           Running(s)' => \A p \in Paths : Restored(s)'[p] = v[p],
           ~Running(s)' => \A p \in Paths : ws'[p] = v[p]
    PROVE  ToldInv'
  <1>1. journal \in Seq(Record)
    BY DEF Types
  <1>2. Chain(ses', snaps', journal') /\ Tells(ses', journal', v)
    <2>1. PICK K, T, M : K = journal' /\ T = ses' /\ M = snaps'
      OBVIOUS
    <2>2. \A t \in Sessions : t # s => T[t] = ses[t] /\ M[t] = snaps[t]
      BY <2>1
    <2>3. \/ K = journal
          \/ \E r \in Record : r.outcome # "Executed" /\ K = Append(journal, r)
      BY <2>1
    <2>4. Chain(T, M, K) /\ Tells(T, K, v)
      BY <1>1, <2>2, <2>3, ChainRecord, Z3
    <2> QED
      BY <2>1, <2>4
  <1>3. InForce' = journal'
    BY DEF InForce, Undoing
  <1>4. \A t \in Sessions : t # s => ~Running(t)'
    BY DEF Running
  <1>5. Running(s)' => Tells(ses', journal', Restored(s)')
    BY <1>2, TellsSame
  <1>6. ~Running(s)' => Tells(ses', journal', ws')
    BY <1>2, TellsSame
  <1>7. Chain(ses, snaps, InForce)'
    BY <1>2, <1>3
  <1>8. \A t \in Sessions : Running(t)' => Tells(ses, journal, Restored(t))'
    BY <1>4, <1>5
  <1>9. (\A t \in Sessions : ~Running(t)') => Tells(ses, InForce, ws)'
    BY <1>3, <1>6
  <1> QED
    BY <1>7, <1>8, <1>9 DEF ToldInv

(* A session that is alone, from its gate to its end.                      *)
LEMMA SessionAlone ==
    ASSUME Types, SnapInv, OneInv, ToldInv, WrittenInv, ~Undoing,
           NEW s \in Sessions,
           SessionStep(s) \/ Leave(s) \/ (At(s, "gate") /\ ErrorLeaves(s))
    PROVE  ToldInv' /\ WrittenInv'
  <1>1. /\ ses \in [Sessions -> SessionState] /\ FileTypes
        /\ journal \in Seq(Record) /\ PlaceInv
    BY DEF Types, SnapInv
  <1>2. UnderWay(s)
    BY DEF UnderWay, SessionStep, Approve, DryRun, Decline, TakeSnapshot,
        SnapshotFails, Apply, RunEnds, RunBreaks, RecordExecuted,
        RecordFailed, RestoreAfterFailure, ErrorLeaves, Leave, At
  <1>3. \A t \in Sessions : t # s => ~UnderWay(t)
    BY <1>2 DEF OneInv
  <1>4. \A t \in Sessions : t # s =>
           ~Running(t) /\ ses[t].pc \notin {"run", "ran"}
    BY <1>3 DEF UnderWay, Running
  <1>5. ses[s].pc # "done"
    BY <1>2 DEF UnderWay
  <1>6. \A t \in Sessions : t # s => ses'[t] = ses[t] /\ snaps'[t] = snaps[t]
    BY <1>1
    DEF SessionStep, Approve, DryRun, Decline, TakeSnapshot, SnapshotFails,
        Apply, RunEnds, RunBreaks, RecordExecuted, RecordFailed,
        RestoreAfterFailure, ErrorLeaves, Leave, Finish, GoTo, FileTypes
  <1>7. undo' = undo
    BY DEF SessionStep, Approve, DryRun, Decline, TakeSnapshot, SnapshotFails,
        Apply, RunEnds, RunBreaks, RecordExecuted, RecordFailed,
        RestoreAfterFailure, ErrorLeaves, Leave
  <1>8. Chain(ses, snaps, journal)
    BY DEF ToldInv, InForce
  <1>9. /\ Running(s) => Tells(ses, journal, Restored(s))
        /\ ~Running(s) => Tells(ses, journal, ws)
    BY <1>4 DEF ToldInv, InForce
  <1>10. /\ ses[s].pc = "run" =>
               \A p \in ses[s].plan.writes \ ses[s].todo : ws[p] = s
         /\ ses[s].pc = "ran" => \A p \in ses[s].plan.writes : ws[p] = s
    BY DEF WrittenInv
  <1>11. WrittenInv'
    <2> SUFFICES /\ ses'[s].pc = "run" =>
                      \A p \in ses'[s].plan.writes \ ses'[s].todo : ws'[p] = s
                 /\ ses'[s].pc = "ran" =>
                      \A p \in ses'[s].plan.writes : ws'[p] = s
      BY <1>4, <1>6 DEF WrittenInv
    <2>1. CASE TakeSnapshot(s)
      BY <1>1, <2>1 DEF TakeSnapshot, SessionState
    <2>2. ASSUME NEW p \in Paths, Apply(s, p)
          PROVE  /\ ses'[s].pc = "run" =>
                      \A q \in ses'[s].plan.writes \ ses'[s].todo : ws'[q] = s
                 /\ ses'[s].pc = "ran" =>
                      \A q \in ses'[s].plan.writes : ws'[q] = s
      <3>1. /\ ses[s].pc = "run" /\ ses'[s].pc = "run"
            /\ ses'[s].plan = ses[s].plan /\ ses'[s].todo = ses[s].todo \ {p}
            /\ ws' = [ws EXCEPT ![p] = s]
        BY <1>1, <2>2 DEF Apply, At, SessionState
      <3>2. ses[s].plan.writes \subseteq Paths
        BY <1>1 DEF SessionState, Plan
      <3>3. \A q \in Paths : ws'[q] = IF q = p THEN s ELSE ws[q]
        BY <1>1, <3>1 DEF FileTypes
      <3> QED
        BY <1>10, <3>1, <3>2, <3>3
    <2>3. CASE RunEnds(s)
      BY <1>1, <1>10, <2>3 DEF RunEnds, At, GoTo, SessionState
    <2>4. CASE ses'[s].pc \notin {"run", "ran"}
      BY <2>4
    <2> QED
      BY <1>1, <2>1, <2>2, <2>3, <2>4
      DEF SessionStep, Approve, DryRun, Decline, SnapshotFails, RunBreaks,
          RecordExecuted, RecordFailed, RestoreAfterFailure, ErrorLeaves,
          Leave, Finish,
          GoTo, At, SessionState
  <1>12. CASE TakeSnapshot(s)
    <2>1. /\ ses[s].pc = "snapshot" /\ ses'[s].pc = "run"
          /\ ws' = ws /\ journal' = journal
      BY <1>1, <1>12 DEF TakeSnapshot, At, SessionState
    <2>2. /\ DOMAIN snaps'[s] = ses[s].plan.writes
          /\ \A p \in ses[s].plan.writes : snaps'[s][p] = ws[p]
      BY <1>1, <1>12 DEF TakeSnapshot, FileTypes
    <2>3. PICK v : v = ws
      OBVIOUS
    <2>4. \A p \in Paths : Restored(s)'[p] = v[p]
      BY <2>1, <2>2, <2>3 DEF Restored
    <2>5. ~Running(s) /\ Running(s)'
      BY <2>1 DEF Running
    <2> QED
      BY <1>4, <1>5, <1>6, <1>7, <1>8, <1>9, <1>11, <2>1, <2>3, <2>4, <2>5,
         SessionTold
  <1>13. CASE \/ \E p \in Paths : Apply(s, p)
              \/ RunEnds(s) \/ RunBreaks(s)
    <2>1. /\ ses[s].pc = "run" /\ ses'[s].pc \in {"run", "ran", "broke"}
          /\ journal' = journal /\ snaps' = snaps
      BY <1>1, <1>13 DEF Apply, RunEnds, RunBreaks, At, GoTo, SessionState
    <2>2. Running(s) /\ Running(s)'
      BY <2>1 DEF Running
    <2>3. \A p \in Paths : p \notin DOMAIN snaps[s] => ws'[p] = ws[p]
      <3>1. ses[s].todo \subseteq DOMAIN snaps[s]
        BY <1>1, <2>1, <2>2 DEF PlaceInv
      <3> QED
        BY <1>1, <1>13, <3>1 DEF Apply, RunEnds, RunBreaks, FileTypes
    <2>4. PICK v : v = Restored(s)
      OBVIOUS
    <2>5. \A p \in Paths : Restored(s)'[p] = v[p]
      BY <2>1, <2>3, <2>4 DEF Restored
    <2> QED
      BY <1>4, <1>5, <1>6, <1>7, <1>8, <1>9, <1>11, <2>1, <2>2, <2>4, <2>5,
         SessionTold
  <1>14. CASE RecordExecuted(s)
    <2>1. /\ ses[s].pc = "ran" /\ ses'[s].pc = "done"
          /\ ses'[s].plan = ses[s].plan
          /\ ws' = ws /\ snaps' = snaps
          /\ journal' = Append(journal,
                               NewRecord(s, "Executed", HasSnapshot(s)))
      BY <1>1, <1>14
      DEF RecordExecuted, Appended, At, Finish, GoTo, SessionState
    <2>2. PICK r : r = NewRecord(s, "Executed", HasSnapshot(s))
      OBVIOUS
    <2>3. /\ r \in Record /\ r.id = s /\ r.outcome = "Executed"
          /\ r.reverted = FALSE
          /\ r.snapshot <=> ses[s].plan.writes # {}
      <3>1. ses[s].plan.ticket \in BOOLEAN
        BY <1>1 DEF SessionState, Plan
      <3> QED
        BY <2>2, <3>1 DEF NewRecord, HasSnapshot, Record, Outcome
    <2>4. Running(s) /\ ~Running(s)'
      BY <2>1 DEF Running
    <2>5. DOMAIN snaps[s] = ses[s].plan.writes
      BY <1>1, <2>4 DEF PlaceInv
    <2>6. ses[s].plan.writes \subseteq Paths
      BY <1>1 DEF SessionState, Plan
    <2>7. PICK v : v = Restored(s)
      OBVIOUS
    <2>8. \A p \in Paths : IF p \in ses[s].plan.writes
                           THEN v[p] = snaps[s][p] /\ ws[p] = s
                           ELSE ws[p] = v[p]
      BY <1>10, <2>1, <2>5, <2>7 DEF Restored
    <2>9. Tells(ses, journal, v)
      BY <1>9, <2>4, <2>7
    <2>10. PICK T : T = ses'
      OBVIOUS
    <2>11. /\ T[s].pc = "done" /\ T[s].plan = ses[s].plan
           /\ \A t \in Sessions : t # s => T[t] = ses[t]
      BY <1>6, <2>1, <2>10
    <2>12. /\ Chain(T, snaps, Append(journal, r))
           /\ Tells(T, Append(journal, r), ws)
      <3>1. Executes(ses, T, snaps, r, s, v, ws)
        BY <1>5, <2>3, <2>5, <2>6, <2>8, <2>11 DEF Executes
      <3> QED
        BY <1>1, <1>8, <2>3, <2>9, <3>1, ChainExecuted
    <2>13. Chain(ses', snaps', journal') /\ Tells(ses', journal', ws')
      BY <2>1, <2>2, <2>10, <2>12
    <2>14. InForce' = journal'
      BY <1>7 DEF InForce, Undoing
    <2>15. \A t \in Sessions : ~Running(t)'
      BY <1>4, <1>6, <2>4 DEF Running
    <2>16. ToldInv'
      BY <2>13, <2>14, <2>15 DEF ToldInv
    <2> QED
      BY <1>11, <2>16
  <1>15. CASE RecordFailed(s)
    <2>1. /\ ses[s].pc = "broke" /\ ses'[s].pc \in {"restore", "done"}
          /\ ses'[s].pc = "done" => ses[s].plan.writes = {}
          /\ ws' = ws /\ snaps' = snaps
          /\ journal' = Append(journal,
                               NewRecord(s, "Failed", HasSnapshot(s)))
      BY <1>1, <1>15
      DEF RecordFailed, Appended, At, Finish, GoTo, HasSnapshot, SessionState
    <2>2. PICK r : r = NewRecord(s, "Failed", HasSnapshot(s))
      OBVIOUS
    <2>3. r \in Record /\ r.outcome # "Executed"
      <3>1. ses[s].plan.ticket \in BOOLEAN
        BY <1>1 DEF SessionState, Plan
      <3> QED
        BY <2>2, <3>1 DEF NewRecord, HasSnapshot, Record, Outcome
    <2>4. Running(s) /\ (~Running(s)' => ses[s].plan.writes = {})
      BY <2>1 DEF Running
    <2>5. DOMAIN snaps[s] = ses[s].plan.writes
      BY <1>1, <2>4 DEF PlaceInv
    <2>6. PICK v : v = Restored(s)
      OBVIOUS
    <2>7. \A p \in Paths : Restored(s)'[p] = v[p]
      BY <2>1, <2>6 DEF Restored
    <2>8. ~Running(s)' => \A p \in Paths : ws'[p] = v[p]
      BY <2>1, <2>4, <2>5, <2>6 DEF Restored
    <2>9. Tells(ses, journal, v)
      BY <1>9, <2>4, <2>6
    <2>10. \E q \in Record :
              q.outcome # "Executed" /\ journal' = Append(journal, q)
      BY <2>1, <2>2, <2>3
    <2> QED
      BY <1>4, <1>5, <1>6, <1>7, <1>8, <1>11, <2>7, <2>8, <2>9, <2>10,
         SessionTold
  <1>16. CASE RestoreAfterFailure(s)
    <2>1. /\ ses[s].pc = "restore" /\ ses'[s].pc = "done"
          /\ ws' = Restored(s) /\ journal' = journal
      BY <1>1, <1>16
      DEF RestoreAfterFailure, At, Finish, GoTo, SessionState
    <2>2. Running(s) /\ ~Running(s)'
      BY <2>1 DEF Running
    <2>3. PICK v : v = Restored(s)
      OBVIOUS
    <2>4. Tells(ses, journal, v) /\ \A p \in Paths : ws'[p] = v[p]
      BY <1>9, <2>1, <2>2, <2>3
    <2> QED
      BY <1>4, <1>5, <1>6, <1>7, <1>8, <1>11, <2>1, <2>2, <2>4, SessionTold
  <1>17. CASE \/ Approve(s) \/ DryRun(s) \/ Decline(s) \/ SnapshotFails(s)
              \/ Leave(s) \/ (At(s, "gate") /\ ErrorLeaves(s))
    <2>1. /\ ses[s].pc \in {"gate", "snapshot"}
          /\ ses'[s].pc \in {"gate", "snapshot", "done"}
          /\ ws' = ws
          /\ \/ journal' = journal
             \/ journal' = Append(journal, NewRecord(s, "Cancelled", FALSE))
      BY <1>1, <1>17
      DEF Approve, DryRun, Decline, SnapshotFails, Leave, ErrorLeaves, At,
          Finish, GoTo,
          Appended, SessionState
    <2>2. NewRecord(s, "Cancelled", FALSE) \in Record
          /\ NewRecord(s, "Cancelled", FALSE).outcome # "Executed"
      <3>1. ses[s].plan.ticket \in BOOLEAN
        BY <1>1 DEF SessionState, Plan
      <3> QED
        BY <3>1 DEF NewRecord, Record, Outcome
    <2>3. \/ journal' = journal
          \/ \E q \in Record :
                q.outcome # "Executed" /\ journal' = Append(journal, q)
      BY <2>1, <2>2
    <2>4. ~Running(s) /\ ~Running(s)'
      BY <2>1 DEF Running
    <2>5. PICK v : v = ws
      OBVIOUS
    <2>6. Tells(ses, journal, v) /\ \A p \in Paths : ws'[p] = v[p]
      BY <1>9, <2>1, <2>4, <2>5
    <2> QED
      BY <1>4, <1>5, <1>6, <1>7, <1>8, <1>11, <2>3, <2>4, <2>6, SessionTold
  <1> QED
    BY <1>12, <1>13, <1>14, <1>15, <1>16, <1>17 DEF SessionStep

(* A session that begins with nothing under way.                           *)
LEMMA BeginAlone ==
    ASSUME Types, SnapInv, OneInv, ToldInv, WrittenInv, TurnInv, ~Undoing,
           ~Active, NEW s \in Sessions, NEW plan \in Plans, Begin(s, plan)
    PROVE  OneInv' /\ ToldInv' /\ WrittenInv' /\ TurnInv'
  <1>1. /\ ses \in [Sessions -> SessionState] /\ journal \in Seq(Record)
        /\ plan.ticket \in BOOLEAN
    BY SessionAssumption DEF Types, Plan
  <1>2. /\ ses[s].pc = "new" /\ ses'[s].pc \in {"gate", "done"}
        /\ ws' = ws /\ snaps' = snaps /\ undo' = undo
        /\ \A t \in Sessions : t # s => ses'[t] = ses[t]
    BY <1>1 DEF Begin, At, SessionState
  <1>3. \A t \in Sessions : ~UnderWay(t)
    BY DEF Active, UnderWay
  <1>4. \A t \in Sessions : ~Running(t) /\ ses[t].pc \notin {"run", "ran"}
    BY <1>3 DEF UnderWay, Running
  <1>5. ~Running(s)' /\ ses'[s].pc \notin {"run", "ran"}
    BY <1>2 DEF Running
  <1>6. Chain(ses, snaps, journal) /\ Tells(ses, journal, ws)
    BY <1>4 DEF ToldInv, InForce
  <1>7. \/ journal' = journal
        \/ \E r \in Record :
              r.outcome # "Executed" /\ journal' = Append(journal, r)
    <2>1. PICK q : q = [NewRecord(s, "Denied", FALSE)
                          EXCEPT !.ticket = plan.ticket]
      OBVIOUS
    <2>2. ses[s].plan.ticket \in BOOLEAN
      BY <1>1 DEF SessionState, Plan
    <2>3. q \in Record /\ q.outcome = "Denied"
      BY <1>1, <2>1, <2>2 DEF NewRecord, Record, Outcome
    <2>4. journal' = journal \/ journal' = Append(journal, q)
      BY <2>1 DEF Begin, Appended
    <2> QED
      BY <2>3, <2>4
  <1>8. ToldInv'
    <2>1. PICK v : v = ws
      OBVIOUS
    <2>2. Tells(ses, journal, v) /\ \A p \in Paths : ws'[p] = v[p]
      BY <1>2, <1>6, <2>1
    <2>3. \A t \in Sessions : t # s => ses'[t] = ses[t] /\ snaps'[t] = snaps[t]
      BY <1>2
    <2> QED
      BY <1>2, <1>4, <1>5, <1>6, <1>7, <2>2, <2>3, SessionTold
  <1>9. WrittenInv'
    BY <1>2, <1>4, <1>5 DEF WrittenInv
  <1>10. OneInv'
    BY <1>2, <1>3 DEF OneInv, UnderWay, Undoing
  <1>11. TurnInv'
    BY <1>2 DEF TurnInv, Undoing
  <1> QED
    BY <1>8, <1>9, <1>10, <1>11

(* undo with nothing else under way.                                       *)
LEMMA UndoAlone ==
    ASSUME Types, OneInv, ToldInv, TurnInv, ~Active, "below" \notin events',
           \/ UndoLast \/ UndoTicket \/ UndoRestores \/ UndoTruncates
           \/ \E over \in 0 .. Len(journal) : UndoWrites(over)
           \/ UndoAppends \/ TicketAppends
    PROVE  OneInv' /\ ToldInv' /\ WrittenInv' /\ TurnInv'
  <1>1. journal \in Seq(Record) /\ UndoTypes
    BY DEF Types
  <1>2. ses' = ses /\ snaps' = snaps
    BY DEF UndoLast, UndoTicket, UndoRestores, UndoTruncates, UndoWrites,
        UndoAppends, TicketAppends
  <1>3. \A t \in Sessions : ~UnderWay(t)
    BY DEF Active, UnderWay
  <1>4. \A t \in Sessions : ~Running(t) /\ ses[t].pc \notin {"run", "ran"}
    BY <1>3 DEF UnderWay, Running
  <1>5. WrittenInv' /\ ~Active'
    BY <1>2, <1>3, <1>4 DEF WrittenInv, Active, UnderWay
  <1>6. OneInv'
    BY <1>2, <1>3, <1>5 DEF OneInv, UnderWay
  <1>7. Chain(ses, snaps, InForce) /\ Tells(ses, InForce, ws)
    BY <1>4 DEF ToldInv
  <1>8. ASSUME Chain(ses, snaps, InForce'), Tells(ses, InForce', ws')
        PROVE  ToldInv'
    <2>1. \A t \in Sessions : ~Running(t)'
      BY <1>2, <1>4 DEF Running
    <2>2. Chain(ses, snaps, InForce)' /\ Tells(ses, InForce, ws)'
      BY <1>2, <1>8
    <2> QED
      BY <2>1, <2>2 DEF ToldInv
  <1>9. CASE UndoLast
    <2>1. PICK i \in DOMAIN journal :
             /\ Undoable(journal[i])
             /\ \A j \in DOMAIN journal : Undoable(journal[j]) => j <= i
             /\ undo' = [pc |-> "restore", records |-> journal, todo |-> {i},
                         at |-> i]
      BY <1>9 DEF UndoLast
    <2>2. ~Undoing /\ ws' = ws /\ journal' = journal
      BY <1>9 DEF UndoLast, CanUndo
    <2>3. InForce' = InForce
      BY <2>1, <2>2 DEF InForce, Undoing
    <2>4. TurnInv'
      BY <1>1, <2>1 DEF TurnInv
    <2> QED
      BY <1>5, <1>6, <1>7, <1>8, <2>2, <2>3, <2>4
  <1>10. CASE UndoTicket
    <2> DEFINE mine == {i \in DOMAIN journal :
                           Undoable(journal[i]) /\ journal[i].ticket}
    <2>1. /\ undo' = IF mine = {}
                     THEN [UndoIdle EXCEPT !.pc = "t.truncate",
                                           !.records = journal]
                     ELSE [pc |-> "t.restore", records |-> journal,
                           todo |-> mine, at |-> NextOf(mine)]
          /\ events' = events \cup ({"ticket"}
                \cup (IF Active THEN {"overlap"} ELSE {})
                \cup (IF mine # {} /\ \E i \in DOMAIN journal \ mine :
                                          Undoable(journal[i])
                      THEN {"below"} ELSE {}))
      BY <1>10 DEF UndoTicket, Note
    <2>2. mine # {} => mine = {j \in 1 .. Len(journal) : Undoable(journal[j])}
      BY <1>1, <2>1
    <2>3. mine \in SUBSET (1 .. Len(journal)) /\ Len(journal) \in Nat
      BY <1>1
    <2> HIDE DEF mine
    <2>4. mine # {} => \A j \in mine : j <= NextOf(mine)
      BY <2>3, MaxFacts DEF NextOf
    <2>5. ~Undoing /\ ws' = ws /\ journal' = journal
      BY <1>10 DEF UndoTicket, CanUndo
    <2>8. /\ undo'.records = journal
          /\ undo'.pc = IF mine = {} THEN "t.truncate" ELSE "t.restore"
          /\ mine # {} => undo'.todo = mine /\ undo'.at = NextOf(mine)
      BY <2>1 DEF UndoIdle
    <2>6. InForce' = InForce
      BY <2>5, <2>8 DEF InForce, Undoing
    <2>7. TurnInv'
      BY <2>2, <2>4, <2>8 DEF TurnInv
    <2> QED
      BY <1>5, <1>6, <1>7, <1>8, <2>5, <2>6, <2>7
  <1>11. CASE UndoRestores
    <2>1. undo.pc \in {"restore", "t.restore"}
      BY <1>11 DEF UndoRestores
    <2>2. PICK J \in Seq(Record) : J = undo.records
      BY <1>1 DEF UndoTypes
    <2>3. PICK a \in 1 .. Len(J) : a = undo.at
      BY <1>1, <2>1, <2>2 DEF UndoTypes
    <2>4. PICK K : K = [J EXCEPT ![a].reverted = TRUE]
      OBVIOUS
    <2>5. /\ undo'.records = K /\ undo'.todo = undo.todo \ {a}
          /\ undo'.pc = IF undo.pc = "restore" THEN "truncate" ELSE "t.append"
      BY <1>1, <1>11, <2>2, <2>3, <2>4 DEF UndoRestores, UndoTypes
    <2>6. K[a] = [J[a] EXCEPT !.reverted = TRUE]
      <3>1. a \in DOMAIN J
        BY <2>3
      <3> QED
        BY <2>4, <3>1, Zenon
    <2>7. K \in Seq(Record) /\ Len(K) = Len(J)
      <3>1. PICK r \in Record : r = J[a]
        BY <2>3
      <3>2. [r EXCEPT !.reverted = TRUE] \in Record
        BY DEF Record
      <3> QED
        BY <2>3, <2>4, <3>1, <3>2
    <2>8. \A j \in 1 .. Len(J) : j # a => K[j] = J[j]
      BY <2>4
    <2>9. Undoable(J[a]) /\ \A j \in 1 .. Len(J) : Undoable(J[j]) => j <= a
      BY <1>1, <2>1, <2>2, <2>3 DEF TurnInv, UndoTypes
    <2>10. PICK v : v = ws'
      OBVIOUS
    <2>11. \A p \in Paths : v[p] = IF p \in DOMAIN snaps[J[a].id]
                                   THEN snaps[J[a].id][p] ELSE ws[p]
      BY <1>11, <2>2, <2>3, <2>10 DEF UndoRestores, Restored
    <2>12. TakesBack(snaps, J, K, a, ws, v)
      BY <2>6, <2>7, <2>8, <2>9, <2>11 DEF TakesBack
    <2>13. Chain(ses, snaps, J) /\ Tells(ses, J, ws)
      BY <1>7, <2>1, <2>2 DEF InForce, Undoing
    <2>14. /\ Chain(ses, snaps, K) /\ Tells(ses, K, v)
           /\ \A j \in 1 .. Len(J) :
                 Undoable(K[j]) <=> Undoable(J[j]) /\ j # a
      BY <2>7, <2>12, <2>13, ChainReverted
    <2>15. InForce' = K
      BY <2>5 DEF InForce, Undoing
    <2>16. TurnInv'
      BY <2>1, <2>2, <2>5, <2>7, <2>14 DEF TurnInv
    <2> QED
      BY <1>5, <1>6, <1>8, <2>10, <2>14, <2>15, <2>16
  <1>12. CASE UndoTruncates
    <2>1. /\ undo.pc \in {"truncate", "t.truncate"} /\ ws' = ws
          /\ undo'.pc \in {"write", "t.write"}
          /\ undo'.records = undo.records /\ journal' = <<>>
      BY <1>1, <1>12 DEF UndoTruncates, UndoTypes
    <2>2. InForce' = InForce
      BY <2>1 DEF InForce, Undoing
    <2>3. TurnInv'
      BY <2>1 DEF TurnInv
    <2> QED
      BY <1>5, <1>6, <1>7, <1>8, <2>1, <2>2, <2>3
  <1>13. CASE UndoAppends
    <2>1. /\ undo.pc = "append" /\ undo'.pc = "idle"
          /\ journal' = Append(journal, UndoneRecord) /\ ws' = ws
      BY <1>13 DEF UndoAppends, UndoIdle, Appended
    <2>2. journal = undo.records
      BY <2>1 DEF TurnInv
    <2>3. PICK r : r = UndoneRecord
      OBVIOUS
    <2>4. r \in Record /\ r.outcome # "Executed"
      <3>1. PICK q \in Record : q = undo.records[undo.at]
        BY <1>1, <2>1 DEF UndoTypes
      <3>2. r = [q EXCEPT !.outcome = "Reverted", !.reverted = FALSE]
        BY <2>3, <3>1 DEF UndoneRecord
      <3> QED
        BY <3>2 DEF Record, Outcome
    <2>5. InForce = journal /\ InForce' = Append(journal, r)
      BY <2>1, <2>2, <2>3 DEF InForce, Undoing
    <2>6. Chain(ses, snaps, Append(journal, r))
          /\ Tells(ses, Append(journal, r), ws)
      BY <1>1, <1>7, <2>4, <2>5, ChainAppended
    <2>7. TurnInv'
      BY <2>1 DEF TurnInv
    <2> QED
      BY <1>5, <1>6, <1>8, <2>1, <2>5, <2>6, <2>7
  <1>14. CASE TicketAppends
    <2>1. /\ undo.pc = "t.append" /\ ws' = ws
          /\ \/ undo' = [undo EXCEPT !.pc = "t.truncate"]
             \/ /\ undo.todo # {}
                /\ undo' = [undo EXCEPT !.pc = "t.restore",
                                        !.at = NextOf(undo.todo)]
      BY <1>14 DEF TicketAppends
    <2>2. /\ undo'.pc \in {"t.truncate", "t.restore"}
          /\ undo'.records = undo.records /\ undo'.todo = undo.todo
          /\ undo'.pc = "t.restore" =>
                undo.todo # {} /\ undo'.at = NextOf(undo.todo)
      BY <1>1, <2>1 DEF UndoTypes
    <2>3. undo.todo # {} => \A j \in undo.todo : j <= NextOf(undo.todo)
      <3>1. undo.todo \in SUBSET (1 .. Len(undo.records))
            /\ Len(undo.records) \in Nat
        BY <1>1 DEF UndoTypes
      <3> QED
        BY <3>1, MaxFacts DEF NextOf
    <2>4. InForce' = InForce
      BY <2>1, <2>2 DEF InForce, Undoing
    <2>5. TurnInv'
      BY <2>1, <2>2, <2>3 DEF TurnInv
    <2> QED
      BY <1>5, <1>6, <1>7, <1>8, <2>1, <2>4, <2>5
  <1>15. ASSUME NEW over \in 0 .. Len(journal), UndoWrites(over)
         PROVE  OneInv' /\ ToldInv' /\ WrittenInv' /\ TurnInv'
    <2>1. /\ undo.pc \in {"write", "t.write"} /\ journal = <<>> /\ over = 0
          /\ ws' = ws
          /\ undo' = IF undo.pc = "write" THEN [undo EXCEPT !.pc = "append"]
                     ELSE UndoIdle
      BY <1>15 DEF UndoWrites, TurnInv
    <2>2. journal' = undo.records
      <3>1. journal' = undo.records \o SubSeq(<<>>, 1, 0)
        BY <1>15, <2>1 DEF UndoWrites
      <3>2. SubSeq(<<>>, 1, 0) = <<>>
        OBVIOUS
      <3>3. undo.records \in Seq(Record)
        BY <1>1 DEF UndoTypes
      <3> QED
        BY <3>1, <3>2, <3>3
    <2>3. /\ undo.pc = "write" =>
                undo'.pc = "append" /\ undo'.records = undo.records
          /\ undo.pc = "t.write" => undo'.pc = "idle"
      BY <1>1, <2>1 DEF UndoTypes, UndoIdle
    <2>4. InForce' = InForce
      BY <2>1, <2>2, <2>3 DEF InForce, Undoing
    <2>5. TurnInv'
      BY <2>1, <2>2, <2>3 DEF TurnInv
    <2> QED
      BY <1>5, <1>6, <1>7, <1>8, <2>1, <2>4, <2>5
  <1> QED
    BY <1>9, <1>10, <1>11, <1>12, <1>13, <1>14, <1>15

(* Every step keeps it, as long as nothing disturbs.                       *)
LEMMA AloneStep == Types /\ SnapInv /\ AloneInv /\ [SessionNext]_sessionVars => AloneInv'
  <1> SUFFICES ASSUME Types, SnapInv, AloneInv, [SessionNext]_sessionVars,
                      events' \subseteq {"ticket"}
               PROVE  OneInv' /\ ToldInv' /\ WrittenInv' /\ TurnInv'
    BY DEF AloneInv
  <1>1. events \subseteq {"ticket"}
    BY EventsGrow
  <1>2. OneInv /\ ToldInv /\ WrittenInv /\ TurnInv
    BY <1>1 DEF AloneInv
  <1>3. ASSUME NEW s \in Sessions, NEW plan \in Plans, Begin(s, plan)
        PROVE  OneInv' /\ ToldInv' /\ WrittenInv' /\ TurnInv'
    <2>1. ~Active /\ ~Undoing
      BY <1>3 DEF Begin, NoteOverlap, Note
    <2> QED
      BY <1>2, <1>3, <2>1, BeginAlone
  <1>4. ASSUME NEW s \in Sessions,
               SessionStep(s) \/ Leave(s) \/ (At(s, "gate") /\ ErrorLeaves(s))
        PROVE  OneInv' /\ ToldInv' /\ WrittenInv' /\ TurnInv'
    <2>1. UnderWay(s)
      BY <1>4 DEF UnderWay, SessionStep, Approve, DryRun, Decline,
          TakeSnapshot, SnapshotFails, Apply, RunEnds, RunBreaks,
          RecordExecuted, RecordFailed, RestoreAfterFailure, ErrorLeaves,
          Leave, At
    <2>2. ~Undoing
      BY <1>2, <2>1 DEF OneInv, Active, UnderWay
    <2>3. ToldInv' /\ WrittenInv'
      BY <1>2, <1>4, <2>2, SessionAlone
    <2>4. undo' = undo
      BY <1>4 DEF SessionStep, Approve, DryRun, Decline, TakeSnapshot,
          SnapshotFails, Apply, RunEnds, RunBreaks, RecordExecuted,
          RecordFailed, RestoreAfterFailure, ErrorLeaves, Leave
    <2>5. \A t \in Sessions : t # s => ses'[t] = ses[t]
      BY <1>4 DEF Types, SessionStep, Approve, DryRun, Decline, TakeSnapshot,
          SnapshotFails, Apply, RunEnds, RunBreaks, RecordExecuted,
          RecordFailed, RestoreAfterFailure, ErrorLeaves, Leave, Finish, GoTo
    <2>6. OneInv'
      BY <1>2, <2>1, <2>2, <2>4, <2>5 DEF OneInv, UnderWay, Undoing
    <2>7. TurnInv'
      BY <2>2, <2>4 DEF TurnInv, Undoing
    <2> QED
      BY <2>3, <2>6, <2>7
  <1>5. CASE \/ UndoLast \/ UndoTicket \/ UndoRestores \/ UndoTruncates
             \/ \E over \in 0 .. Len(journal) : UndoWrites(over)
             \/ UndoAppends \/ TicketAppends
    <2>2. ASSUME UndoLast PROVE ~Active
      BY <2>2 DEF UndoLast, NoteOverlap, Note
    <2>3. ASSUME UndoTicket PROVE ~Active
      BY <2>3 DEF UndoTicket, Note
    <2>4. ASSUME ~(UndoLast \/ UndoTicket) PROVE ~Active
      <3>1. Undoing
        BY <1>5, <2>4 DEF UndoRestores, UndoTruncates, UndoWrites,
            UndoAppends, TicketAppends, Undoing
      <3> QED
        BY <1>2, <3>1 DEF OneInv
    <2>1. ~Active
      BY <2>2, <2>3, <2>4
    <2> QED
      BY <1>2, <1>5, <2>1, UndoAlone
  <1>6. CASE UNCHANGED <<ws, journal, snaps, ses, undo>>
    BY <1>2, <1>6
    DEF OneInv, ToldInv, WrittenInv, TurnInv, Active, Undoing, UnderWay,
        Running, InForce, Restored, Chain, Tells, Below, Wrote
  <1>7. ~Crash /\ ~UndoDies
    BY DEF Crash, UndoDies, Note
  <1>8. ASSUME NEW s \in Sessions, ErrorLeaves(s) PROVE At(s, "gate")
    BY <1>8 DEF ErrorLeaves, Note
  <1> QED
    BY <1>3, <1>4, <1>5, <1>6, <1>7, <1>8 DEF SessionNext, ChangeGrant,
        sessionVars

-----------------------------------------------------------------------------
(* The invariant of the lifecycle of an intent.                            *)
IInv == Types /\ SnapInv /\ AloneInv

(* The start: an untouched workspace, an empty journal, nobody under way.  *)
LEMMA InitHolds == SessionInit => IInv
  <1> SUFFICES ASSUME SessionInit PROVE IInv
    OBVIOUS
  <1>1. /\ daemon \in Homes /\ daemon \subseteq Sessions
        /\ None \notin Sessions
        /\ ws = [p \in Paths |-> "old"] /\ journal = <<>>
        /\ snaps = [s \in Sessions |-> <<>>] /\ granted = FALSE
        /\ lock = None /\ ses = [s \in Sessions |-> Fresh]
        /\ undo = UndoIdle /\ events = {}
    BY SessionAssumption DEF SessionInit
  <1>2. \A s \in Sessions : ses[s] = Fresh /\ ses[s].pc = "new"
    BY <1>1 DEF Fresh
  <1>3. Len(journal) = 0 /\ journal \in Seq(Record)
    BY <1>1
  <1>4. Fresh \in SessionState
    BY DEF Fresh, SessionState, SessionPoint, Nothing, Plan, Tiers
  <1>5. ses \in [Sessions -> SessionState]
    BY <1>1, <1>4
  <1>6. undo.pc = "idle" /\ undo.todo = {} /\ ~Undoing
    BY <1>1 DEF UndoIdle, Undoing
  <1>7. UndoTypes
    <2>1. DOMAIN undo = {"pc", "records", "todo", "at"}
      BY <1>1 DEF UndoIdle
    <2>2. undo.records = <<>>
      BY <1>1 DEF UndoIdle
    <2>3. undo.records \in Seq(Record)
      BY <2>2
    <2> QED
      BY <1>6, <2>1, <2>3 DEF UndoTypes, UndoPoint
  <1>8. \A s \in Sessions : snaps[s] = <<>> /\ DOMAIN snaps[s] = {}
    <2>1. \A s \in Sessions : snaps[s] = <<>>
      BY <1>1
    <2>2. DOMAIN <<>> = {}
      OBVIOUS
    <2> QED
      BY <2>1, <2>2, Zenon
  <1>9. FileTypes
    <2>1. ws \in [Paths -> Content] /\ DOMAIN snaps = Sessions
      BY <1>1 DEF Content
    <2>2. <<>> \in [{} -> Content]
      OBVIOUS
    <2> QED
      BY <1>8, <2>1, <2>2 DEF FileTypes
  <1>10. LockInv
    BY <1>1, <1>2 DEF LockInv
  <1>11. Types
    BY <1>1, <1>3, <1>5, <1>7, <1>9, <1>10 DEF Types
  <1>12. SnapInv
    BY <1>1, <1>2, <1>8
    DEF SnapInv, PlaceInv, Running, ChainCovered, CoveredBySnapshot
  <1>14. OneInv
    BY <1>2, <1>6 DEF OneInv, UnderWay
  <1>15. WrittenInv /\ TurnInv
    BY <1>2, <1>6 DEF WrittenInv, TurnInv
  <1>16. ToldInv
    <2>1. InForce = journal
      BY <1>6 DEF InForce
    <2>2. Chain(ses, snaps, journal)
      BY <1>3 DEF Chain
    <2>3. \A p \in Paths : ws[p] = "old"
      BY <1>1
    <2>4. Tells(ses, journal, ws)
      BY <1>3, <2>3 DEF Tells, Below
    <2> QED
      BY <1>2, <2>1, <2>2, <2>4 DEF ToldInv, Running
  <1> QED
    BY <1>11, <1>12, <1>14, <1>15, <1>16 DEF IInv, AloneInv

(* Every step keeps the types.                                             *)
LEMMA TypesStep == Types /\ [SessionNext]_sessionVars => Types'
  <1> SUFFICES ASSUME Types, [SessionNext]_sessionVars PROVE Types'
    OBVIOUS
  <1>1. daemon' = daemon /\ granted' \in BOOLEAN
    BY DEF Types, SessionNext, Begin, Leave, SessionStep, Approve, DryRun,
        Decline,
        TakeSnapshot, SnapshotFails, Apply, RunEnds, RunBreaks,
        RecordExecuted, RecordFailed, RestoreAfterFailure, UndoLast,
        UndoTicket, UndoRestores, UndoTruncates, UndoWrites, UndoAppends,
        TicketAppends, UndoDies, ErrorLeaves, ChangeGrant, Crash, sessionVars,
        env
  <1>2. events' \subseteq Event
    BY DEF Types, Event, SessionNext, Begin, Leave, SessionStep, Approve,
        DryRun,
        Decline, TakeSnapshot, SnapshotFails, Apply, RunEnds, RunBreaks,
        RecordExecuted, RecordFailed, RestoreAfterFailure, UndoLast,
        UndoTicket, UndoRestores, UndoTruncates, UndoWrites, UndoAppends,
        TicketAppends, UndoDies, ErrorLeaves, ChangeGrant, Crash, sessionVars,
        env, NoteOverlap, Note
  <1> QED
    BY <1>1, <1>2, SesStep, JournalStep, UndoStep, FileStep, LockStep
    DEF Types

(* The invariant holds in every state.                                     *)
LEMMA InvCorrect == SessionSpec => []IInv
  <1>1. IInv /\ [SessionNext]_sessionVars => IInv'
    BY TypesStep, SnapStep, AloneStep DEF IInv
  <1> QED
    BY InitHolds, <1>1, PTL DEF SessionSpec

(* Every variable keeps its type, and WORKSPACE_MUTATION_LOCK is with the  *)
(* one session of the daemon that is under way.                            *)
THEOREM TypeCorrect == SessionSpec => []SessionTypeOK
  <1>1. IInv => SessionTypeOK
    BY DEF IInv, Types, UndoTypes, FileTypes, LockInv, SessionTypeOK
  <1> QED
    BY InvCorrect, <1>1, PTL

(* What a session wrote is in its snapshot, whatever crashed, raced or was *)
(* undone since: for any number of sessions, plans, undos and crashes, the *)
(* content of every path can be traced back to what was there at first.    *)
THEOREM SnapshotCorrect == SessionSpec => []CoveredBySnapshot
  <1>1. IInv => CoveredBySnapshot
    BY DEF IInv, SnapInv
  <1> QED
    BY InvCorrect, <1>1, PTL

(* When nothing is under way, and neither processes without a common lock, *)
(* a crash, an undo that died, an error nor an undo --ticket below another *)
(* intent's plan came in between, the workspace is what the journal tells, *)
(* path by path.                                                           *)
THEOREM WorkspaceCorrect == SessionSpec => []WorkspaceIsJournal
  <1>1. IInv => WorkspaceIsJournal
    <2> SUFFICES ASSUME IInv, Quiet, events \subseteq {"ticket"},
                        NEW p \in Paths
                 PROVE  ws[p] = IF Writers(p) = {} THEN "old"
                                ELSE journal[Max(Writers(p))].id
      BY DEF WorkspaceIsJournal
    <2>1. ToldInv /\ journal \in Seq(Record)
      BY DEF IInv, AloneInv, Types
    <2>2. \A s \in Sessions : ~Running(s)
      BY DEF Quiet, Active, Running
    <2>3. Tells(ses, journal, ws)
      BY <2>1, <2>2 DEF ToldInv, InForce, Quiet
    <2>4. Writers(p) = {j \in 1 .. Len(journal) : Wrote(ses, journal[j], p)}
      BY <2>1 DEF Writers, Wrote
    <2>5. Below(ses, journal, Len(journal) + 1, ws[p], p)
      BY <2>3 DEF Tells
    <2>6. \A j \in 1 .. Len(journal) : j < Len(journal) + 1 /\ j \in Nat
      BY <2>1
    <2>7. CASE Writers(p) = {}
      BY <2>4, <2>5, <2>6, <2>7 DEF Below
    <2>8. CASE Writers(p) # {}
      <3>1. PICK i \in Writers(p) :
               ws[p] = journal[i].id /\ \A j \in Writers(p) : j <= i
        BY <2>4, <2>5, <2>6, <2>8 DEF Below
      <3>2. Writers(p) \in SUBSET (1 .. Len(journal)) /\ Len(journal) \in Nat
        BY <2>1, <2>4
      <3>3. /\ Max(Writers(p)) \in Writers(p)
            /\ \A j \in Writers(p) : j <= Max(Writers(p))
        BY <2>8, <3>2, MaxFacts
      <3>4. Max(Writers(p)) = i
        BY <2>6, <3>1, <3>2, <3>3
      <3> QED
        BY <2>8, <3>1, <3>4
    <2> QED
      BY <2>7, <2>8
  <1> QED
    BY InvCorrect, <1>1, PTL
=============================================================================
