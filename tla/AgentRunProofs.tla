--------------------------- MODULE AgentRunProofs ---------------------------
(***************************************************************************)
(* Proofs about AgentRun: what a run of an agent may spend, what it does   *)
(* once it is over, that what was written can be undone and is recorded,   *)
(* and that a tool runs on the answer to its own proposal, for every budget, every limit, every set of turns of the      *)
(* model and every behaviour of the client.                                *)
(***************************************************************************)
EXTENDS AgentRun, SequenceTheorems, TLAPS

(* What the steps and the tools say about the place in the loop.  A step   *)
(* is charged before its tool is tried, and only a step whose tool was not *)
(* tried is given back.                                                    *)
Charged ==
    /\ steps \in Nat /\ tried \in Nat
    /\ tried <= steps
    /\ pc \in {"confirm", "execute"} => tried < steps
    /\ pc = "settle" /\ outcome = "Rejected" => tried < steps

(* Beyond max_steps there is the finish alone, and after it no turn.       *)
Spent ==
    /\ tried <= MaxSteps
    /\ steps <= MaxSteps + 1
    /\ steps > MaxSteps =>
         \/ "finished" \in flags /\ pc \in {"call", "record", "done"}
         \/ reason \in {"Finished", "aborted"} /\ pc \in {"record", "done"}

(* Where the loop can be once the turn or the run is over.                 *)
Over ==
    /\ TurnOver => pc \in {"call", "settle", "record", "done"}
    /\ heard => \/ pc \in {"resort", "close", "record", "done"}
                \/ pc = "call" /\ "stopped" \in flags

BudgetInv == Charged /\ Spent

-----------------------------------------------------------------------------
(* Nothing is spent when a run starts.                                     *)
LEMMA BudgetInit == ASSUME Init PROVE BudgetInv
BY AgentAssumption DEF Init, BudgetInv, Charged, Spent

(* Every step of the loop, of the client and of time keeps the account.    *)
LEMMA BudgetStep == ASSUME BudgetInv, [Next]_vars PROVE BudgetInv'
<1> USE AgentAssumption
<1>1. CASE ProviderFails
  BY <1>1 DEF ProviderFails, End, NoConsult, disk, BudgetInv, Charged, Spent
<1>2. ASSUME NEW turn \in Turns, NEW text \in BOOLEAN, Reply(turn, text) PROVE BudgetInv'
  BY <1>2 DEF Reply, Abort, NoConsult, disk, BudgetInv, Charged, Spent
<1>3. CASE Nudge
  BY <1>3 DEF Nudge, disk, BudgetInv, Charged, Spent
<1>4. ASSUME NEW point \in {"resort", "looping"}, NEW why, Resort(point, why) PROVE BudgetInv'
  BY <1>4 DEF Resort, disk, BudgetInv, Charged, Spent
<1>5. ASSUME NEW given \in BOOLEAN, Close(given) PROVE BudgetInv'
  BY <1>5 DEF Close, Sending, End, Abort, disk, BudgetInv, Charged, Spent
<1>6. CASE Skip
  BY <1>6 DEF Skip, AtCall, disk, BudgetInv, Charged, Spent
<1>7. CASE Finalizar
  BY <1>7 DEF Finalizar, AtCall, TurnOver, Sending, Abort, disk, BudgetInv,
      Charged, Spent
<1>8. CASE CheckStop
  BY <1>8 DEF CheckStop, AtCall, TurnOver, disk, BudgetInv, Charged, Spent
<1>9. CASE OverBudget
  BY <1>9 DEF OverBudget, disk, BudgetInv, Charged, Spent
<1>10. CASE Begin
  BY <1>10 DEF Begin, over_budget, Sending, Abort, disk, BudgetInv, Charged,
      Spent
<1>11. CASE Confirmed
  BY <1>11 DEF Confirmed, loop, disk, BudgetInv, Charged, Spent
<1>12. CASE Declined
  BY <1>12 DEF Declined, disk, BudgetInv, Charged, Spent
<1>13. CASE Simulated
  BY <1>13 DEF Simulated, disk, BudgetInv, Charged, Spent
<1>14. CASE Executed
  BY <1>14 DEF Executed, disk, BudgetInv, Charged, Spent
<1>15. ASSUME NEW part \in SUBSET Files, Failed(part) PROVE BudgetInv'
  BY <1>15 DEF Failed, disk, BudgetInv, Charged, Spent
<1>16. CASE SnapshotFails
  BY <1>16 DEF SnapshotFails, Abort, disk, BudgetInv, Charged, Spent
<1>17. CASE Settle
  BY <1>17 DEF Settle, FreeRetry, Sending, Abort, disk, BudgetInv, Charged,
      Spent
<1>18. CASE EndOfTurn
  BY <1>18 DEF EndOfTurn, TurnOver, End, disk, BudgetInv, Charged, Spent
<1>19. CASE RecordRun
  BY <1>19 DEF RecordRun, loop, BudgetInv, Charged, Spent
<1>23. CASE RecordFails
  BY <1>23 DEF RecordFails, Abort, disk, BudgetInv, Charged, Spent
<1>20. ASSUME UNCHANGED <<pc, loop, disk>> PROVE BudgetInv'
  BY <1>20 DEF loop, disk, BudgetInv, Charged, Spent
<1>21. CASE (\E kind \in {"yes", "no"} : Answer(kind)) \/ Repeat \/ AgentStop \/ Leave \/ TimePasses
  BY <1>20, <1>21 DEF Answer, Repeat, AgentStop, Leave, TimePasses, Elsewhere
<1>22. CASE UNCHANGED vars
  BY <1>20, <1>22 DEF vars
<1> QED
  BY <1>1, <1>2, <1>3, <1>4, <1>5, <1>6, <1>7, <1>8, <1>9, <1>10, <1>11,
      <1>12, <1>13, <1>14,
     <1>15, <1>16, <1>17, <1>18, <1>19, <1>21, <1>22, <1>23 DEF Next, RunStep

(* A run never overspends its budget, for every budget and every model:    *)
(* the loop of run with over_budget, the free retry and structured_finish. *)
THEOREM BudgetCorrect == Spec => []BudgetIsKept
<1>1. BudgetInv => BudgetIsKept
  BY DEF BudgetInv, Charged, Spent, BudgetIsKept
<1> QED
  BY <1>1, BudgetInit, BudgetStep, PTL DEF Spec

-----------------------------------------------------------------------------
(* No run starts over.                                                     *)
LEMMA OverInit == ASSUME Init PROVE Over
BY DEF Init, Over, TurnOver

(* Once the turn or the run is over, the loop only goes to its end.        *)
LEMMA OverStep == ASSUME Over, [Next]_vars PROVE Over'
<1>1. CASE ProviderFails
  BY <1>1 DEF ProviderFails, End, NoConsult, Over, TurnOver
<1>2. ASSUME NEW turn \in Turns, NEW text \in BOOLEAN, Reply(turn, text) PROVE Over'
  BY <1>2 DEF Reply, Abort, NoConsult, Over, TurnOver
<1>3. CASE Nudge
  BY <1>3 DEF Nudge, Consult, NoConsult, Over, TurnOver
<1>4. ASSUME NEW point \in {"resort", "looping"}, NEW why, Resort(point, why) PROVE Over'
  BY <1>4 DEF Resort, Consult, Over, TurnOver
<1>5. ASSUME NEW given \in BOOLEAN, Close(given) PROVE Over'
  BY <1>5 DEF Close, Sending, End, Abort, NoConsult, Over, TurnOver
<1>6. CASE Skip
  BY <1>6 DEF Skip, AtCall, NoConsult, Over, TurnOver
<1>7. CASE Finalizar
  BY <1>7 DEF Finalizar, AtCall, Sending, Abort, NoConsult, Over, TurnOver
<1>8. CASE CheckStop
  BY <1>8 DEF CheckStop, AtCall, Consult, Over, TurnOver
<1>9. CASE OverBudget
  BY <1>9 DEF OverBudget, NoConsult, Over, TurnOver
<1>10. CASE Begin
  BY <1>10 DEF Begin, Sending, Abort, NoConsult, Over, TurnOver
<1>11. CASE Confirmed
  BY <1>11 DEF Confirmed, loop, Over, TurnOver
<1>12. CASE Declined
  BY <1>12 DEF Declined, Over, TurnOver
<1>13. CASE Simulated \/ Executed \/ SnapshotFails
  BY <1>13 DEF Simulated, Executed, SnapshotFails, Abort, NoConsult, Over,
      TurnOver
<1>14. ASSUME NEW part \in SUBSET Files, Failed(part) PROVE Over'
  BY <1>14 DEF Failed, NoConsult, Over, TurnOver
<1>15. CASE Settle
  BY <1>15 DEF Settle, Sending, Abort, NoConsult, Over, TurnOver
<1>16. CASE EndOfTurn
  BY <1>16 DEF EndOfTurn, End, Consult, NoConsult, Over, TurnOver
<1>17. CASE RecordRun
  BY <1>17 DEF RecordRun, loop, NoConsult, Over, TurnOver
<1>20. CASE RecordFails
  BY <1>20 DEF RecordFails, Abort, NoConsult, Over, TurnOver
<1>18. CASE (\E kind \in {"yes", "no"} : Answer(kind)) \/ Repeat \/ AgentStop \/ Leave \/ TimePasses
  <2>1. Elsewhere
    BY <1>18 DEF Answer, Repeat, AgentStop, Leave, TimePasses
  <2> QED
    BY <2>1 DEF Elsewhere, loop, Over, TurnOver
<1>19. CASE UNCHANGED vars
  BY <1>19 DEF vars, loop, Over, TurnOver
<1> QED
  BY <1>1, <1>2, <1>3, <1>4, <1>5, <1>6, <1>7, <1>8, <1>9, <1>10, <1>11,
      <1>12, <1>13, <1>14,
     <1>15, <1>16, <1>17, <1>18, <1>19, <1>20 DEF Next, RunStep

(* Only a tool that runs changes the workspace, and only a tool that begins *)
(* proposes anything.                                                      *)
LEMMA QuietSteps ==
    ASSUME [Next]_vars, pc \notin {"begin", "execute"} PROVE ws' = ws /\ asked' = asked
BY DEF Next, RunStep, ProviderFails, Reply, Nudge, Resort, Close, Skip,
    Finalizar, AtCall,
       CheckStop, OverBudget, Begin, Confirmed, Declined, Simulated, Executed,
       Failed,
       SnapshotFails, Settle, EndOfTurn, RecordRun, RecordFails, Answer,
       Repeat, AgentStop, Leave,
       TimePasses, Elsewhere, disk, client, vars

(* Once the model has finished, a step is declined or the stop request is  *)
(* read, the run touches nothing and proposes nothing.                     *)
THEOREM EndCorrect == Spec => NothingAfterTheEnd
<1>1. Over /\ [Next]_vars =>
        [flags \cap {"finished", "declined", "stopped"} # {} \/ heard
           => ws' = ws /\ asked' = asked]_vars
  <2> SUFFICES ASSUME Over, [Next]_vars,
                      flags \cap {"finished", "declined", "stopped"} # {} \/ heard
               PROVE  ws' = ws /\ asked' = asked
    OBVIOUS
  <2>1. pc \notin {"begin", "execute"}
    BY DEF Over, TurnOver
  <2> QED
    BY <2>1, QuietSteps
<1> QED
  BY <1>1, OverInit, OverStep, PTL DEF Spec, NothingAfterTheEnd

-----------------------------------------------------------------------------
(* Types.                                                                  *)

Line == [kind : {"yes", "no", "stop"}, for : Nat]
Entries == [place : SUBSET Files, saved : [Files -> {"old", "new"}], step : Nat]

(* What TypeOK leaves open: the client's lines, each about a proposal that *)
(* was made.                                                               *)
LineTypes ==
    /\ inbox \in Seq(Line) /\ asked \in Nat
    /\ \A i \in DOMAIN inbox : inbox[i].for <= asked

TypeInv == TypeOK /\ LineTypes

(* TypeOK in parts, without the steps, which BudgetInv bounds.             *)
PlaceTypes ==
    /\ pc \in Points /\ dry \in BOOLEAN /\ late \in BOOLEAN /\ reason \in Reasons
    /\ flags \in SUBSET {"finished", "declined", "stopped", "looping"}
CallTypes ==
    /\ calls \in Turns \cup {<<>>} /\ at \in 1..(Len(calls) + 1)
    /\ pc \in {"begin", "confirm", "execute", "settle"} => at <= Len(calls)
    /\ nudges \in 0..MaxNudges /\ fails \in [Calls -> Nat]
DiskTypes ==
    /\ ws \in [Files -> {"old", "new"}]
    /\ snap \in SUBSET Entries /\ whole \in SUBSET Files
ClientTypes ==
    /\ answered \in 0..asked /\ approval \in 0..asked
    /\ ran \in BOOLEAN /\ journalled \in BOOLEAN
    /\ present \in BOOLEAN /\ heard \in BOOLEAN

(* The parts make TypeOK.                                                  *)
LEMMA TypeParts ==
    TypeOK <=> /\ PlaceTypes /\ CallTypes /\ DiskTypes /\ ClientTypes
               /\ steps \in Nat /\ tried \in Nat
BY DEF TypeOK, PlaceTypes, CallTypes, DiskTypes, ClientTypes, Entries

(* The calls of a turn.                                                    *)
LEMMA CallFacts ==
    ASSUME TypeInv
    PROVE  /\ Len(calls) \in Nat /\ at \in Nat /\ at >= 1
           /\ at <= Len(calls) => Now \in Calls /\ Now.paths \in SUBSET SUBSET Files
<1>1. calls \in Seq(Calls)
  BY AgentAssumption, EmptySeq DEF TypeInv, TypeOK
<1>2. Len(calls) \in Nat /\ DOMAIN calls = 1 .. Len(calls)
  BY <1>1, LenProperties
<1>3. at \in Nat /\ at >= 1
  BY <1>2 DEF TypeInv, TypeOK
<1>4. ASSUME at <= Len(calls) PROVE Now \in Calls
  BY <1>1, <1>2, <1>3, <1>4 DEF Now
<1>5. \A c \in Calls : c.paths \in SUBSET SUBSET Files
  BY AgentAssumption DEF Calls
<1> QED
  BY <1>2, <1>3, <1>4, <1>5

(* What should_stop leaves in the stream are lines of the client.          *)
LEMMA ConsultFacts ==
    ASSUME TypeInv, Consult \/ NoConsult
    PROVE  /\ inbox' \in Seq(Line)
           /\ \A i \in DOMAIN inbox' : inbox'[i].for <= asked
           /\ heard' \in BOOLEAN
<1>1. inbox \in Seq(Line) /\ \A i \in DOMAIN inbox : inbox[i].for <= asked
  BY DEF TypeInv, LineTypes
<1>2. heard' \in BOOLEAN
  BY DEF TypeInv, TypeOK, Consult, NoConsult
<1>3. CASE inbox' = inbox
  BY <1>1, <1>2, <1>3
<1>4. CASE inbox # <<>> /\ inbox' = Tail(inbox)
  <2>1. /\ inbox' \in Seq(Line) /\ Len(inbox') = Len(inbox) - 1
        /\ \A i \in 1 .. Len(inbox') : inbox'[i] = inbox[i + 1]
    BY <1>1, <1>4, HeadTailProperties
  <2>2. \A i \in DOMAIN inbox' : i + 1 \in DOMAIN inbox /\ inbox'[i] = inbox[i + 1]
    BY <1>1, <2>1, LenProperties
  <2> QED
    BY <1>1, <1>2, <2>1, <2>2
<1> QED
  BY <1>3, <1>4 DEF Consult, NoConsult

(* The types hold when a run starts.                                       *)
LEMMA TypeInit == ASSUME Init PROVE TypeInv
<1>1. <<>> \in Seq(Line) /\ Len(<<>>) = 0 /\ DOMAIN <<>> = {}
  BY EmptySeq
<1>2. LineTypes
  BY <1>1 DEF Init, LineTypes
<1>3. PlaceTypes
  <2>1. dry \in BOOLEAN
    BY AgentAssumption DEF Init
  <2>2. pc \in Points /\ reason \in Reasons
    BY DEF Init, Points, Reasons
  <2> QED
    BY <2>1, <2>2 DEF Init, PlaceTypes
<1>4. CallTypes
  BY <1>1, AgentAssumption DEF Init, CallTypes
<1>5. DiskTypes
  BY <1>1 DEF Init, DiskTypes
<1>6. ClientTypes
  <2>1. answered \in 0..asked /\ approval \in 0..asked
    BY DEF Init
  <2> QED
    BY <2>1 DEF Init, ClientTypes
<1> QED
  BY <1>2, <1>3, <1>4, <1>5, <1>6, TypeParts, BudgetInit DEF TypeInv,
      BudgetInv, Charged

(* Every step of the run, of the client and of time keeps the place in the *)
(* loop among those the code has.                                          *)
LEMMA PlaceStep ==
    ASSUME TypeInv, [Next]_vars
    PROVE  PlaceTypes'
<1> USE DEF PlaceTypes, Points, Reasons
<1>0. PlaceTypes
  BY TypeParts DEF TypeInv
<1>1. CASE ProviderFails
  BY <1>0, <1>1 DEF ProviderFails, End, NoConsult, disk
<1>2. ASSUME NEW turn \in Turns, NEW text \in BOOLEAN, Reply(turn, text)
      PROVE  PlaceTypes'
  BY <1>0, <1>2 DEF Reply, Abort, NoConsult, disk
<1>3. CASE Nudge
  BY <1>0, <1>3 DEF Nudge, CanNudge, Nudged, disk
<1>4. ASSUME NEW point \in {"resort", "looping"}, NEW why \in Reasons, Resort(point, why)
      PROVE  PlaceTypes'
  BY <1>0, <1>4 DEF Resort, disk
<1>5. ASSUME NEW given \in BOOLEAN, Close(given)
      PROVE  PlaceTypes'
  BY <1>0, <1>5 DEF Close, Sending, End, Abort, disk
<1>6. CASE Skip
  BY <1>0, <1>6 DEF Skip, AtCall, disk
<1>7. CASE Finalizar
  BY <1>0, <1>7 DEF Finalizar, AtCall, Sending, Abort, disk
<1>8. CASE CheckStop
  BY <1>0, <1>8 DEF CheckStop, AtCall, disk
<1>9. CASE OverBudget
  BY <1>0, <1>9 DEF OverBudget, disk
<1>10. CASE Begin
  BY <1>0, <1>10 DEF Begin, Sending, Abort, disk
<1>11. CASE Confirmed
  BY <1>0, <1>11 DEF Confirmed, loop, disk
<1>12. CASE Declined
  BY <1>0, <1>12 DEF Declined, disk
<1>13. CASE Simulated
  BY <1>0, <1>13 DEF Simulated, disk
<1>14. CASE Executed
  BY <1>0, <1>14 DEF Executed, disk
<1>15. ASSUME NEW part \in SUBSET Files, Failed(part)
      PROVE  PlaceTypes'
  BY <1>0, <1>15 DEF Failed, disk
<1>16. CASE SnapshotFails
  BY <1>0, <1>16 DEF SnapshotFails, Abort, disk
<1>17. CASE Settle
  BY <1>0, <1>17 DEF Settle, Failing, Sending, Abort, disk
<1>18. CASE EndOfTurn
  BY <1>0, <1>18 DEF EndOfTurn, End, disk
<1>19. CASE RecordRun
  BY <1>0, <1>19 DEF RecordRun, loop, disk
<1>22. CASE RecordFails
  BY <1>0, <1>22 DEF RecordFails, Abort, disk
<1>20. CASE (\E kind \in {"yes", "no"} : Answer(kind)) \/ Repeat \/ AgentStop \/ Leave \/ TimePasses
  BY <1>0, <1>20 DEF Answer, Repeat, AgentStop, Leave, TimePasses, Elsewhere,
      loop
<1>21. CASE UNCHANGED vars
  BY <1>0, <1>21 DEF vars, loop
<1> QED
  BY <1>1, <1>2, <1>3, <1>4, <1>5, <1>6, <1>7, <1>8, <1>9, <1>10, <1>11,
      <1>12, <1>13, <1>14, <1>15, <1>16, <1>17, <1>18, <1>19, <1>20, <1>21, <1>22 DEF Next, RunStep

(* The call at hand is one of the turn.                                    *)
LEMMA CallStep ==
    ASSUME TypeInv, [Next]_vars
    PROVE  CallTypes'
<1> USE DEF CallTypes
<1>0. /\ CallTypes /\ Len(calls) \in Nat /\ at \in Nat /\ MaxNudges \in Nat
      /\ at <= Len(calls) => Now \in Calls
  BY TypeParts, CallFacts, AgentAssumption DEF TypeInv
<1>a. \A turn \in Turns : turn # <<>> => Len(turn) \in Nat /\ Len(turn) >= 1
  BY AgentAssumption, EmptySeq, LenProperties
<1>b. Len(<<>>) = 0
  BY EmptySeq
<1>1. CASE ProviderFails
  BY <1>0, <1>1 DEF ProviderFails, End, NoConsult, disk
<1>2. ASSUME NEW turn \in Turns, NEW text \in BOOLEAN, Reply(turn, text)
      PROVE  CallTypes'
  BY <1>0, <1>a, <1>b, <1>2 DEF Reply, Abort, NoConsult, disk
<1>3. CASE Nudge
  BY <1>0, <1>3 DEF Nudge, CanNudge, Nudged, disk
<1>4. ASSUME NEW point \in {"resort", "looping"}, NEW why \in Reasons, Resort(point, why)
      PROVE  CallTypes'
  BY <1>0, <1>4 DEF Resort, disk
<1>5. ASSUME NEW given \in BOOLEAN, Close(given)
      PROVE  CallTypes'
  BY <1>0, <1>5 DEF Close, Sending, End, Abort, disk
<1>6. CASE Skip
  BY <1>0, <1>6 DEF Skip, AtCall, disk
<1>7. CASE Finalizar
  BY <1>0, <1>7 DEF Finalizar, AtCall, Sending, Abort, disk
<1>8. CASE CheckStop
  BY <1>0, <1>8 DEF CheckStop, AtCall, disk
<1>9. CASE OverBudget
  BY <1>0, <1>9 DEF OverBudget, disk
<1>10. CASE Begin
  BY <1>0, <1>10 DEF Begin, Sending, Abort, disk
<1>11. CASE Confirmed
  BY <1>0, <1>11 DEF Confirmed, loop, disk
<1>12. CASE Declined
  BY <1>0, <1>12 DEF Declined, disk
<1>13. CASE Simulated
  BY <1>0, <1>13 DEF Simulated, disk
<1>14. CASE Executed
  BY <1>0, <1>14 DEF Executed, disk
<1>15. ASSUME NEW part \in SUBSET Files, Failed(part)
      PROVE  CallTypes'
  BY <1>0, <1>15 DEF Failed, disk
<1>16. CASE SnapshotFails
  BY <1>0, <1>16 DEF SnapshotFails, Abort, disk
<1>17. CASE Settle
  BY <1>0, <1>17 DEF Settle, Failing, Sending, Abort, disk
<1>18. CASE EndOfTurn
  BY <1>0, <1>18 DEF EndOfTurn, End, disk
<1>19. CASE RecordRun
  BY <1>0, <1>19 DEF RecordRun, loop, disk
<1>22. CASE RecordFails
  BY <1>0, <1>22 DEF RecordFails, Abort, disk
<1>20. CASE (\E kind \in {"yes", "no"} : Answer(kind)) \/ Repeat \/ AgentStop \/ Leave \/ TimePasses
  BY <1>0, <1>20 DEF Answer, Repeat, AgentStop, Leave, TimePasses, Elsewhere,
      loop
<1>21. CASE UNCHANGED vars
  BY <1>0, <1>21 DEF vars, loop
<1> QED
  BY <1>1, <1>2, <1>3, <1>4, <1>5, <1>6, <1>7, <1>8, <1>9, <1>10, <1>11,
      <1>12, <1>13, <1>14, <1>15, <1>16, <1>17, <1>18, <1>19, <1>20, <1>21, <1>22 DEF Next, RunStep, Reasons

(* Only the tools that run and the record touch the disk.                  *)
LEMMA DiskSteps ==
    ASSUME [Next]_vars
    PROVE  \/ UNCHANGED disk
           \/ Executed \/ (\E part \in SUBSET Files : Failed(part))
           \/ RecordRun /\ UNCHANGED <<ws, snap, tried, ran, whole>>
BY DEF Next, RunStep, ProviderFails, Reply, Nudge, Resort, Close, Skip,
    Finalizar,
       CheckStop, OverBudget, Begin, Confirmed, Declined, Simulated,
       SnapshotFails,
       Settle, EndOfTurn, RecordRun, RecordFails, Answer, Repeat, AgentStop,
       Leave,
       TimePasses, Elsewhere, disk, vars

(* What a tool that runs does to the disk: first the snapshot.             *)
LEMMA ToolFacts ==
    ASSUME TypeInv, NEW part \in SUBSET Files, Extend, Write(part),
           pc = "execute"
    PROVE  /\ Now \in Calls /\ Now.paths \in SUBSET SUBSET Files
           /\ ws' \in [Files -> {"old", "new"}] /\ snap' \in SUBSET Entries
           /\ \A f \in Files : f \notin part => ws'[f] = ws[f]
           /\ \A e \in snap : e \in snap'
           /\ \A e \in snap' \ snap :
                /\ e.place \in Now.paths /\ e.saved = ws /\ e.step = tried
                /\ \A d \in snap : d.place # e.place
           /\ Kept => \A q \in Now.paths : \E e \in snap' : e.place = q
<1>1. Now \in Calls /\ Now.paths \in SUBSET SUBSET Files
  BY CallFacts DEF TypeInv, TypeOK
<1>2. ws \in [Files -> {"old", "new"}] /\ snap \in SUBSET Entries /\ tried \in Nat
  BY DEF TypeInv, TypeOK, Entries
<1>3. /\ ws' \in [Files -> {"old", "new"}]
      /\ \A f \in Files : f \notin part => ws'[f] = ws[f]
  BY <1>2 DEF Write
<1>4. \A q \in Now.paths : /\ Entry(q) \in Entries /\ Entry(q).place = q
                            /\ Entry(q).saved = ws /\ Entry(q).step = tried
  BY <1>1, <1>2 DEF Entry, Entries
<1>5. CASE ~Kept
  BY <1>1, <1>2, <1>3, <1>5 DEF Extend
<1>6. CASE Kept
  <2> DEFINE fresh == {q \in Now.paths : \A e \in snap : e.place # q}
  <2>1. snap' = snap \cup {Entry(p) : p \in fresh}
    BY <1>6 DEF Extend
  <2>2. \A e \in snap' \ snap : \E q \in fresh : e = Entry(q)
    BY <2>1
  <2>3. \A e \in snap' \ snap :
           /\ e.place \in Now.paths /\ e.saved = ws /\ e.step = tried
           /\ e \in Entries /\ \A d \in snap : d.place # e.place
    BY <1>4, <2>2
  <2>4. ASSUME NEW q \in Now.paths PROVE \E e \in snap' : e.place = q
    BY <1>4, <2>1
  <2>5. snap' \in SUBSET Entries
    BY <1>2, <2>3
  <2> QED
    BY <1>1, <1>3, <2>1, <2>3, <2>4, <2>5
<1> QED
  BY <1>5, <1>6

(* A tool that runs writes files of the workspace.                         *)
LEMMA ReachFacts ==
    ASSUME TypeInv, pc = "execute"
    PROVE  /\ Now \in Calls /\ Reach(Now) \in SUBSET Files
           /\ ~Kept => \A f \in Reach(Now) : f \in Unkept
<1>1. Now \in Calls /\ Now.paths \in SUBSET SUBSET Files
  BY CallFacts DEF TypeInv, TypeOK
<1>2. Reach(Now) \in SUBSET Files
  BY <1>1 DEF Reach
<1>3. ASSUME ~Kept, NEW f \in Reach(Now) PROVE f \in Unkept
  <2>1. Now.paths # {}
    BY DEF Reach
  <2>2. Now \in {d \in Calls : d.reversible # "snapshot"}
    BY <1>1, <1>3, <2>1 DEF Kept
  <2> QED
    BY <2>2 DEF Unkept
<1> QED
  BY <1>1, <1>2, <1>3

(* The files and the snapshot keep their types.                            *)
LEMMA DiskStep ==
    ASSUME TypeInv, [Next]_vars
    PROVE  DiskTypes'
<1>0. DiskTypes
  BY TypeParts DEF TypeInv
<1>1. CASE UNCHANGED <<ws, snap, whole>>
  BY <1>0, <1>1 DEF DiskTypes
<1>2. CASE Executed
  <2>1. Reach(Now) \in SUBSET Files
    BY <1>2, ReachFacts DEF Executed
  <2>2. ws' \in [Files -> {"old", "new"}] /\ snap' \in SUBSET Entries
    BY <1>2, <2>1, ToolFacts DEF Executed
  <2>3. whole' = whole \cup Reach(Now)
    BY <1>2 DEF Executed
  <2> QED
    BY <1>0, <2>1, <2>2, <2>3 DEF DiskTypes
<1>3. ASSUME NEW part \in SUBSET Files, Failed(part) PROVE DiskTypes'
  <2>1. ws' \in [Files -> {"old", "new"}] /\ snap' \in SUBSET Entries
    BY <1>3, ToolFacts DEF Failed
  <2>2. whole' = whole
    BY <1>3 DEF Failed
  <2> QED
    BY <1>0, <2>1, <2>2 DEF DiskTypes
<1> QED
  BY <1>1, <1>2, <1>3, DiskSteps DEF disk

(* Reading a line takes the first one.                                     *)
LEMMA TailFacts ==
    ASSUME TypeInv, inbox # <<>>, inbox' = Tail(inbox)
    PROVE  /\ inbox' \in Seq(Line)
           /\ Head(inbox) = inbox[1] /\ 1 \in DOMAIN inbox
           /\ \A i \in DOMAIN inbox' : i \in Nat /\ i >= 1 /\ i + 1 \in DOMAIN inbox
                                       /\ inbox'[i] = inbox[i + 1]
<1>1. inbox \in Seq(Line)
  BY DEF TypeInv, LineTypes
<1>2. Len(inbox) \in Nat /\ Len(inbox) >= 1 /\ DOMAIN inbox = 1 .. Len(inbox)
  BY <1>1, LenProperties, EmptySeq
<1>3. /\ inbox' \in Seq(Line) /\ Len(inbox') = Len(inbox) - 1
      /\ \A i \in 1 .. Len(inbox') : inbox'[i] = inbox[i + 1]
      /\ Head(inbox) = inbox[1]
  BY <1>1, HeadTailProperties
<1>4. DOMAIN inbox' = 1 .. Len(inbox) - 1
  BY <1>3, LenProperties
<1>5. \A i \in DOMAIN inbox' : i \in Nat /\ i >= 1 /\ i + 1 \in DOMAIN inbox
  BY <1>2, <1>4
<1> QED
  BY <1>2, <1>3, <1>4, <1>5

(* A line of the client comes behind the others.                           *)
LEMMA SaysFacts ==
    ASSUME TypeInv, NEW kind \in {"yes", "no", "stop"}, NEW for \in Nat,
           Says(kind, for)
    PROVE  /\ inbox' \in Seq(Line) /\ Len(inbox) \in Nat
           /\ DOMAIN inbox = 1 .. Len(inbox)
           /\ DOMAIN inbox' = 1 .. Len(inbox) + 1
           /\ \A i \in DOMAIN inbox : inbox'[i] = inbox[i]
           /\ inbox'[Len(inbox) + 1].kind = kind /\ inbox'[Len(inbox) + 1].for = for
<1> DEFINE l == [kind |-> kind, for |-> for]
<1>1. inbox \in Seq(Line) /\ l \in Line /\ l.kind = kind /\ l.for = for
  BY DEF TypeInv, LineTypes, Line
<1>2. inbox' = Append(inbox, l)
  BY DEF Says
<1> HIDE DEF l
<1>3. Len(inbox) \in Nat /\ DOMAIN inbox = 1 .. Len(inbox)
  BY <1>1, LenProperties
<1>4. /\ inbox' \in Seq(Line) /\ Len(inbox') = Len(inbox) + 1
      /\ \A i \in 1 .. Len(inbox) : inbox'[i] = inbox[i]
      /\ inbox'[Len(inbox) + 1] = l
  BY <1>1, <1>2, AppendProperties
<1>5. DOMAIN inbox' = 1 .. Len(inbox) + 1
  BY <1>4, LenProperties
<1> QED
  BY <1>1, <1>3, <1>4, <1>5

(* What happens to the client's lines: all stay, the first one is read or  *)
(* a line comes behind them.                                               *)
LEMMA LineSteps ==
    ASSUME TypeInv, [Next]_vars
    PROVE  \/ inbox' = inbox
           \/ inbox # <<>> /\ inbox' = Tail(inbox)
           \/ \E kind \in {"yes", "no"} : Answer(kind)
           \/ Repeat \/ AgentStop
BY DEF Next, RunStep, ProviderFails, Reply, Nudge, Resort, Close, Skip,
    Finalizar,
       CheckStop, OverBudget, Begin, Confirmed, Declined, Simulated,
       SnapshotFails,
       Executed, Failed, Settle, EndOfTurn, RecordRun, RecordFails, Leave,
       TimePasses, Consult,
       NoConsult, vars

(* Only a step that begins proposes.                                       *)
LEMMA AskSteps ==
    ASSUME TypeInv, [Next]_vars
    PROVE  /\ asked' \in Nat /\ asked <= asked'
           /\ asked' = asked \/ (Begin /\ asked' = asked + 1)
<1>1. asked' = asked \/ (Begin /\ asked' = asked + 1)
  BY DEF Next, RunStep, ProviderFails, Reply, Nudge, Resort, Close, Skip,
      Finalizar,
         CheckStop, OverBudget, Begin, Confirmed, Declined, Simulated,
         SnapshotFails,
         Executed, Failed, Settle, EndOfTurn, RecordRun, RecordFails, Answer,
         Repeat, AgentStop,
         Leave, TimePasses, Elsewhere, client, vars
<1> QED
  BY <1>1 DEF TypeInv, LineTypes

(* The client's lines stay about proposals that were made.                 *)
LEMMA LineTypeStep ==
    ASSUME TypeInv, [Next]_vars
    PROVE  LineTypes'
<1>0. /\ inbox \in Seq(Line) /\ asked \in Nat /\ answered \in 0..asked
      /\ \A i \in DOMAIN inbox : inbox[i].for <= asked /\ inbox[i].for \in Nat
  <2>1. inbox \in Seq(Line) /\ asked \in Nat /\ answered \in 0..asked
    BY DEF TypeInv, TypeOK, LineTypes
  <2>2. \A i \in DOMAIN inbox : inbox[i] \in Line
    BY <2>1, LenProperties
  <2> QED
    BY <2>1, <2>2 DEF TypeInv, LineTypes, Line
<1>1. asked' \in Nat /\ asked <= asked'
  BY AskSteps
<1>2. inbox' \in Seq(Line) /\ \A i \in DOMAIN inbox' : inbox'[i].for <= asked'
  <2>1. CASE inbox' = inbox
    BY <1>0, <1>1, <2>1
  <2>2. CASE inbox # <<>> /\ inbox' = Tail(inbox)
    BY <1>0, <1>1, <2>2, TailFacts
  <2>3. ASSUME NEW kind \in {"yes", "no", "stop"}, NEW for \in 0..asked,
               Says(kind, for)
        PROVE  inbox' \in Seq(Line) /\ \A i \in DOMAIN inbox' : inbox'[i].for <= asked'
    <3>1. /\ inbox' \in Seq(Line) /\ Len(inbox) \in Nat
          /\ DOMAIN inbox = 1 .. Len(inbox)
          /\ DOMAIN inbox' = 1 .. Len(inbox) + 1
          /\ \A i \in DOMAIN inbox : inbox'[i] = inbox[i]
          /\ inbox'[Len(inbox) + 1].for = for
      BY <1>0, <2>3, SaysFacts
    <3>2. \A i \in DOMAIN inbox' : i \in DOMAIN inbox \/ i = Len(inbox) + 1
      BY <3>1
    <3>3. for <= asked'
      BY <1>0, <1>1
    <3> QED
      BY <1>0, <1>1, <3>1, <3>2, <3>3
  <2>4. answered \in 0..asked /\ asked \in 0..asked /\ 0 \in 0..asked
    BY <1>0
  <2>5. CASE \E kind \in {"yes", "no"} : Answer(kind)
    BY <2>3, <2>4, <2>5 DEF Answer
  <2>6. CASE Repeat
    BY <2>3, <2>4, <2>6 DEF Repeat
  <2>7. CASE AgentStop
    BY <2>3, <2>4, <2>7 DEF AgentStop
  <2> QED
    BY <2>1, <2>2, <2>5, <2>6, <2>7, LineSteps
<1> QED
  BY <1>1, <1>2 DEF LineTypes

(* The client's answers, and what the run remembers of them.               *)
LEMMA ClientStep ==
    ASSUME TypeInv, [Next]_vars
    PROVE  ClientTypes'
<1>0. /\ answered \in Nat /\ answered <= asked /\ approval \in Nat /\ approval <= asked
      /\ asked \in Nat /\ asked' \in Nat /\ asked <= asked'
  BY AskSteps DEF TypeInv, TypeOK, LineTypes
<1>1. answered' = answered \/ answered' = asked
  BY DEF Next, RunStep, ProviderFails, Reply, Nudge, Resort, Close, Skip,
      Finalizar,
         CheckStop, OverBudget, Begin, Confirmed, Declined, Simulated,
         SnapshotFails,
         Executed, Failed, Settle, EndOfTurn, RecordRun, RecordFails, Answer,
         Repeat, AgentStop,
         Leave, TimePasses, Elsewhere, client, vars
<1>2. answered' \in 0..asked'
  BY <1>0, <1>1
<1>3. approval' = approval \/ Confirmed
  BY DEF Next, RunStep, ProviderFails, Reply, Nudge, Resort, Close, Skip,
      Finalizar,
         CheckStop, OverBudget, Begin, Declined, Simulated, SnapshotFails,
         Executed, Failed, Settle, EndOfTurn, RecordRun, RecordFails, Answer,
         Repeat, AgentStop,
         Leave, TimePasses, Elsewhere, client, vars
<1>4. approval' \in 0..asked'
  <2>1. CASE approval' = approval
    BY <1>0, <2>1
  <2>2. CASE Confirmed
    <3>1. approval' = inbox[1].for /\ 1 \in DOMAIN inbox
      BY <2>2, TailFacts DEF Confirmed
    <3>2. inbox[1] \in Line
      BY <3>1, LenProperties DEF TypeInv, LineTypes
    <3>3. inbox[1].for \in Nat /\ inbox[1].for <= asked
      BY <3>1, <3>2 DEF Line, TypeInv, LineTypes
    <3> QED
      BY <1>0, <3>1, <3>3
  <2> QED
    BY <1>3, <2>1, <2>2
<1>5. /\ ran \in BOOLEAN /\ journalled \in BOOLEAN /\ dry \in BOOLEAN
      /\ present \in BOOLEAN /\ heard \in BOOLEAN
  BY DEF TypeInv, TypeOK
<1>6. ran' \in BOOLEAN /\ journalled' \in BOOLEAN
  BY <1>5, DiskSteps DEF disk, Executed, Failed, RecordRun
<1>7. present' = present \/ present' = FALSE
  BY DEF Next, RunStep, ProviderFails, Reply, Nudge, Resort, Close, Skip,
      Finalizar,
         CheckStop, OverBudget, Begin, Confirmed, Declined, Simulated,
         SnapshotFails,
         Executed, Failed, Settle, EndOfTurn, RecordRun, RecordFails, Answer,
         Repeat, AgentStop,
         Leave, TimePasses, Elsewhere, client, vars
<1>8. heard' = heard \/ heard' = (heard \/ Stops)
  BY DEF Next, RunStep, ProviderFails, Reply, Nudge, Resort, Close, Skip,
      Finalizar,
         CheckStop, OverBudget, Begin, Confirmed, Declined, Simulated,
         SnapshotFails,
         Executed, Failed, Settle, EndOfTurn, RecordRun, RecordFails, Answer,
         Repeat, AgentStop,
         Leave, TimePasses, Elsewhere, Consult, NoConsult, vars
<1> QED
  BY <1>2, <1>4, <1>5, <1>6, <1>7, <1>8 DEF ClientTypes

(* Every step keeps the types.                                             *)
LEMMA TypeStep == ASSUME TypeInv, BudgetInv, [Next]_vars PROVE TypeInv'
<1>1. BudgetInv'
  BY BudgetStep
<1>2. steps' \in Nat /\ tried' \in Nat
  BY <1>1 DEF BudgetInv, Charged
<1>3. PlaceTypes' /\ CallTypes' /\ DiskTypes' /\ ClientTypes' /\ LineTypes'
  BY PlaceStep, CallStep, DiskStep, ClientStep, LineTypeStep
<1>4. (TypeOK <=> /\ PlaceTypes /\ CallTypes /\ DiskTypes /\ ClientTypes
                  /\ steps \in Nat /\ tried \in Nat)'
  BY TypeParts, PTL
<1> QED
  BY <1>2, <1>3, <1>4 DEF TypeInv

(* The three of them are invariants.                                       *)
LEMMA TypeInvariant == Spec => [](TypeInv /\ BudgetInv /\ Over)
BY TypeInit, TypeStep, BudgetInit, BudgetStep, OverInit, OverStep, PTL DEF Spec

(* Every variable of a run keeps its type, the call at hand is one of the  *)
(* turn, and nothing is taken off a budget of which nothing was spent.     *)
THEOREM TypeCorrect == Spec => []TypeOK
<1>1. TypeInv => TypeOK
  BY DEF TypeInv
<1> QED
  BY <1>1, TypeInvariant, PTL

-----------------------------------------------------------------------------
(* Restoring the snapshot takes all back.                                  *)

(* Each path is captured once, by an earlier step; what no entry holds is  *)
(* untouched; what an entry holds was untouched when it was captured,      *)
(* unless an entry of an earlier step holds it too.                        *)
SnapInv ==
    /\ \A e, d \in snap : e.place = d.place => e.saved = d.saved /\ e.step = d.step
    /\ \A e \in snap : e.step < tried
    /\ \A f \in Files \ Unkept : (\A e \in snap : f \notin e.place) => ws[f] = "old"
    /\ \A e \in snap : \A f \in e.place \ Unkept :
         \/ e.saved[f] = "old"
         \/ \E d \in snap : d.step < e.step /\ f \in d.place

(* A tool that writes below what it declared keeps it.                     *)
LEMMA ToolSnap ==
    ASSUME TypeInv, SnapInv, NEW part \in SUBSET Files, part \in SUBSET Reach(Now),
           Extend, Write(part), pc = "execute", tried' = tried + 1
    PROVE  SnapInv'
<1>1. /\ \A f \in Files : f \notin part => ws'[f] = ws[f]
      /\ \A e \in snap : e \in snap'
      /\ \A e \in snap' \ snap :
           /\ e.place \in Now.paths /\ e.saved = ws /\ e.step = tried
           /\ \A d \in snap : d.place # e.place
      /\ Kept => \A q \in Now.paths : \E e \in snap' : e.place = q
  BY ToolFacts
<1>2. Now.paths \in SUBSET SUBSET Files /\ tried \in Nat
  BY ToolFacts DEF TypeInv, TypeOK
<1>3. \A e \in snap : e.step \in Nat
  BY DEF TypeInv, TypeOK
<1>4. \A e, d \in snap' : e.place = d.place => e.saved = d.saved /\ e.step = d.step
  <2> SUFFICES ASSUME NEW e \in snap', NEW d \in snap', e.place = d.place
               PROVE  e.saved = d.saved /\ e.step = d.step
    OBVIOUS
  <2>1. CASE e \in snap /\ d \in snap
    BY <2>1 DEF SnapInv
  <2>2. CASE e \notin snap /\ d \notin snap
    BY <1>1, <2>2
  <2>3. CASE (e \in snap /\ d \notin snap) \/ (e \notin snap /\ d \in snap)
    BY <1>1, <2>3
  <2> QED
    BY <2>1, <2>2, <2>3
<1>5. \A e \in snap' : e.step < tried'
  <2> SUFFICES ASSUME NEW e \in snap' PROVE e.step < tried'
    OBVIOUS
  <2>1. CASE e \in snap
    BY <1>2, <1>3, <2>1 DEF SnapInv
  <2>2. CASE e \notin snap
    BY <1>1, <1>2, <2>2
  <2> QED
    BY <2>1, <2>2
<1>6. ASSUME NEW f \in Files \ Unkept, \A e \in snap' : f \notin e.place
      PROVE  ws'[f] = "old"
  <2>1. f \notin part
    <3>1. CASE Kept
      <4>1. \A q \in Now.paths : f \notin q
        BY <1>1, <1>6, <3>1
      <4> QED
        BY <4>1 DEF Reach
    <3>2. CASE ~Kept
      BY <1>6, <3>2, ReachFacts
    <3> QED
      BY <3>1, <3>2
  <2>2. ws[f] = "old"
    BY <1>1, <1>6 DEF SnapInv
  <2> QED
    BY <1>1, <2>1, <2>2
<1>7. ASSUME NEW e \in snap', NEW f \in e.place \ Unkept
      PROVE  \/ e.saved[f] = "old"
             \/ \E d \in snap' : d.step < e.step /\ f \in d.place
  <2>1. CASE e \in snap
    BY <1>1, <2>1 DEF SnapInv
  <2>2. CASE e \notin snap
    <3>1. f \in Files /\ e.saved = ws /\ e.step = tried
      BY <1>1, <1>2, <2>2
    <3>2. CASE \E d \in snap : f \in d.place
      BY <1>1, <3>1, <3>2 DEF SnapInv
    <3>3. CASE \A d \in snap : f \notin d.place
      BY <3>1, <3>3 DEF SnapInv
    <3> QED
      BY <3>2, <3>3
  <2> QED
    BY <2>1, <2>2
<1> QED
  BY <1>4, <1>5, <1>6, <1>7 DEF SnapInv

(* Every step keeps the account of the snapshot.                           *)
LEMMA SnapStep == ASSUME TypeInv, SnapInv, [Next]_vars PROVE SnapInv'
<1>1. CASE UNCHANGED <<ws, snap, tried>>
  BY <1>1 DEF SnapInv
<1>2. CASE Executed
  <2>1. Reach(Now) \in SUBSET Files
    BY <1>2, ReachFacts DEF Executed
  <2> QED
    BY <1>2, <2>1, ToolSnap DEF Executed
<1>3. ASSUME NEW part \in SUBSET Files, Failed(part) PROVE SnapInv'
  BY <1>3, ToolSnap DEF Failed
<1> QED
  BY <1>1, <1>2, <1>3, DiskSteps DEF disk

(* The snapshot of every moment of a run.                                  *)
LEMMA SnapInvariant == Spec => [](TypeInv /\ SnapInv)
<1>1. Init => SnapInv
  BY DEF Init, SnapInv
<1>2. TypeInv /\ SnapInv /\ [Next]_vars => SnapInv'
  BY SnapStep
<1> QED
  BY <1>1, <1>2, TypeInvariant, PTL DEF Spec

(* While no step captures around or below what an earlier one captured,    *)
(* restoring the snapshot of a run gives back every file it wrote, but for *)
(* the scratch of tools that keep none, at any moment and whatever failed: *)
(* snapshot::extend before every tool.                                     *)
THEOREM UndoCorrect == Spec => []UndoTakesAllBack
<1>1. TypeInv /\ SnapInv => UndoTakesAllBack
  <2> SUFFICES ASSUME TypeInv, SnapInv, Flat, NEW f \in Files \ Unkept
               PROVE  Undone(f) = "old"
    BY DEF UndoTakesAllBack
  <2> DEFINE holding == {e \in snap : f \in e.place}
             last    == CHOOSE e \in holding : \A d \in holding : d.step <= e.step
  <2>1. CASE holding = {}
    BY <2>1 DEF Undone, SnapInv
  <2>2. CASE holding # {}
    <3>1. PICK e \in snap : f \in e.place
      BY <2>2
    <3>2. \A d \in snap : d.step \in Nat
      BY DEF TypeInv, TypeOK
    <3>3. \A d \in holding : d.step = e.step
      BY <3>1 DEF Flat, SnapInv
    <3>4. e \in holding /\ \A d \in holding : d.step <= e.step
      BY <3>1, <3>2, <3>3
    <3>5. last \in holding
      BY <3>4
    <3>6. Undone(f) = last.saved[f]
      BY <2>2 DEF Undone
    <3> HIDE DEF last
    <3>7. last \in snap /\ f \in last.place \ Unkept
      BY <3>5
    <3>8. \A d \in snap : f \in d.place => ~(d.step < last.step)
      BY <3>2, <3>3, <3>5, <3>7
    <3>9. last.saved[f] = "old"
      BY <3>7, <3>8 DEF SnapInv
    <3> QED
      BY <3>6, <3>9
  <2> QED
    BY <2>1, <2>2
<1> QED
  BY <1>1, SnapInvariant, PTL

-----------------------------------------------------------------------------
(* What was written is in the journal.                                     *)

Recorded ==
    /\ pc = "done" /\ reason # "aborted" => journalled = (ran /\ ~dry)
    /\ whole # {} => ran

(* Every step keeps the account of what was written.                       *)
LEMMA RecordedStep ==
    ASSUME TypeInv, Recorded, [Next]_vars
    PROVE  Recorded'
<1>1. CASE Executed
  BY <1>1 DEF Executed, Recorded
<1>2. ASSUME NEW part \in SUBSET Files, Failed(part) PROVE Recorded'
  BY <1>2 DEF Failed, Recorded
<1>3. CASE RecordRun
  BY <1>3 DEF RecordRun, Recorded
<1>4. CASE UNCHANGED disk
  <2>1. UNCHANGED <<whole, ran, journalled>>
    BY <1>4 DEF disk
  <2>2. \/ pc' # "done" \/ reason' = "aborted" \/ UNCHANGED <<pc, reason>>
        \/ Executed \/ (\E part \in SUBSET Files : Failed(part)) \/ RecordRun
    BY DEF Next, RunStep, ProviderFails, Reply, Nudge, Resort, Close, Skip,
        Finalizar,
           CheckStop, OverBudget, Begin, Confirmed, Declined, Simulated,
           SnapshotFails,
           Settle, EndOfTurn, RecordFails, Answer, Repeat, AgentStop,
           Leave, TimePasses, Elsewhere, loop, vars, End, Abort, Sending,
           AtCall
  <2>3. dry' = dry
    BY DEF Next, RunStep, ProviderFails, Reply, Nudge, Resort, Close, Skip,
        Finalizar,
           CheckStop, OverBudget, Begin, Confirmed, Declined, Simulated,
           SnapshotFails,
           Executed, Failed, RecordRun, RecordFails, Settle, EndOfTurn,
           Answer, Repeat,
           AgentStop, Leave, TimePasses, Elsewhere, vars
  <2>4. CASE pc' # "done" \/ reason' = "aborted" \/ UNCHANGED <<pc, reason>>
    BY <2>1, <2>3, <2>4 DEF Recorded
  <2> QED
    BY <1>1, <1>2, <1>3, <2>2, <2>4
<1> QED
  BY <1>1, <1>2, <1>3, <1>4, DiskSteps

(* A run that is over and in which a tool wrote to the end has its record  *)
(* in the journal, whatever ended it and whatever else failed, and the     *)
(* snapshot of that record holds all that changed: the end of run after    *)
(* the loop, and snapshot::extend before every tool.                       *)
THEOREM RecordCorrect == Spec => []WrittenIsRecorded
<1>1. Init => Recorded
  BY DEF Init, Recorded
<1>2. Recorded /\ SnapInv => WrittenIsRecorded
  BY DEF Recorded, SnapInv, WrittenIsRecorded
<1>3. TypeInv /\ Recorded /\ [Next]_vars => Recorded'
  BY RecordedStep
<1> QED
  BY <1>1, <1>2, <1>3, SnapInvariant, PTL DEF Spec

-----------------------------------------------------------------------------
(* A proposal is executed on its own answer.                               *)

NoYes == \A i \in DOMAIN inbox : inbox[i].kind # "yes"
OnlyFirst == \A i \in DOMAIN inbox : inbox[i].kind = "yes" => i = 1
Fresh == \A i \in DOMAIN inbox : inbox[i].kind = "yes" =>
             inbox[i].for = asked /\ (i <= 2 \/ inbox[1].kind # "yes")

(* Where an old yes can be while the turn goes on: first in the stream,    *)
(* where the look before a proposal takes it, and then nowhere.            *)
LinesInv == ~crossed /\ ~TurnOver =>
    /\ pc \in {"turn", "prose", "call", "execute", "settle", "looping"} => OnlyFirst
    /\ pc = "begin" \/ (pc = "confirm" /\ answered # asked) => NoYes
    /\ pc = "confirm" /\ answered = asked => Fresh
    /\ pc = "execute" /\ Now.kind = "confirm" => approval = asked

(* should_stop takes the first line.                                       *)
LEMMA ConsultYes ==
    ASSUME TypeInv, Consult \/ NoConsult
    PROVE  /\ OnlyFirst => OnlyFirst'
           /\ NoYes => NoYes'
           /\ Consult /\ OnlyFirst => NoYes'
<1>1. CASE inbox # <<>> /\ inbox' = Tail(inbox)
  <2>1. \A i \in DOMAIN inbox' : i \in Nat /\ i >= 1 /\ i + 1 \in DOMAIN inbox
                                 /\ inbox'[i] = inbox[i + 1]
    BY <1>1, TailFacts
  <2>2. \A i \in DOMAIN inbox' : i + 1 # 1
    BY <2>1
  <2>3. OnlyFirst => NoYes'
    BY <2>1, <2>2 DEF OnlyFirst, NoYes
  <2>4. NoYes => NoYes'
    BY <2>1 DEF NoYes
  <2>5. NoYes' => OnlyFirst'
    BY DEF NoYes, OnlyFirst
  <2> QED
    BY <2>3, <2>4, <2>5
<1>2. CASE inbox' = inbox
  <2>1. Consult => inbox' = <<>> \/ (inbox # <<>> /\ inbox' = Tail(inbox))
    BY <1>2 DEF Consult
  <2>2. inbox' = <<>> => NoYes'
    BY EmptySeq DEF NoYes
  <2>3. OnlyFirst => OnlyFirst'
    BY <1>2 DEF OnlyFirst
  <2>4. NoYes => NoYes'
    BY <1>2 DEF NoYes
  <2> QED
    BY <1>1, <2>1, <2>2, <2>3, <2>4
<1> QED
  BY <1>1, <1>2 DEF Consult, NoConsult

(* A line that is not a yes changes nothing of it.                         *)
LEMMA SaysOther ==
    ASSUME TypeInv, NEW kind \in {"no", "stop"}, NEW for \in Nat, Says(kind, for),
           asked' = asked
    PROVE  /\ OnlyFirst => OnlyFirst'
           /\ NoYes => NoYes' /\ Fresh'
           /\ Fresh => Fresh'
<1> DEFINE n == Len(inbox) + 1
<1>1. /\ Len(inbox) \in Nat /\ DOMAIN inbox = 1 .. Len(inbox)
      /\ DOMAIN inbox' = 1 .. n
      /\ \A i \in DOMAIN inbox : inbox'[i] = inbox[i]
      /\ inbox'[n].kind = kind
  BY SaysFacts
<1>2. \A i \in DOMAIN inbox' : inbox'[i].kind = "yes" =>
         i \in DOMAIN inbox /\ inbox'[i] = inbox[i]
  <2>1. \A i \in DOMAIN inbox' : i \in DOMAIN inbox \/ i = n
    BY <1>1
  <2> QED
    BY <1>1, <2>1
<1>3. OnlyFirst => OnlyFirst'
  BY <1>2 DEF OnlyFirst
<1>4. NoYes => NoYes'
  BY <1>2 DEF NoYes
<1>5. NoYes' => Fresh'
  BY DEF NoYes, Fresh
<1>6. Fresh => Fresh'
  <2> SUFFICES ASSUME Fresh, NEW i \in DOMAIN inbox', inbox'[i].kind = "yes"
               PROVE  inbox'[i].for = asked' /\ (i <= 2 \/ inbox'[1].kind # "yes")
    BY DEF Fresh
  <2>1. /\ i \in DOMAIN inbox /\ inbox'[i] = inbox[i] /\ inbox[i].kind = "yes"
    BY <1>2
  <2>2. inbox[i].for = asked /\ (i <= 2 \/ inbox[1].kind # "yes")
    BY <2>1 DEF Fresh
  <2>3. 1 \in DOMAIN inbox
    BY <1>1, <2>1
  <2> QED
    BY <1>1, <2>1, <2>2, <2>3
<1> QED
  BY <1>3, <1>4, <1>5, <1>6

(* A yes to the proposal at hand, alone or after one more.                 *)
LEMMA SaysYes ==
    ASSUME TypeInv, NEW for \in Nat, Says("yes", for), asked' = asked
    PROVE  /\ Len(inbox) <= 0 => OnlyFirst'
           /\ NoYes /\ for = asked => Fresh'
           /\ Fresh /\ for = asked /\ Len(inbox) <= 1 => Fresh'
<1> DEFINE n == Len(inbox) + 1
<1>1. /\ Len(inbox) \in Nat /\ DOMAIN inbox = 1 .. Len(inbox)
      /\ DOMAIN inbox' = 1 .. n
      /\ \A i \in DOMAIN inbox : inbox'[i] = inbox[i]
      /\ inbox'[n].kind = "yes" /\ inbox'[n].for = for
  BY SaysFacts
<1>2. \A i \in DOMAIN inbox' : i \in DOMAIN inbox \/ i = n
  BY <1>1
<1>3. Len(inbox) <= 0 => OnlyFirst'
  BY <1>1 DEF OnlyFirst
<1>4. NoYes /\ for = asked => Fresh'
  <2> SUFFICES ASSUME NoYes, for = asked, NEW i \in DOMAIN inbox',
                      inbox'[i].kind = "yes"
               PROVE  inbox'[i].for = asked' /\ (i <= 2 \/ inbox'[1].kind # "yes")
    BY DEF Fresh
  <2>1. i = n
    BY <1>1, <1>2 DEF NoYes
  <2>2. CASE i <= 2
    BY <1>1, <2>1, <2>2
  <2>3. CASE ~(i <= 2)
    <3>1. 1 \in DOMAIN inbox
      BY <1>1, <2>1, <2>3
    <3> QED
      BY <1>1, <2>1, <3>1 DEF NoYes
  <2> QED
    BY <2>2, <2>3
<1>5. Fresh /\ for = asked /\ Len(inbox) <= 1 => Fresh'
  <2> SUFFICES ASSUME Fresh, for = asked, Len(inbox) <= 1, NEW i \in DOMAIN inbox',
                      inbox'[i].kind = "yes"
               PROVE  inbox'[i].for = asked' /\ i <= 2
    BY DEF Fresh
  <2>1. i <= 2
    BY <1>1
  <2>2. CASE i = n
    BY <1>1, <2>1, <2>2
  <2>3. CASE i \in DOMAIN inbox
    BY <1>1, <2>1, <2>3 DEF Fresh
  <2> QED
    BY <1>2, <2>2, <2>3
<1> QED
  BY <1>3, <1>4, <1>5

(* on_confirm reads the answer to the proposal at hand.                    *)
LEMMA ConfirmedYes ==
    ASSUME TypeInv, Confirmed, answered # asked => NoYes, answered = asked => Fresh
    PROVE  approval' = asked' /\ OnlyFirst'
<1>1. /\ inbox # <<>> /\ Head(inbox).kind = "yes" /\ inbox' = Tail(inbox)
      /\ approval' = Head(inbox).for /\ asked' = asked
  BY DEF Confirmed, client
<1>2. /\ Head(inbox) = inbox[1] /\ 1 \in DOMAIN inbox
      /\ \A i \in DOMAIN inbox' : i \in Nat /\ i >= 1 /\ i + 1 \in DOMAIN inbox
                                  /\ inbox'[i] = inbox[i + 1]
  BY <1>1, TailFacts
<1>3. Fresh
  BY <1>1, <1>2 DEF NoYes
<1>4. OnlyFirst'
  <2> SUFFICES ASSUME NEW i \in DOMAIN inbox', inbox'[i].kind = "yes" PROVE i = 1
    BY DEF OnlyFirst
  <2>1. i + 1 <= 2
    BY <1>1, <1>2, <1>3 DEF Fresh
  <2> QED
    BY <1>2, <2>1
<1> QED
  BY <1>1, <1>2, <1>3, <1>4 DEF Fresh

(* Every step of the run, of the client and of time keeps it so.           *)
LEMMA LinesStep == ASSUME TypeInv, Over, LinesInv, [Next]_vars PROVE LinesInv'
<1>a. pc = "turn" => ~TurnOver
  BY DEF Over
<1>b. asked \in Nat /\ answered \in Nat /\ answered <= asked
  BY DEF TypeInv, TypeOK, LineTypes
<1>c. ASSUME Consult \/ NoConsult
      PROVE  /\ OnlyFirst => OnlyFirst'
             /\ NoYes => NoYes'
             /\ Consult /\ OnlyFirst => NoYes'
  BY <1>c, ConsultYes
<1>d. NoYes' => OnlyFirst'
  BY DEF NoYes, OnlyFirst
<1>1. CASE ProviderFails
  BY <1>a, <1>b, <1>c, <1>d, <1>1 DEF ProviderFails, End, LinesInv, TurnOver,
      client
<1>2. ASSUME NEW turn \in Turns, NEW text \in BOOLEAN, Reply(turn, text) PROVE LinesInv'
  BY <1>a, <1>b, <1>c, <1>d, <1>2 DEF Reply, Abort, LinesInv, TurnOver, client
<1>3. CASE Nudge
  BY <1>a, <1>b, <1>c, <1>d, <1>3 DEF Nudge, LinesInv, TurnOver, Now, client
<1>4. ASSUME NEW point \in {"resort", "looping"}, NEW why, Resort(point, why) PROVE LinesInv'
  BY <1>a, <1>b, <1>c, <1>d, <1>4 DEF Resort, LinesInv, TurnOver, client
<1>5. ASSUME NEW given \in BOOLEAN, Close(given) PROVE LinesInv'
  BY <1>a, <1>b, <1>c, <1>d, <1>5 DEF Close, Sending, End, Abort, LinesInv,
      TurnOver, client
<1>6. CASE Skip
  BY <1>a, <1>b, <1>c, <1>d, <1>6 DEF Skip, AtCall, LinesInv, TurnOver, client
<1>7. CASE Finalizar
  BY <1>a, <1>b, <1>c, <1>d, <1>7 DEF Finalizar, AtCall, LinesInv, TurnOver,
      client
<1>8. CASE CheckStop
  BY <1>a, <1>b, <1>c, <1>d, <1>8 DEF CheckStop, AtCall, LinesInv, TurnOver,
      client
<1>9. CASE OverBudget
  BY <1>a, <1>b, <1>c, <1>d, <1>9 DEF OverBudget, LinesInv, TurnOver, client
<1>10. CASE Begin
  BY <1>a, <1>b, <1>c, <1>d, <1>10 DEF Begin, Sending, Abort, LinesInv,
      TurnOver, Now, client
<1>11. CASE Simulated
  BY <1>a, <1>b, <1>c, <1>d, <1>11 DEF Simulated, LinesInv, TurnOver, client
<1>12. CASE Executed
  BY <1>a, <1>b, <1>c, <1>d, <1>12 DEF Executed, LinesInv, TurnOver, client
<1>13. ASSUME NEW part \in SUBSET Files, Failed(part) PROVE LinesInv'
  BY <1>a, <1>b, <1>c, <1>d, <1>13 DEF Failed, LinesInv, TurnOver, client
<1>14. CASE SnapshotFails
  BY <1>a, <1>b, <1>c, <1>d, <1>14 DEF SnapshotFails, Abort, LinesInv,
      TurnOver, client
<1>15. CASE Settle
  BY <1>a, <1>b, <1>c, <1>d, <1>15 DEF Settle, Sending, Abort, LinesInv,
      TurnOver, client
<1>16. CASE EndOfTurn
  BY <1>a, <1>b, <1>c, <1>d, <1>16 DEF EndOfTurn, End, LinesInv, TurnOver,
      client
<1>17. CASE RecordRun
  BY <1>a, <1>b, <1>c, <1>d, <1>17 DEF RecordRun, LinesInv, TurnOver, client
<1>25. CASE RecordFails
  BY <1>25 DEF RecordFails, Abort, LinesInv
<1>18. CASE Confirmed
  <2>1. /\ pc = "confirm" /\ pc' = "execute"
        /\ UNCHANGED <<calls, at, flags, asked, answered, crossed>>
    BY <1>18 DEF Confirmed, loop, client
  <2>2. ~crossed /\ ~TurnOver => approval' = asked' /\ OnlyFirst'
    BY <1>18, <2>1, ConfirmedYes DEF LinesInv
  <2> QED
    BY <2>1, <2>2 DEF LinesInv, TurnOver
<1>19. CASE Declined
  BY <1>19 DEF Declined, LinesInv, TurnOver
<1>20. ASSUME NEW kind \in {"yes", "no"}, Answer(kind) PROVE LinesInv'
  <2>1. /\ pc = "confirm" /\ pc' = pc /\ answered # asked
        /\ UNCHANGED <<calls, at, flags, asked, crossed, approval>>
        /\ answered' = asked /\ Says(kind, asked)
    BY <1>b, <1>20 DEF Answer, Elsewhere, loop
  <2>2. NoYes => Fresh'
    <3>1. CASE kind = "yes"
      BY <1>b, <2>1, <3>1, SaysYes
    <3>2. CASE kind = "no"
      BY <1>b, <2>1, <3>2, SaysOther
    <3> QED
      BY <3>1, <3>2
  <2> QED
    BY <2>1, <2>2 DEF LinesInv, TurnOver
<1>21. CASE Repeat
  <2>1. /\ UNCHANGED <<pc, calls, at, flags, asked, answered, approval>>
        /\ Says("yes", answered)
        /\ ~crossed' => /\ ~crossed /\ pc # "begin"
                        /\ pc = "confirm" => answered = asked /\ Len(inbox) <= 1
                        /\ pc # "confirm" => Len(inbox) <= 0
    <3>1. Len(inbox) \in Nat
      BY LenProperties DEF TypeInv, LineTypes
    <3> QED
      BY <1>b, <1>21, <3>1 DEF Repeat, Elsewhere, loop
  <2>2. /\ Len(inbox) <= 0 => OnlyFirst'
        /\ Fresh /\ answered = asked /\ Len(inbox) <= 1 => Fresh'
    BY <1>b, <2>1, SaysYes
  <2> QED
    BY <2>1, <2>2 DEF LinesInv, TurnOver, Now
<1>22. CASE AgentStop
  <2>1. /\ UNCHANGED <<pc, calls, at, flags, asked, answered, crossed, approval>>
        /\ Says("stop", 0)
    BY <1>22 DEF AgentStop, Elsewhere, loop
  <2>2. (OnlyFirst => OnlyFirst') /\ (NoYes => NoYes') /\ (Fresh => Fresh')
    BY <2>1, SaysOther
  <2> QED
    BY <2>1, <2>2 DEF LinesInv, TurnOver, Now
<1>23. ASSUME UNCHANGED <<pc, loop, inbox, asked, answered, crossed, approval>>
      PROVE  LinesInv'
  BY <1>23 DEF loop, LinesInv, TurnOver, Now, OnlyFirst, NoYes, Fresh
<1>24. CASE Leave \/ TimePasses \/ UNCHANGED vars
  BY <1>23, <1>24 DEF Leave, TimePasses, Elsewhere, client, vars
<1> QED
  BY <1>1, <1>2, <1>3, <1>4, <1>5, <1>6, <1>7, <1>8, <1>9, <1>10, <1>11,
      <1>12, <1>13, <1>14, <1>15, <1>16, <1>17, <1>18, <1>19, <1>20, <1>21, <1>22, <1>24, <1>25 DEF Next, RunStep

(* A tool that needs a confirmation runs on the answer to its own proposal *)
(* although the client may answer twice, until an answer is repeated where *)
(* should_stop does not take it: on_confirm and should_stop.               *)
THEOREM ApprovalCorrect == Spec => []ApprovedWasShown
<1>1. Init => LinesInv
  BY EmptySeq DEF Init, LinesInv, OnlyFirst
<1>2. Over /\ LinesInv => ApprovedWasShown
  BY DEF Over, LinesInv, ApprovedWasShown
<1>3. TypeInv /\ Over /\ LinesInv /\ [Next]_vars => LinesInv'
  BY LinesStep
<1> QED
  BY <1>1, <1>2, <1>3, TypeInvariant, PTL DEF Spec
=============================================================================
