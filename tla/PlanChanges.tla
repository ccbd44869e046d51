----------------------------- MODULE PlanChanges ----------------------------
(***************************************************************************)
(* How antosd turns a plan into changes, shows them and applies them       *)
(* (system/antosd/src/exec, preview.rs and the parts of session.rs that    *)
(* call them).                                                             *)
(*                                                                         *)
(* The changes of every step are computed in order, each step seeing what  *)
(* the ones before it decided through the overlay PendingChanges; then     *)
(* they are rendered, with an overlay of the renderer's own, for a person  *)
(* to approve, and applied one by one.  A change that fails puts the       *)
(* snapshot back.  The files may be edited from outside at any time.       *)
(*                                                                         *)
(* A file is a set of items, each of which it holds once: the lines of a   *)
(* source or the packages of a declaration.                                *)
(***************************************************************************)
EXTENDS Naturals, Sequences, SequencesExt

CONSTANTS
    Files,       \* paths of files
    Dir,         \* the path of a directory
    Inside,      \* the files in it
    Legacy,      \* the old name of a package declaration ...
    Declared,    \* ... and its name today
    Items,
    Rejected,    \* items of a file that the syntax guard refuses to write
    Disks,       \* contents of the files at the start
    Plans,       \* sequences of steps a planner may propose
    MaxEdits     \* bound: edits from outside

Paths == Files \cup {Dir}
Entry == [here : BOOLEAN, items : SUBSET Items]

(* A change of a file, as a step or as what a step is turned into.         *)
Change ==
    [op : {"write"}, path : Files, items : SUBSET Items]
      \cup [op : {"patch"}, path : Files, old : Items, new : Items]
      \cup [op : {"delete", "read"}, path : Paths]
      \cup [op : {"mkdir"}, path : {Dir}]
PlannedStep ==
    [op : {"declare"}, item : Items]
      \cup [op : {"scaffold"}, paths : Seq(Files), items : SUBSET Items]
      \cup Change

(* What is on a disk: what is in a directory that is there.                *)
Possible(d) ==
    /\ \A p \in Inside : d[p].here => d[Dir].here
    /\ \A p \in Files : d[p].items # {} => d[p].here

(* Both names of a declaration are in one directory, changes_for joins     *)
(* them to the same path.                                                  *)
ASSUME PlanAssumption ==
    /\ Dir \notin Files /\ Inside \subseteq Files
    /\ {Legacy, Declared} \subseteq Files /\ Legacy # Declared
    /\ Legacy \in Inside <=> Declared \in Inside
    /\ Rejected \subseteq Items /\ MaxEdits \in Nat
    /\ \A d \in Disks : d \in [Paths -> Entry] /\ Possible(d)
    /\ \A steps \in Plans : steps \in Seq(PlannedStep)

VARIABLES
    disk,       \* what is at each path
    plan,       \* the steps that remain to be turned into changes
    changes,    \* the changes computed
    pending,    \* the overlay: what is known of a path, or nothing
    phase, i,   \* where the session is, and the change it is at
    shown,      \* what the person was shown each path will be
    radius,     \* the paths the plan declares to touch, which snapshot::take
                \* saves
    snap,       \* the snapshot
    edits,
    edited,     \* history: paths edited from outside since the diff
    blind       \* history: paths with a change that did not see another one

planVars == <<disk, plan, changes, pending, phase, i, shown, radius, snap,
          edits, edited, blind>>
history == <<edits, edited, blind>>

File(c) == [here |-> TRUE, items |-> c]
Absent == [here |-> FALSE, items |-> {}]

Unknown == [known |-> FALSE, items |-> {}]
Known(c) == [known |-> TRUE, items |-> c]
Nothing == [p \in Paths |-> Unknown]

(* Blast::compute: what each step declares, and the directory of a file    *)
(* that is written when it has to be made.                                 *)
StepPaths(s) ==
    IF s.op = "declare" THEN {Declared}
    ELSE IF s.op = "scaffold" THEN Range(s.paths)
    ELSE IF s.op = "read" THEN {} ELSE {s.path}
StepWrites(s) == IF s.op = "delete" THEN {} ELSE StepPaths(s)
Radius(steps, d) ==
    LET P == UNION {StepPaths(s) : s \in Range(steps)}
        W == UNION {StepWrites(s) : s \in Range(steps)}
        Q == IF W \cap Inside # {} /\ ~d[Dir].here THEN P \cup {Dir} ELSE P
    IN  IF Dir \in Q THEN Q \cup Inside ELSE Q

PlanInit ==
    /\ disk \in Disks /\ plan \in Plans
    /\ changes = <<>> /\ pending = Nothing
    /\ phase = "planning" /\ i = 1
    /\ shown = disk /\ snap = disk /\ radius = Radius(plan, disk)
    /\ edits = 0 /\ edited = {} /\ blind = {}

-----------------------------------------------------------------------------
(* PendingChanges                                                          *)

(* Mutant: a path that is written stays deleted.                           *)
PendingApplyNoUndelete(o, c) ==
    IF c.op = "write" /\ o[c.path] # Known({})
    THEN [o EXCEPT ![c.path] = Known(c.items)]
    ELSE IF c.op = "delete" THEN [o EXCEPT ![c.path] = Known({})]
    ELSE o

(* apply: writes and deletes are kept, a patch and what lies in a deleted  *)
(* directory are not.                                                      *)
PendingApply(o, c) ==
    IF c.op = "write" THEN [o EXCEPT ![c.path] = Known(c.items)]
    ELSE IF c.op = "delete" THEN [o EXCEPT ![c.path] = Known({})]
    ELSE o

(* read_with_pending *)
ReadWithPending(p, d, o) == IF o[p].known THEN o[p].items ELSE d[p].items

-----------------------------------------------------------------------------
(* Changes of a step                                                       *)

Write(p, c) == [op |-> "write", path |-> p, items |-> c]

(* migrate_legacy_path, while the plan is only being computed.             *)
Migrated(d) ==
    IF d[Declared].here \/ ~d[Legacy].here THEN d
    ELSE [d EXCEPT ![Declared] = d[Legacy], ![Legacy] = Absent]

(* changes_for: a declaration adds to what the file will hold by then, a   *)
(* scaffold writes several files, the other steps are one change each.     *)
ChangesFor(s, d) ==
    IF s.op = "declare"
    THEN <<Write(Declared,
                 ReadWithPending(Declared, d, pending) \cup {s.item})>>
    ELSE IF s.op = "scaffold"
    THEN [n \in 1 .. Len(s.paths) |-> Write(s.paths[n], s.items)]
    ELSE <<s>>

(* A change to p whose last predecessor there is one the overlay ignores.  *)
Ignored(c, p) ==
    \/ c.op = "patch" /\ c.path = p
    \/ c.op = "delete" /\ c.path = Dir /\ p \in Inside
Touches(c, p) ==
    /\ c.op \in {"write", "patch", "delete"}
    /\ c.path = p \/ Ignored(c, p)
Blinded(cs, new) ==
    {p \in Files :
        /\ \E c \in Range(new) : c.op \in {"write", "patch"} /\ c.path = p
        /\ \E n \in DOMAIN cs :
            /\ Ignored(cs[n], p)
            /\ \A m \in (n + 1) .. Len(cs) : ~Touches(cs[m], p)}

(* One turn of the loop over plan.steps.                                   *)
PlanStep ==
    /\ phase = "planning" /\ plan # <<>>
    /\ LET s   == Head(plan)
           d   == IF s.op = "declare" THEN Migrated(disk) ELSE disk
           new == ChangesFor(s, d)
       IN  /\ disk' = d
           /\ changes' = changes \o new
           /\ pending' = FoldLeft(PendingApply, pending, new)
           /\ blind' = blind \cup Blinded(changes, new)
    /\ plan' = Tail(plan)
    /\ UNCHANGED <<phase, i, shown, radius, snap, edits, edited>>

-----------------------------------------------------------------------------
(* preview::render                                                         *)

RenderStart ==
    /\ phase = "planning" /\ plan = <<>>
    /\ phase' = "rendering" /\ i' = 1
    /\ pending' = Nothing
    /\ shown' = disk
    /\ UNCHANGED <<disk, plan, changes, radius, snap, history>>

(* A reader of the diff from old to new, who takes the file to hold s.     *)
Follow(s, old, new) == (s \ (old \ new)) \cup (new \ old)
Patched(c, old, new) == (c \ {old}) \cup {new}

ShownAfter(c) ==
    LET p == c.path
        old == ReadWithPending(p, disk, pending)
        s == shown[p].items
    IN  CASE c.op = "write" ->
               [shown EXCEPT ![p] = File(Follow(s, old, c.items)),
                             ![Dir].here = @ \/ p \in Inside]
          [] c.op = "patch" /\ c.old \in old ->
               [shown EXCEPT ![p] =
                  File(Follow(s, old, Patched(old, c.old, c.new)))]
          [] c.op = "delete" ->
               [q \in Paths |->
                  IF q = p \/ (p = Dir /\ q \in Inside) THEN Absent
                  ELSE shown[q]]
          [] c.op = "mkdir" -> [shown EXCEPT ![Dir].here = TRUE]
          [] OTHER -> shown

RenderChange ==
    /\ phase = "rendering" /\ i <= Len(changes)
    /\ shown' = ShownAfter(changes[i])
    /\ pending' = PendingApply(pending, changes[i])
    /\ i' = i + 1
    /\ UNCHANGED <<disk, plan, changes, phase, radius, snap, history>>

-----------------------------------------------------------------------------
(* The answer, and what follows it in session.rs.                          *)

Cancel ==
    /\ phase = "rendering" /\ i > Len(changes)
    /\ phase' = "cancelled"
    /\ UNCHANGED <<disk, plan, changes, pending, i, shown, radius, snap, history>>

(* The snapshot of what the plan touches, and the order to the sandbox.    *)
Approve ==
    /\ phase = "rendering" /\ i > Len(changes)
    /\ phase' = "applying" /\ i' = 1
    /\ snap' = disk
    /\ UNCHANGED <<disk, plan, changes, pending, shown, radius, history>>

(* exec::apply of one change, which may be refused.                        *)
Guarded(c) == c \cap Rejected = {}
Written(p, c) ==
    [disk EXCEPT ![p] = File(c), ![Dir].here = @ \/ p \in Inside]
CanApply(c) ==
    CASE c.op = "write" -> Guarded(c.items)
      [] c.op = "patch" -> /\ c.old \in disk[c.path].items
                           /\ Guarded(Patched(disk[c.path].items, c.old, c.new))
      [] c.op \in {"delete", "read"} -> disk[c.path].here
      [] OTHER -> TRUE

Applied(c) ==
    CASE c.op = "write" -> Written(c.path, c.items)
      [] c.op = "patch" ->
           Written(c.path, Patched(disk[c.path].items, c.old, c.new))
      [] c.op = "delete" ->
           [q \in Paths |->
              IF q = c.path \/ (c.path = Dir /\ q \in Inside)
              THEN Absent ELSE disk[q]]
      [] c.op = "mkdir" -> [disk EXCEPT ![Dir].here = TRUE]
      [] OTHER -> disk

Apply ==
    /\ phase = "applying" /\ i <= Len(changes)
    /\ CanApply(changes[i]) /\ disk' = Applied(changes[i])
    /\ i' = i + 1
    /\ UNCHANGED <<plan, changes, pending, phase, shown, radius, snap, history>>

Executed ==
    /\ phase = "applying" /\ i > Len(changes)
    /\ phase' = "executed"
    /\ UNCHANGED <<disk, plan, changes, pending, i, shown, radius, snap, history>>

(* Mutant: only the path of the change that failed is put back.            *)
FailOne ==
    /\ phase = "applying" /\ i <= Len(changes)
    /\ disk' = [disk EXCEPT ![changes[i].path] = snap[changes[i].path]]
    /\ phase' = "failed"
    /\ UNCHANGED <<plan, changes, pending, i, shown, radius, snap, history>>

(* "If execution breaks midway, state is inconsistent": a change is        *)
(* refused, or an input/output error stops it halfway; the snapshot of     *)
(* every path of the blast radius is put back, over what it had done.      *)
Fail ==
    /\ phase = "applying" /\ i <= Len(changes)
    /\ disk' = [p \in Paths |->
                  IF p \in radius THEN snap[p] ELSE disk[p]]
    /\ phase' = "failed"
    /\ UNCHANGED <<plan, changes, pending, i, shown, radius, snap, history>>

Ended == phase \in {"cancelled", "executed", "failed"} /\ UNCHANGED planVars

-----------------------------------------------------------------------------
(* Outside: an editor adds to a file or empties it.                        *)
Edit(p, x) ==
    /\ edits < MaxEdits                                              \* bound
    /\ phase \in {"planning", "rendering", "applying"}
    /\ disk[p].here
    /\ disk' = [disk EXCEPT ![p] = File(IF x \in @.items THEN {} ELSE {x})]
    /\ edits' = edits + 1
    /\ edited' = IF phase = "planning" THEN edited ELSE edited \cup {p}
    /\ UNCHANGED <<plan, changes, pending, phase, i, shown, radius, snap, blind>>

PlanNext ==
    \/ PlanStep \/ RenderStart \/ RenderChange
    \/ Cancel \/ Approve \/ Apply \/ Executed \/ Fail \/ Ended
    \/ \E p \in Files, x \in Items : Edit(p, x)

PlanSpec == PlanInit /\ [][PlanNext]_planVars

-----------------------------------------------------------------------------
(* Properties.                                                             *)

(* "Que lo que ves sea lo que pasa es la propiedad que sostiene todo lo    *)
(* demas": after a plan is executed every file holds what a reader of the  *)
(* diffs expects, whatever the steps do to each other's files.  Excepted   *)
(* are files edited from outside after the diff was made, and files to     *)
(* which a step did something the overlay forgets, a patch or a deletion   *)
(* of their directory, before another step changed them.                   *)
PreviewIsResult ==
    phase = "executed" =>
        \A p \in Paths \ (edited \cup blind) : disk[p] = shown[p]

(* "failed midway and reverted to previous state": a change that fails     *)
(* after others were made leaves no trace of them, directories     *)
(* made on the way included.                                               *)
FailedLeavesNothing ==
    phase = "failed" => \A p \in Paths \ edited : disk[p] = snap[p]
=============================================================================
