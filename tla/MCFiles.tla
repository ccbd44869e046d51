------------------------------- MODULE MCFiles ------------------------------
(* What antosd does to files, in one run: the changes of a plan, the file  *)
(* of grants and the tray of notifications.  The three have no state in    *)
(* common and no property speaks of two of them, so each is explored with  *)
(* the others at rest.                                                     *)
(*                                                                         *)
(* The plans are about a file in the directory, one outside, and the two   *)
(* names of a package declaration.                                         *)
EXTENDS PlanChanges, GrantFile, NotificationTray

VARIABLE moving    \* the files this behaviour is about

vars == <<planVars, grantVars, trayVars, moving>>

RestDisk == CHOOSE d \in Disks : TRUE
RestPlan == CHOOSE s \in Plans : TRUE

Init ==
    /\ PlanInit /\ GrantInit /\ TrayInit
    /\ \/ moving = "plan"
       \/ /\ moving \in {"grants", "tray"}
          /\ disk = RestDisk /\ plan = RestPlan

Next ==
    \/ moving = "plan" /\ PlanNext /\ UNCHANGED <<grantVars, trayVars, moving>>
    \/ moving = "grants" /\ GrantNext
       /\ UNCHANGED <<planVars, trayVars, moving>>
    \/ moving = "tray" /\ TrayNext /\ UNCHANGED <<planVars, grantVars, moving>>

Spec == Init /\ [][Next]_vars

(* Once two writers overlapped neither GrantsAreExact nor TrayIsExact says *)
(* anything more, and neither flag falls again.                            *)
StillKnown == ~overlap /\ ~foreign

(* Nothing tells one notification from another.                            *)
Symmetry == Permutations(Ids)

Step(op, p) == [op |-> op, path |-> p]
Patch(p, old, new) == [op |-> "patch", path |-> p, old |-> old, new |-> new]

MCSteps ==
    {[op |-> "declare", item |-> x] : x \in {"a", "b"}} \cup
    {Write("src", {"a"}), Write("src", {"b", "bad"}), Write("pkg", {"b"}),
     Patch("src", "a", "b"), Patch("pkg", "b", "a"),
     Step("delete", "pkg"), Step("delete", "dir"), Step("mkdir", "dir"),
     Step("read", "src"),
     [op |-> "scaffold", paths |-> <<"src", "pkg">>, items |-> {"a"}]}

MCPlans == UNION {[1 .. n -> MCSteps] : n \in 1 .. 3}

Disk(src, pkg, old, dir) ==
    [p \in Paths |-> CASE p = "src" -> src [] p = "pkg" -> pkg
                       [] p = "old" -> old [] p = "dir" -> dir]
MCDisks ==
    {Disk(Absent, Absent, File({"b"}), Absent),
     Disk(File({"a"}), File({"a", "b"}), File({"b"}), File({})),
     Disk(File({"a"}), Absent, Absent, File({}))}
=============================================================================
