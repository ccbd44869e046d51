---- MODULE MCAgentRun ----
(* Bounded instances of AgentRun for TLC. *)
EXTENDS AgentRun
CONSTANTS a, b, target

Do(name, kind, reversible, paths) ==
    [name |-> name, kind |-> kind, reversible |-> reversible, paths |-> paths]

Finish   == Do("finalizar", "finish", "unnecessary", {})
Foreign  == Do("shell.run", "foreign", "never", {})
BadPatch == Do("fs.patch", "badargs", "snapshot", {})
PatchA   == Do("fs.patch", "confirm", "snapshot", {{a}})
PatchB   == Do("fs.patch", "confirm", "snapshot", {{b}})
Test     == Do("test.run", "auto", "unnecessary", {{target}})
Stop     == Do("env.service_down", "confirm", "never", {})
Scaffold == Do("project.scaffold", "confirm", "snapshot", {{a, b}, {a}})

Lines(S) == {<<c>> : c \in S}
Pairs(S) == {<<c, d>> : c \in S, d \in S}

\* Every kind of call, alone and in pairs; the scaffold makes a directory with
\* both files and declares it and one of them.
MixedTurns ==
    {<<>>} \cup
    Lines({Finish, Foreign, BadPatch, PatchA, Test, Stop, Scaffold})
                     \cup Pairs({Finish, PatchA, PatchB})
====
