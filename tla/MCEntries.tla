----------------------------- MODULE MCEntries ------------------------------
(* What comes into the kernel from outside, in one run: the system calls   *)
(* of the user threads and the events of the keyboard and the mouse.  The  *)
(* two share no variable and no property speaks of both, so each is        *)
(* explored with the other at rest.                                        *)
EXTENDS SyscallEntry, Input

VARIABLE moving    \* the part of the kernel this behaviour is about

vars == <<syscallVars, inputVars, moving>>

Init ==
    /\ SyscallInit /\ InputInit
    /\ moving \in {"calls", "input"}
    /\ moving # "input" => user = CHOOSE u \in Users : TRUE

Next ==
    \/ moving = "calls" /\ SyscallNext /\ UNCHANGED <<inputVars, moving>>
    \/ moving = "input" /\ InputNext /\ UNCHANGED <<syscallVars, moving>>

Spec == Init /\ [][Next]_vars

User(keys, clicks) == [keys |-> keys, clicks |-> clicks]

(* One who uses Ctrl+K, one with both Ctrl keys, one who opens and closes  *)
(* the bar by key and moves the focus with the mouse, one who types.       *)
MCUsers ==
    {User({"LeftCtrl", "KeyK"}, {}),
     User({"LeftCtrl", "RightCtrl"}, {}),
     User({"Super", "Escape"}, {"hud", "away"}),
     User({"KeyA", "KeyB"}, {})}
=============================================================================
