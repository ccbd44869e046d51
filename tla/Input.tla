------------------------------- MODULE Input --------------------------------
(***************************************************************************)
(* Input events of the kernel, from the keyboard to the shell and to the   *)
(* intent bar of the desktop (kernel/src/input, kernel/src/ui).            *)
(*                                                                         *)
(* Drivers push events into one ring; two consumers pop them, each with a  *)
(* KeyboardState of its own: drain_ascii, behind SYS_READ, which hands     *)
(* some events on to the compositor, and dispatch_pending_inputs, behind   *)
(* SYS_YIELD of the desktop and in the idle loop, which gives all of them  *)
(* to the compositor.  Either one runs with interrupts masked to its end:  *)
(* its loop is one action per event, during which no other action happens. *)
(*                                                                         *)
(* Keys are the two Ctrl keys, Super, K, Escape and those that just type.  *)
(* Characters take one byte.  A pending repeat is "due" once its time has  *)
(* come; when that is, is up to the clock.                                 *)
(***************************************************************************)
EXTENDS Integers, Sequences, Functions

CONSTANTS
    Capacity,     \* QUEUE_CAPACITY
    Users,        \* bound: sets of keys pressed and of places clicked by
                  \* somebody, the places being "hud", "terminal", "away"
    ReadSizes     \* lengths of the buffer SYS_READ is given

Ctrl == {"LeftCtrl", "RightCtrl"}
Modifier == Ctrl \cup {"Super"}
Consumers == {"shell", "desktop"}
None == "none"

Keys == UNION {u.keys : u \in Users}
Clicks == UNION {u.clicks : u \in Users}

ASSUME InputAssumption ==
    /\ Capacity \in Nat \ {0} /\ None \notin Keys
    /\ ReadSizes \subseteq Nat

Event(t, k) == [type |-> t, key |-> k]
KeyPress(k) == Event("press", k)
KeyRelease(k) == Event("release", k)
Click(c) == Event("click", c)
Empty == Event("empty", None)
Events == {KeyPress(k) : k \in Keys} \cup {KeyRelease(k) : k \in Keys}
            \cup {Click(c) : c \in Clicks}

VARIABLES
    buffer, head, tail, count,   \* InputEventQueue
    ctrl,       \* Modifiers::ctrl in the KeyboardState of each consumer
    repeat,     \* AutoRepeat: the key it repeats and whether that is due
    hud,        \* the intent bar is visible
    focus,      \* FocusTarget of the compositor
    active,     \* is_desktop_active()
    phase,      \* "idle", or the consumer whose loop runs
    room,       \* bytes left in the buffer of SYS_READ
    user,       \* who sits at the machine
    held,       \* the keys that are down
    missed,     \* history: keys whose last release a consumer never
                \* saw, of those that matter to it
    ghost       \* history: keys repeated by the kernel after they came up

ring == <<buffer, head, tail, count>>
desktop == <<hud, focus, active>>
inputVars ==
    <<ring, ctrl, repeat, desktop, phase, room, user, held, missed, ghost>>

InputInit ==
    /\ buffer = [i \in 0 .. Capacity - 1 |-> Empty]
    /\ head = 0 /\ tail = 0 /\ count = 0
    /\ ctrl = [c \in Consumers |-> FALSE]
    /\ repeat = [key |-> None, due |-> FALSE]
    /\ hud = TRUE /\ focus = "terminal" /\ active = FALSE
    /\ phase = "idle" /\ room = 0
    /\ user \in Users /\ held = {}
    /\ missed = [c \in Consumers |-> {}] /\ ghost = {}

(* The events in the ring, oldest first.                                   *)
Queue == [i \in 1 .. count |-> buffer[(head + i - 1) % Capacity]]
Queued(e) == e \in Range(Queue)

-----------------------------------------------------------------------------
(* InputEventQueue                                                         *)

(* Mutant: one place more than there are.                                  *)
PushOver(e) ==
    IF count > Capacity
    THEN UNCHANGED ring
    ELSE /\ buffer' = [buffer EXCEPT ![tail] = e]
         /\ tail' = (tail + 1) % Capacity
         /\ count' = count + 1
         /\ UNCHANGED head

(* push: an event that finds the ring full is dropped.                     *)
Fits == count < Capacity
Push(e) ==
    IF ~Fits
    THEN UNCHANGED ring
    ELSE /\ buffer' = [buffer EXCEPT ![tail] = e]
         /\ tail' = (tail + 1) % Capacity
         /\ count' = count + 1
         /\ UNCHANGED head

(* pop *)
Pop ==
    /\ count > 0
    /\ buffer' = [buffer EXCEPT ![head] = Empty]
    /\ head' = (head + 1) % Capacity
    /\ count' = count - 1
    /\ UNCHANGED tail
Oldest == buffer[head]

-----------------------------------------------------------------------------
(* Devices: the interrupt handlers of the keyboard and the mouse, and the  *)
(* polls of the other drivers.  A keyboard may send a key that is down     *)
(* again.                                                                  *)

KeyDown(k) ==
    /\ phase = "idle"
    /\ Push(KeyPress(k))
    /\ held' = held \cup {k}
    /\ UNCHANGED <<ctrl, repeat, desktop, phase, room, missed, ghost>>

KeyUp(k) ==
    /\ phase = "idle" /\ k \in held
    /\ Push(KeyRelease(k))
    /\ held' = held \ {k}
    /\ missed' = [c \in Consumers |->
                    IF Fits \/ (c = "desktop" /\ k \notin Ctrl)
                    THEN missed[c] \ {k} ELSE missed[c] \cup {k}]
    /\ ghost' = IF Fits THEN ghost \ {k} ELSE ghost
    /\ UNCHANGED <<ctrl, repeat, desktop, phase, room>>

ClickAt(c) ==
    /\ phase = "idle"
    /\ Push(Click(c))
    /\ UNCHANGED <<ctrl, repeat, desktop, phase, room, held, missed, ghost>>

-----------------------------------------------------------------------------
(* AutoRepeat                                                              *)

(* The clock reaches fire_at.                                              *)
Due ==
    /\ repeat.key # None /\ ~repeat.due
    /\ repeat' = [repeat EXCEPT !.due = TRUE]
    /\ UNCHANGED <<ring, ctrl, desktop, phase, room, held, missed, ghost>>

(* service_auto_repeat: tick, and the press it answers goes to the back of *)
(* the ring, behind whatever is there.                                     *)
ServiceAutoRepeat ==
    LET k == repeat.key IN
    IF k # None /\ repeat.due
    THEN /\ Push(KeyPress(k))
         /\ repeat' = [repeat EXCEPT !.due = FALSE]
         /\ ghost' = IF k \in held THEN ghost ELSE ghost \cup {k}
    ELSE UNCHANGED <<ring, repeat, ghost>>

(* Mutant: a release stops the repeat only of the key pressed last.        *)
NoteKeyNoRelease(e) ==
    repeat' = IF e.type = "press" /\ e.key \notin Modifier
                    /\ repeat.key # e.key
              THEN [key |-> e.key, due |-> FALSE]
              ELSE repeat

(* note_key_for_repeat, with on_press and on_release.                      *)
NoteKeyForRepeat(e) ==
    repeat' = IF e.type = "press" /\ e.key \notin Modifier
                    /\ repeat.key # e.key
              THEN [key |-> e.key, due |-> FALSE]
              ELSE IF e.type = "release" /\ repeat.key = e.key
              THEN [key |-> None, due |-> FALSE]
              ELSE repeat

-----------------------------------------------------------------------------
(* KeyboardState::update                                                   *)

Updated(b, e) ==
    IF e.key \notin Ctrl THEN b
    ELSE IF e.type = "press" THEN TRUE
    ELSE IF e.type = "release" THEN FALSE ELSE b

-----------------------------------------------------------------------------
(* DesktopCompositor::handle_event                                         *)

Toggles(e, c) ==
    e.type = "press" /\ (e.key = "Super" \/ (e.key = "KeyK" /\ c))
Closes(e) == e.type = "press" /\ e.key = "Escape" /\ hud

(* The keys that open and close the bar, and the clicks that move the      *)
(* focus, c being the compositor's ctrl after the event.  Keys for the bar *)
(* change its text, keys for the terminal are left alone: they are         *)
(* "returned through drain_ascii".                                         *)
HandleEvent(e, c) ==
    /\ hud' = IF Toggles(e, c) THEN ~hud ELSE IF Closes(e) THEN FALSE ELSE hud
    /\ focus' =
        IF Toggles(e, c) THEN (IF hud THEN "terminal" ELSE "hud")
        ELSE IF Closes(e) THEN "terminal"
        ELSE IF e.type # "click" THEN focus
        ELSE IF e.key = "hud" /\ hud THEN "hud"
        ELSE IF e.key = "terminal" THEN "terminal"
        ELSE IF hud THEN "none" ELSE focus

-----------------------------------------------------------------------------
(* SYS_READ: drain_ascii                                                   *)

Read(n) ==
    /\ phase = "idle"
    /\ ServiceAutoRepeat
    /\ phase' = "shell" /\ room' = n
    /\ UNCHANGED <<ctrl, desktop, held, missed>>

(* The events drain_ascii hands on to the compositor: of the keys, those   *)
(* that open or close the bar by the compositor's own modifiers, and, with *)
(* the focus on the bar, all that are pressed.  No release.                *)
HandedOn(e) ==
    /\ active
    /\ \/ e.type = "click"
       \/ Toggles(e, ctrl["desktop"]) \/ Closes(e)
       \/ e.type = "press" /\ focus = "hud"

Types(e) == e.type = "press" /\ e.key \notin Modifier \cup {"Escape"}

(* One turn of the loop of drain_ascii.                                    *)
ReadEvent ==
    LET e == Oldest
        shell == Updated(ctrl["shell"], e)
        other == IF HandedOn(e) THEN Updated(ctrl["desktop"], e)
                 ELSE ctrl["desktop"]
    IN
    /\ phase = "shell" /\ room > 0
    /\ Pop
    /\ NoteKeyForRepeat(e)
    /\ ctrl' = [c \in Consumers |-> IF c = "shell" THEN shell ELSE other]
    /\ IF HandedOn(e)
       THEN HandleEvent(e, other) /\ UNCHANGED room
       ELSE /\ room' = IF Types(e) THEN room - 1 ELSE room
            /\ UNCHANGED <<hud, focus>>
    /\ missed' = IF e.type = "release" /\ e.key \in Ctrl
                 THEN [missed EXCEPT !["desktop"] = @ \cup {e.key}]
                 ELSE missed
    /\ UNCHANGED <<active, phase, held, ghost>>

ReadEnd ==
    /\ phase = "shell" /\ (room = 0 \/ count = 0)
    /\ phase' = "idle" /\ room' = 0
    /\ UNCHANGED <<ring, ctrl, repeat, desktop, held, missed, ghost>>

-----------------------------------------------------------------------------
(* dispatch_pending_inputs: the compositor gets every event, the shell and *)
(* the repeat nothing.                                                     *)

(* SYS_YIELD *)
Yield ==
    /\ phase = "idle" /\ active
    /\ phase' = "desktop"
    /\ UNCHANGED <<ring, ctrl, repeat, desktop, room, held, missed, ghost>>

(* halt_loop, which looks after the repeat first.                          *)
HaltLoop ==
    /\ phase = "idle"
    /\ ServiceAutoRepeat
    /\ phase' = "desktop"
    /\ UNCHANGED <<ctrl, desktop, room, held, missed>>

(* Mutant: the compositor keeps a modifier that came up.                   *)
DispatchEventSticky ==
    LET e == Oldest
        c == ctrl["desktop"] \/ Updated(FALSE, e)
    IN
    /\ phase = "desktop"
    /\ Pop
    /\ ctrl' = [ctrl EXCEPT !["desktop"] = c]
    /\ HandleEvent(e, c)
    /\ missed' = IF e.type = "release"
                 THEN [missed EXCEPT !["shell"] = @ \cup {e.key}]
                 ELSE missed
    /\ UNCHANGED <<repeat, active, phase, room, held, ghost>>

DispatchEvent ==
    LET e == Oldest
        c == Updated(ctrl["desktop"], e)
    IN
    /\ phase = "desktop"
    /\ Pop
    /\ ctrl' = [ctrl EXCEPT !["desktop"] = c]
    /\ HandleEvent(e, c)
    /\ missed' = IF e.type = "release"
                 THEN [missed EXCEPT !["shell"] = @ \cup {e.key}]
                 ELSE missed
    /\ UNCHANGED <<repeat, active, phase, room, held, ghost>>

DispatchEnd ==
    /\ phase = "desktop" /\ count = 0
    /\ phase' = "idle"
    /\ UNCHANGED <<ring, ctrl, repeat, desktop, room, held, missed, ghost>>

(* SYS_LAUNCH_DESKTOP *)
LaunchDesktop ==
    /\ phase = "idle"
    /\ active' = TRUE
    /\ UNCHANGED <<ring, ctrl, repeat, hud, focus, phase, room, held>>
    /\ UNCHANGED <<missed, ghost>>

Step ==
    \/ \E k \in user.keys : KeyDown(k) \/ KeyUp(k)
    \/ \E c \in user.clicks : ClickAt(c)
    \/ Due
    \/ \E n \in ReadSizes : Read(n)
    \/ ReadEvent \/ ReadEnd
    \/ Yield \/ HaltLoop \/ DispatchEvent \/ DispatchEnd
    \/ LaunchDesktop

InputNext == Step /\ UNCHANGED user

InputSpec == InputInit /\ [][InputNext]_inputVars

-----------------------------------------------------------------------------
(* Properties.                                                             *)

AbstractQueue == INSTANCE EventQueue WITH queue <- Queue

(* The ring of head, tail and count is a first-in first-out queue of       *)
(* Capacity events, around its end and back again, with two consumers and  *)
(* the kernel's own repeats among the producers.                           *)
ImplementsQueue == AbstractQueue!Spec

(* No modifier sticks: a consumer takes Ctrl for pressed only while a Ctrl *)
(* key is down or its release waits in the ring, or that release was one   *)
(* the consumer could not see: it found the ring full, or the other        *)
(* consumer took it.                                                       *)
ModifiersAreReal ==
    \A c \in Consumers : ctrl[c] =>
        \E k \in Ctrl :
            k \in held \/ Queued(KeyRelease(k)) \/ k \in missed[c]

(* A key that came up stops repeating once its release is read: the key    *)
(* AutoRepeat holds is down, its release waits or was missed, or a repeat  *)
(* of its own had been pushed behind that release and armed it again.      *)
RepeatsEnd ==
    LET k == repeat.key IN
    k # None => \/ k \in held \/ Queued(KeyRelease(k))
                \/ k \in missed["shell"] \cup ghost

=============================================================================
