----------------------------- MODULE GrantFile ------------------------------
(***************************************************************************)
(* The file of grants of antosd (system/antosd/src/grants.rs) and the      *)
(* processes that use it without a lock: the commands grant and revoke and *)
(* the changes secret.grant and secret.revoke, which load the whole file,  *)
(* change their copy and save it, and the session, which loads it before   *)
(* it asks a person.                                                       *)
(*                                                                         *)
(* Saving is fs::write: the file is emptied first and written after.  An   *)
(* emptied file does not parse; nor does one left by two writers of        *)
(* different lengths.  A process may die at any time.                      *)
(***************************************************************************)
EXTENDS Naturals, FiniteSets

CONSTANTS
    Procs,       \* bound: processes that change the file at a time
    Sessions,    \* bound: sessions that need a grant at a time
    Caps,        \* capabilities and secrets that need a grant
    ReadAll,     \* the capability secret.read, good for every secret
    Minutes,     \* how long a grant lasts
    MaxTime      \* bound: the clock

ASSUME GrantAssumption ==
    /\ Minutes \in Nat \ {0} /\ MaxTime \in Nat
    /\ IsFiniteSet(Procs) /\ IsFiniteSet(Sessions)
    /\ ReadAll \in Caps

VARIABLES
    grants,     \* when each grant of the file ends, 0 if there is none
    parses,     \* the file can be read
    now,
    command,    \* what each process does to its copy of the file
    session,    \* where each session is
    granted,    \* history: the grants had every command been one step
    overlap     \* history: two commands overlapped

grantVars == <<grants, parses, now, command, session, granted, overlap>>

NoGrants == [c \in Caps |-> 0]
NoCommand == [at |-> "none"]
Asking == [at |-> "asking"]

GrantInit ==
    /\ grants = NoGrants /\ parses = TRUE /\ now = 1
    /\ command = [p \in Procs |-> NoCommand]
    /\ session = [s \in Sessions |-> Asking]
    /\ granted = NoGrants /\ overlap = FALSE

-----------------------------------------------------------------------------
(* The commands                                                            *)

\* Mutant: what does not parse counts as no grants.
LoadOrEmpty(p, end, c) ==
    /\ command[p] = NoCommand
    /\ command' = [command EXCEPT ![p] =
                     [at |-> "loaded", cap |-> c, end |-> end, stale |-> FALSE,
                      copy |-> IF parses THEN grants ELSE NoGrants]]
    /\ UNCHANGED <<grants, parses, now, session, granted, overlap>>

\* Grants::load; on a file that does not parse the command fails.
Load(p, end, c) ==
    /\ command[p] = NoCommand
    /\ parses
    /\ command' = [command EXCEPT ![p] =
                     [at |-> "loaded", cap |-> c, end |-> end, stale |-> FALSE,
                      copy |-> grants]]
    /\ UNCHANGED <<grants, parses, now, session, granted, overlap>>

\* grant_with_reason sets the end of the grant, revoke removes it.
Grant(p, c) == Load(p, now + Minutes, c)
Revoke(p, c) == Load(p, 0, c)

\* Grants::save: fs::write empties the file first.
Truncate(p) ==
    /\ command[p].at = "loaded"
    /\ command' = [command EXCEPT ![p].at = "saving",
                                  ![p].copy[command[p].cap] = command[p].end]
    /\ parses' = FALSE
    /\ overlap' = (\/ overlap
                   \/ command[p].stale
                   \/ \E q \in Procs : command[q].at = "saving")
    /\ UNCHANGED <<grants, now, session, granted>>

\* Over the longer text of another writer the new one may not parse.
Save(p) ==
    /\ command[p].at = "saving"
    /\ grants' = command[p].copy
    /\ parses' \in IF overlap THEN BOOLEAN ELSE {TRUE}
    /\ granted' = [granted EXCEPT ![command[p].cap] = command[p].end]
    /\ command' = [q \in Procs |->
                     IF q = p \/ command[q] = NoCommand THEN NoCommand
                     ELSE [command[q] EXCEPT !.stale = TRUE]]
    /\ UNCHANGED <<now, session, overlap>>

\* The process dies; a file it had emptied stays empty.
Crash(p) ==
    /\ command[p] # NoCommand
    /\ command' = [command EXCEPT ![p] = NoCommand]
    /\ UNCHANGED <<grants, parses, now, session, granted, overlap>>

-----------------------------------------------------------------------------
(* Who relies on the grants                                                *)

\* is_granted on what was loaded; Grants::default() when nothing could be.
IsGranted(c) == parses /\ grants[c] > now

\* What a grant should be, whatever the file says.
Entitled(C) == \E c \in C : granted[c] > now

\* handle looks for the grant of its capability before the gate.
CheckGrant(s, c) ==
    /\ session[s] = Asking
    /\ session' = [session EXCEPT ![s] =
                     IF IsGranted(c)
                     THEN [at |-> "gate", entitled |-> Entitled({c})]
                     ELSE [at |-> "denied"]]
    /\ UNCHANGED <<grants, parses, now, command, granted, overlap>>

\* The person approves, however late; nothing is looked up again.
ApproveLate(s) ==
    /\ session[s].at = "gate"
    /\ session' = [session EXCEPT ![s].at = "running"]
    /\ UNCHANGED <<grants, parses, now, command, granted, overlap>>

\* A change secret.read: its own grant, or the one for every secret.
ReadSecret(s, k) ==
    /\ session[s].at = "running"
    /\ session' = [session EXCEPT ![s] =
                     IF IsGranted(ReadAll) \/ IsGranted(k)
                     THEN [at |-> "read", entitled |-> Entitled({ReadAll, k})]
                     ELSE [at |-> "denied"]]
    /\ UNCHANGED <<grants, parses, now, command, granted, overlap>>

\* The plan ends, is refused or was denied; the next one begins.
End(s) ==
    /\ session[s] # Asking
    /\ session' = [session EXCEPT ![s] = Asking]
    /\ UNCHANGED <<grants, parses, now, command, granted, overlap>>

Tick ==
    /\ now < MaxTime
    /\ now' = now + 1
    /\ UNCHANGED <<grants, parses, command, session, granted, overlap>>

GrantNext ==
    \/ \E p \in Procs :
         \/ \E c \in Caps : Grant(p, c) \/ Revoke(p, c)
         \/ Truncate(p) \/ Save(p) \/ Crash(p)
    \/ \E s \in Sessions :
         \/ \E c \in Caps : CheckGrant(s, c) \/ ReadSecret(s, c)
         \/ ApproveLate(s) \/ End(s)
    \/ Tick

GrantSpec == GrantInit /\ [][GrantNext]_grantVars

-----------------------------------------------------------------------------
(* Properties                                                              *)

FileIsExact == parses => grants = granted

AuthorityWasGranted ==
    \A s \in Sessions : session[s].at \in {"gate", "running", "read"} =>
        session[s].entitled

(* As long as no two commands overlap, and whatever process dies in        *)
(* between, the file holds exactly the grants that were given and not      *)
(* taken back, or it cannot be read: a torn file is never taken for an     *)
(* empty one and written back.  And nothing went to the gate or read a     *)
(* secret without a grant that held when it looked (grants.rs, session.rs, *)
(* vault.rs::get_secret).                                                  *)
GrantsAreExact == ~overlap => FileIsExact /\ AuthorityWasGranted
=============================================================================
