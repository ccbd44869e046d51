-------------------------- MODULE NotificationTray --------------------------
(***************************************************************************)
(* The tray of notifications (system/antosd/src/notification.rs): a file   *)
(* of the workspace, newest first, and in every process a cache of it that *)
(* is filled once and never compared with the file again.                  *)
(*                                                                         *)
(* notify and clear hold the process's lock throughout.  handle_action     *)
(* lists, lets the flow engine decide without the lock, and then writes    *)
(* the list it saw.  Nothing keeps two processes apart, and a process may  *)
(* die while it writes.                                                    *)
(***************************************************************************)
EXTENDS Naturals, Sequences, FiniteSets

CONSTANTS
    Users,       \* processes with a tray: the daemon, commands
    Ids,         \* identifiers of notifications
    Limit        \* how many are kept (50)

ASSUME TrayAssumption ==
    /\ IsFiniteSet(Users) /\ IsFiniteSet(Ids)
    /\ Limit \in Nat \ {0}

VARIABLES
    text,       \* the file: absent, whole or torn, and its items
    cache,      \* NOTIF_CACHE of each process
    acting,     \* the handle_action each process has under way
    tray,       \* history: the tray had every operation been one step
    foreign     \* history: somebody wrote from a list another one had
                \* changed meanwhile, or died writing

trayVars == <<text, cache, acting, tray, foreign>>

NoCache == [has |-> FALSE, items |-> <<>>, fresh |-> FALSE]
NoAction == [at |-> "none", fresh |-> FALSE]

TrayInit ==
    /\ text = [at |-> "absent", items |-> <<>>]
    /\ cache = [p \in Users |-> NoCache]
    /\ acting = [p \in Users |-> NoAction]
    /\ tray = <<>> /\ foreign = FALSE

-----------------------------------------------------------------------------
(* What an operation does to a list                                        *)

\* retain: the items at the places K, in their order.
Kept(items, K) ==
    [i \in 1 .. Cardinality(K) |->
       items[CHOOSE k \in K : Cardinality({j \in K : j <= k}) = i]]

Others(items, n) == Kept(items, {k \in DOMAIN items : items[k].id # n})

Posted(items, n) ==
    LET all == <<[id |-> n, read |-> FALSE]>> \o Others(items, n)
    IN  SubSeq(all, 1, IF Len(all) > Limit THEN Limit ELSE Len(all))

Handled(items, n, dismiss) ==
    IF dismiss THEN Others(items, n)
    ELSE [k \in DOMAIN items |->
            IF items[k].id = n THEN [items[k] EXCEPT !.read = TRUE]
            ELSE items[k]]

Cleared(items) == Kept(items, {k \in DOMAIN items : ~items[k].read})

-----------------------------------------------------------------------------
(* The operations of a process p                                           *)

\* list: the cache, or the file; what does not parse is an empty list.
Listed(p) ==
    IF cache[p].has THEN cache[p]
    ELSE [has |-> TRUE, fresh |-> TRUE,
          items |-> IF text.at = "whole" THEN text.items ELSE <<>>]

\* fs::write and the cache of p; whoever holds an older list is now behind.
WriteBack(p, items) ==
    /\ text' = [at |-> "whole", items |-> items]
    /\ cache' = [q \in Users |->
                   IF q = p
                   THEN [has |-> TRUE, fresh |-> TRUE, items |-> items]
                   ELSE [cache[q] EXCEPT !.fresh = FALSE]]

Behind(A) == [q \in Users |-> [A[q] EXCEPT !.fresh = FALSE]]

List(p) ==
    /\ cache' = [cache EXCEPT ![p] = Listed(p)]
    /\ UNCHANGED <<text, acting, tray, foreign>>

Notify(p, n) ==
    /\ WriteBack(p, Posted(Listed(p).items, n))
    /\ acting' = Behind(acting)
    /\ tray' = Posted(tray, n)
    /\ foreign' = (foreign \/ ~Listed(p).fresh)

\* clear: nothing is written when nothing was read.
Clear(p) ==
    LET left == Cleared(Listed(p).items)
    IN  /\ cache[p].has \/ text.at # "absent"
        /\ IF left # Listed(p).items \/ text.at = "absent"
           THEN WriteBack(p, left) /\ acting' = Behind(acting)
           ELSE /\ cache' = [cache EXCEPT ![p] = Listed(p)]
                /\ UNCHANGED <<text, acting>>
        /\ tray' = Cleared(tray)
        /\ foreign' = (foreign \/ ~Listed(p).fresh)

\* handle_action, first half: the list and the flow engine's answer.
StartAction(p, n, dismiss) ==
    /\ acting[p] = NoAction
    /\ \E k \in DOMAIN Listed(p).items : Listed(p).items[k].id = n
    /\ cache' = [cache EXCEPT ![p] = Listed(p)]
    /\ acting' = [acting EXCEPT ![p] =
                    [at |-> "decided", id |-> n, dismiss |-> dismiss,
                     items |-> Listed(p).items, fresh |-> Listed(p).fresh]]
    /\ UNCHANGED <<text, tray, foreign>>

\* Mutant: the cache keeps the list from before the action.
FinishActionNoCache(p) ==
    LET a == acting[p]
    IN  /\ a.at = "decided"
        /\ text' = [at |-> "whole",
                    items |-> Handled(a.items, a.id, a.dismiss)]
        /\ cache' = [q \in Users |->
                       IF q = p THEN cache[q]
                       ELSE [cache[q] EXCEPT !.fresh = FALSE]]
        /\ acting' = [Behind(acting) EXCEPT ![p] = NoAction]
        /\ tray' = Handled(tray, a.id, a.dismiss)
        /\ foreign' = (foreign \/ ~a.fresh)

\* Second half: the list of the first half is written back.
FinishAction(p) ==
    LET a == acting[p]
    IN  /\ a.at = "decided"
        /\ WriteBack(p, Handled(a.items, a.id, a.dismiss))
        /\ acting' = [Behind(acting) EXCEPT ![p] = NoAction]
        /\ tray' = Handled(tray, a.id, a.dismiss)
        /\ foreign' = (foreign \/ ~a.fresh)

\* The process ends, or dies: between the halves the decision stands and
\* the notification is still unread; in a write the file is torn.
Exit(p) ==
    /\ cache[p].has
    /\ cache' = [cache EXCEPT ![p] = NoCache]
    /\ acting' = [acting EXCEPT ![p] = NoAction]
    /\ \/ UNCHANGED <<text, foreign>>
       \/ text' = [at |-> "torn", items |-> <<>>] /\ foreign' = TRUE
    /\ UNCHANGED tray

TrayNext == \E p \in Users :
    \/ List(p) \/ Clear(p) \/ FinishAction(p) \/ Exit(p)
    \/ \E n \in Ids : Notify(p, n) \/ \E d \in BOOLEAN : StartAction(p, n, d)

TraySpec == TrayInit /\ [][TrayNext]_trayVars

-----------------------------------------------------------------------------
(* Until somebody writes from a list that another thread or process has    *)
(* changed since, the file is what the operations say one after the other, *)
(* every notification once and the newest first, and every process that    *)
(* nobody overtook sees it so: its cache never hides its own writes        *)
(* (notification.rs list, notify, handle_action, clear).                   *)
TrayIsExact == ~foreign =>
    /\ text.items = tray
    /\ \A p \in Users : cache[p].fresh => cache[p].items = tray
    /\ \A k, l \in DOMAIN tray : tray[k].id = tray[l].id => k = l
    /\ Len(tray) <= Limit
=============================================================================
