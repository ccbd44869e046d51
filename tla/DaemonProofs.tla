---------------------------- MODULE DaemonProofs ----------------------------
(***************************************************************************)
(* Proofs about the parts of antosd that keep files: the grants and the    *)
(* tray, which processes share, for any number of processes, sessions,     *)
(* capabilities and notifications; the tasks of antFlow with their         *)
(* worktree, for any files, retries and requests; and the changes of a     *)
(* plan, for any plan and disk.                                            *)
(***************************************************************************)
EXTENDS GrantFile, NotificationTray, FlowEngine, PlanChanges,
        SequenceTheorems, FiniteSetTheorems, TLAPS

-----------------------------------------------------------------------------
(* Grants.                                                                 *)

Command ==
    [at : {"loaded", "saving"}, cap : Caps, end : Nat, stale : BOOLEAN,
     copy : [Caps -> Nat]]
Session ==
    {Asking} \cup [at : {"denied"}]
      \cup [at : {"gate", "running", "read"}, entitled : BOOLEAN]

GrantTypes ==
    /\ grants \in [Caps -> Nat] /\ granted \in [Caps -> Nat]
    /\ parses \in BOOLEAN /\ overlap \in BOOLEAN /\ now \in Nat
    /\ command \in [Procs -> {NoCommand} \cup Command]
    /\ session \in [Sessions -> Session]

(* What a copy is worth.  One that nobody has overtaken is the truth, with *)
(* the change of its command once it is being saved; while one is saved    *)
(* the file does not parse, and no other one is.                           *)
CopyInv ==
    \A p \in Procs :
        /\ command[p].at = "loaded" /\ ~command[p].stale =>
              command[p].copy = granted
        /\ command[p].at = "saving" =>
              /\ ~command[p].stale /\ ~parses
              /\ command[p].copy =
                    [granted EXCEPT ![command[p].cap] = command[p].end]
              /\ \A q \in Procs : command[q].at = "saving" => q = p

GrantInv ==
    /\ GrantTypes
    /\ ~overlap => FileIsExact /\ CopyInv /\ AuthorityWasGranted

(* Nothing is granted, loaded or asked.                                    *)
LEMMA GrantInvInit == GrantInit => GrantInv
  <1> SUFFICES ASSUME GrantInit PROVE GrantInv
    OBVIOUS
  <1> USE GrantAssumption DEF GrantInit
  <1>1. GrantTypes
    BY DEF GrantTypes, NoGrants, Session
  <1>2. \A p \in Procs : command[p].at = "none"
    BY DEF NoCommand
  <1>3. \A s \in Sessions : session[s].at = "asking"
    BY DEF Asking
  <1>4. FileIsExact /\ CopyInv /\ AuthorityWasGranted
    BY <1>2, <1>3 DEF FileIsExact, CopyInv, AuthorityWasGranted
  <1> QED BY <1>1, <1>4 DEF GrantInv

(* A copy is loaded only from a file that parses.                          *)
LEMMA LoadInv ==
    ASSUME NEW p \in Procs, NEW end \in Nat, NEW c \in Caps, GrantInv,
           Load(p, end, c)
    PROVE  GrantInv'
  <1> DEFINE new == [at |-> "loaded", cap |-> c, end |-> end, stale |-> FALSE,
                     copy |-> grants]
  <1>1. /\ UNCHANGED <<grants, parses, now, session, granted, overlap>>
        /\ command' = [command EXCEPT ![p] = new] /\ parses
    BY DEF Load
  <1>2. new \in Command
    BY DEF GrantInv, GrantTypes, Command
  <1>3. GrantTypes'
    BY <1>1, <1>2 DEF GrantInv, GrantTypes
  <1>4. \A q \in Procs : command'[q] = IF q = p THEN new ELSE command[q]
    BY <1>1 DEF GrantInv, GrantTypes
  <1>5. ASSUME ~overlap PROVE CopyInv'
    BY <1>1, <1>4, <1>5 DEF GrantInv, CopyInv, FileIsExact
  <1> QED BY <1>1, <1>3, <1>5 DEF GrantInv, FileIsExact, AuthorityWasGranted

(* The file is emptied for a copy that is the truth but for one grant.     *)
LEMMA TruncateInv ==
    ASSUME NEW p \in Procs, GrantInv, Truncate(p) PROVE GrantInv'
  <1> DEFINE m == command[p]
             new == [m EXCEPT !.at = "saving", !.copy[m.cap] = m.end]
  <1>1. /\ UNCHANGED <<grants, now, session, granted>> /\ ~parses'
        /\ parses' \in BOOLEAN /\ m.at = "loaded" /\ overlap' \in BOOLEAN
        /\ ~overlap' => /\ ~overlap /\ ~m.stale
                        /\ \A q \in Procs : command[q].at # "saving"
    BY DEF Truncate, GrantInv, GrantTypes
  <1>2. m \in Command
    BY <1>1 DEF GrantInv, GrantTypes, NoCommand
  <1>3. /\ new \in Command /\ new.at = "saving" /\ new.stale = m.stale
        /\ new.cap = m.cap /\ new.end = m.end
        /\ new.copy = [m.copy EXCEPT ![m.cap] = m.end]
    BY <1>2 DEF Command
  <1>4. /\ command' = [command EXCEPT ![p] = new]
        /\ \A q \in Procs : command'[q] = IF q = p THEN new ELSE command[q]
    BY DEF Truncate, GrantInv, GrantTypes
  <1>5. GrantTypes'
    BY <1>1, <1>3, <1>4 DEF GrantInv, GrantTypes
  <1> HIDE DEF new
  <1>6. ASSUME ~overlap' PROVE CopyInv'
    BY <1>1, <1>3, <1>4, <1>6 DEF GrantInv, CopyInv
  <1> QED BY <1>1, <1>5, <1>6 DEF GrantInv, FileIsExact, AuthorityWasGranted

(* What is saved is what was granted; older copies are stale from here on. *)
LEMMA SaveInv == ASSUME NEW p \in Procs, GrantInv, Save(p) PROVE GrantInv'
  <1> DEFINE m == command[p]
             Old(q) == [command[q] EXCEPT !.stale = TRUE]
  <1>1. /\ UNCHANGED <<now, session, overlap>> /\ m.at = "saving"
        /\ grants' = m.copy /\ parses' \in BOOLEAN
        /\ granted' = [granted EXCEPT ![m.cap] = m.end]
        /\ command' = [q \in Procs |->
                         IF q = p \/ command[q] = NoCommand THEN NoCommand
                         ELSE Old(q)]
    BY DEF Save, GrantInv, GrantTypes
  <1>2. m \in Command /\ m.copy \in [Caps -> Nat] /\ m.cap \in Caps
        /\ m.end \in Nat
    BY <1>1 DEF GrantInv, GrantTypes, NoCommand, Command
  <1>3. ASSUME NEW q \in Procs, command[q] # NoCommand
        PROVE  Old(q) \in Command /\ Old(q).at = command[q].at /\ Old(q).stale
    BY <1>3 DEF GrantInv, GrantTypes, Command
  <1>4. GrantTypes'
    BY <1>1, <1>2, <1>3 DEF GrantInv, GrantTypes
  <1>5. ASSUME ~overlap PROVE grants' = granted' /\ CopyInv'
    <2>1. grants' = granted'
      BY <1>1, <1>5 DEF GrantInv, CopyInv
    <2>2. \A q \in Procs : command'[q].at = "none" \/
                           (command'[q].at = "loaded" /\ command'[q].stale)
      <3> TAKE q \in Procs
      <3>1. CASE q = p \/ command[q] = NoCommand
        BY <3>1, <1>1 DEF NoCommand
      <3>2. CASE q # p /\ command[q] # NoCommand
        <4>1. command'[q] = Old(q)
          BY <3>2, <1>1
        <4>2. command[q].at # "saving"
          BY <3>2, <1>1, <1>5 DEF GrantInv, CopyInv
        <4>3. command[q].at \in {"loaded", "saving"}
          BY <3>2 DEF GrantInv, GrantTypes, Command
        <4> QED BY <4>1, <4>2, <4>3, <3>2, <1>3
      <3> QED BY <3>1, <3>2
    <2>3. CopyInv'
      BY <2>2 DEF CopyInv
    <2> QED BY <2>1, <2>3
  <1> QED BY <1>1, <1>4, <1>5 DEF GrantInv, FileIsExact, AuthorityWasGranted

(* A process that dies leaves the file as it is.                           *)
LEMMA CrashInv == ASSUME NEW p \in Procs, GrantInv, Crash(p) PROVE GrantInv'
  <1>1. /\ UNCHANGED <<grants, parses, now, session, granted, overlap>>
        /\ command' = [command EXCEPT ![p] = NoCommand]
    BY DEF Crash
  <1>2. /\ NoCommand.at = "none"
        /\ \A q \in Procs :
              command'[q] = IF q = p THEN NoCommand ELSE command[q]
    BY <1>1 DEF GrantInv, GrantTypes, NoCommand
  <1>3. GrantTypes'
    BY <1>1 DEF GrantInv, GrantTypes
  <1>4. ASSUME ~overlap PROVE CopyInv'
    BY <1>1, <1>2, <1>4 DEF GrantInv, CopyInv
  <1> QED BY <1>1, <1>3, <1>4 DEF GrantInv, FileIsExact, AuthorityWasGranted

(* What a session finds granted was granted.                               *)
LEMMA LookFacts ==
    ASSUME GrantInv, ~overlap, NEW C \in SUBSET Caps,
           \E c \in C : IsGranted(c)
    PROVE  Entitled(C)
  BY DEF GrantInv, FileIsExact, IsGranted, Entitled

(* A step of a session leaves the file and the commands alone, and the     *)
(* session is in the right where it goes.                                  *)
LEMMA SessionStep ==
    ASSUME NEW s \in Sessions, NEW new \in Session, GrantInv,
           UNCHANGED <<grants, parses, now, command, granted, overlap>>,
           session' = [session EXCEPT ![s] = new],
           ~overlap /\ new.at \in {"gate", "running", "read"} => new.entitled
    PROVE  GrantInv'
  <1>1. \A r \in Sessions : session'[r] = IF r = s THEN new ELSE session[r]
    BY DEF GrantInv, GrantTypes
  <1>2. GrantTypes'
    BY DEF GrantInv, GrantTypes
  <1>3. ~overlap => AuthorityWasGranted'
    BY <1>1 DEF GrantInv, AuthorityWasGranted
  <1> QED BY <1>2, <1>3 DEF GrantInv, FileIsExact, CopyInv

(* The grant is looked up before the gate.                                 *)
LEMMA CheckGrantInv ==
    ASSUME NEW s \in Sessions, NEW c \in Caps, GrantInv, CheckGrant(s, c)
    PROVE  GrantInv'
  <1> DEFINE new == IF IsGranted(c)
                    THEN [at |-> "gate", entitled |-> Entitled({c})]
                    ELSE [at |-> "denied"]
  <1>1. new \in Session
    BY DEF Session, Entitled
  <1>2. ~overlap /\ new.at = "gate" => new.entitled
    BY LookFacts
  <1>3. new.at \in {"gate", "denied"}
    OBVIOUS
  <1>4. /\ UNCHANGED <<grants, parses, now, command, granted, overlap>>
        /\ session' = [session EXCEPT ![s] = new]
    BY DEF CheckGrant
  <1> HIDE DEF new
  <1> QED BY <1>1, <1>2, <1>3, <1>4, SessionStep

(* The secret's own grant, or the one for all of them.                     *)
LEMMA ReadSecretInv ==
    ASSUME NEW s \in Sessions, NEW c \in Caps, GrantInv, ReadSecret(s, c)
    PROVE  GrantInv'
  <1> DEFINE new == IF IsGranted(ReadAll) \/ IsGranted(c)
                    THEN [at |-> "read", entitled |-> Entitled({ReadAll, c})]
                    ELSE [at |-> "denied"]
  <1>1. new \in Session
    BY DEF Session, Entitled
  <1>2. ~overlap /\ new.at = "read" => new.entitled
    BY LookFacts, GrantAssumption
  <1>3. new.at \in {"read", "denied"}
    OBVIOUS
  <1>4. /\ UNCHANGED <<grants, parses, now, command, granted, overlap>>
        /\ session' = [session EXCEPT ![s] = new]
    BY DEF ReadSecret
  <1> HIDE DEF new
  <1> QED BY <1>1, <1>2, <1>3, <1>4, SessionStep

(* Approval adds no right and takes none.                                  *)
LEMMA ApproveLateInv ==
    ASSUME NEW s \in Sessions, GrantInv, ApproveLate(s) PROVE GrantInv'
  <1> DEFINE new == [session[s] EXCEPT !.at = "running"]
  <1>1. /\ session[s].at = "gate"
        /\ session[s] \in [at : {"gate", "running", "read"},
                           entitled : BOOLEAN]
    BY DEF ApproveLate, GrantInv, GrantTypes, Session, Asking
  <1>2. new \in Session /\ new.entitled = session[s].entitled
    BY <1>1 DEF Session
  <1>3. ~overlap => session[s].entitled
    BY <1>1 DEF GrantInv, AuthorityWasGranted
  <1>4. /\ UNCHANGED <<grants, parses, now, command, granted, overlap>>
        /\ session' = [session EXCEPT ![s] = new]
    BY DEF ApproveLate
  <1> HIDE DEF new
  <1> QED BY <1>2, <1>3, <1>4, SessionStep

(* Every step keeps the invariant.                                         *)
LEMMA GrantInvStep == GrantInv /\ [GrantNext]_grantVars => GrantInv'
  <1> SUFFICES ASSUME GrantInv, [GrantNext]_grantVars PROVE GrantInv'
    OBVIOUS
  <1>1. ASSUME NEW p \in Procs, NEW c \in Caps, Grant(p, c) \/ Revoke(p, c)
        PROVE  GrantInv'
    <2>1. now + Minutes \in Nat /\ 0 \in Nat
      BY GrantAssumption DEF GrantInv, GrantTypes
    <2> QED BY <1>1, <2>1, LoadInv DEF Grant, Revoke
  <1>2. ASSUME NEW p \in Procs, Truncate(p) \/ Save(p) \/ Crash(p)
        PROVE  GrantInv'
    BY <1>2, TruncateInv, SaveInv, CrashInv
  <1>3. ASSUME NEW s \in Sessions, NEW c \in Caps,
               CheckGrant(s, c) \/ ReadSecret(s, c)
        PROVE  GrantInv'
    BY <1>3, CheckGrantInv, ReadSecretInv
  <1>4. ASSUME NEW s \in Sessions, ApproveLate(s) PROVE GrantInv'
    BY <1>4, ApproveLateInv
  <1>5. ASSUME NEW s \in Sessions, End(s) PROVE GrantInv'
    <2>1. Asking \in Session /\ Asking.at = "asking"
      BY DEF Asking, Session
    <2> QED BY <1>5, <2>1, SessionStep DEF End
  <1>6. CASE Tick
    <2>1. /\ UNCHANGED <<grants, parses, command, session, granted, overlap>>
          /\ now' = now + 1
      BY <1>6 DEF Tick
    <2>2. GrantTypes'
      BY <2>1 DEF GrantInv, GrantTypes
    <2> QED BY <2>1, <2>2 DEF GrantInv, FileIsExact, CopyInv,
                              AuthorityWasGranted
  <1>7. CASE UNCHANGED grantVars
    BY <1>7 DEF grantVars, GrantInv, GrantTypes, FileIsExact, CopyInv,
         AuthorityWasGranted
  <1> QED BY <1>1, <1>2, <1>3, <1>4, <1>5, <1>6, <1>7 DEF GrantNext

(* grants.rs, for any number of commands and sessions and whatever process *)
(* dies: as long as no two commands overlap the file holds the grants that *)
(* were given and not taken back or cannot be read, and nothing passed the *)
(* check or read a secret without a grant.                                 *)
THEOREM GrantsCorrect == GrantSpec => []GrantsAreExact
  <1>1. GrantInv => GrantsAreExact
    BY DEF GrantInv, GrantsAreExact
  <1> QED BY <1>1, GrantInvInit, GrantInvStep, PTL DEF GrantSpec

-----------------------------------------------------------------------------
(* The tray: what retain keeps.                                            *)

(* The place of k among the places K.                                      *)
Place(K, k) == Cardinality({j \in K : j <= k})

(* The places of K are numbered from 1, each number once.                  *)
LEMMA PlaceFacts ==
    ASSUME NEW n \in Nat, NEW K \in SUBSET (1 .. n)
    PROVE  /\ IsFiniteSet(K) /\ Cardinality(K) \in 0 .. n
           /\ \A k \in K : Place(K, k) \in 1 .. Cardinality(K)
           /\ \A k, l \in K : Place(K, k) = Place(K, l) => k = l
           /\ \A e \in 1 .. Cardinality(K) : \E k \in K : Place(K, k) = e
  <1> DEFINE Below(k) == {j \in K : j <= k}
             c == Cardinality(K)
  <1>1. IsFiniteSet(1 .. n) /\ Cardinality(1 .. n) = n
    BY FS_Interval
  <1>2. IsFiniteSet(K) /\ c <= n
    BY <1>1, FS_Subset
  <1>3. c \in Nat
    BY <1>2, FS_CardinalityType
  <1>4. /\ \A k \in K : k \in Int
        /\ \A k \in K : Below(k) \in SUBSET K /\ k \in Below(k)
    OBVIOUS
  <1>5. \A k \in K : IsFiniteSet(Below(k)) /\ Cardinality(Below(k)) <= c
                     /\ Cardinality(Below(k)) \in Nat
    BY <1>2, <1>4, FS_Subset, FS_CardinalityType
  <1>6. \A k \in K : Cardinality(Below(k)) # 0
    BY <1>4, <1>5, FS_EmptySet
  <1>7. \A k \in K : Cardinality(Below(k)) \in 1 .. c
    <2> HIDE DEF c
    <2>1. \A x \in Nat : x # 0 /\ x <= c => x \in 1 .. c
      BY <1>3
    <2> QED BY <2>1, <1>5, <1>6
  <1>8. \A k, l \in K : k < l => Cardinality(Below(k)) # Cardinality(Below(l))
    <2> SUFFICES ASSUME NEW k \in K, NEW l \in K, k < l,
                        Cardinality(Below(k)) = Cardinality(Below(l))
                 PROVE  FALSE
      OBVIOUS
    <2>0. k \in Int /\ l \in Int /\ \A j \in K : j \in Int
      BY <1>4
    <2>a. ~(l <= k) /\ l <= l /\ \A j \in K : j <= k => j <= l
      BY <2>0
    <2>1. Below(k) \in SUBSET Below(l) /\ l \notin Below(k) /\ l \in Below(l)
      BY <2>a
    <2>2. IsFiniteSet(Below(l))
      BY <1>5
    <2> HIDE DEF Below
    <2> QED BY <2>1, <2>2, FS_Subset
  <1>9. \A k, l \in K : Cardinality(Below(k)) = Cardinality(Below(l)) => k = l
    <2> SUFFICES ASSUME NEW k \in K, NEW l \in K,
                        Cardinality(Below(k)) = Cardinality(Below(l))
                 PROVE  k = l
      OBVIOUS
    <2>1. ~(k < l) /\ ~(l < k)
      BY <1>8
    <2> QED BY <2>1, <1>4
  <1> DEFINE f == [k \in K |-> Cardinality(Below(k))]
  <1>10. f \in Injection(K, 1 .. c)
    <2> HIDE DEF Below, c
    <2>1. f \in [K -> 1 .. c]
      BY <1>7
    <2>2. \A k, l \in K : f[k] = f[l] => k = l
      BY <1>9
    <2> HIDE DEF f
    <2> QED BY <2>1, <2>2 DEF Injection, IsInjective
  <1>11. IsFiniteSet(1 .. c) /\ Cardinality(1 .. c) = c
    BY <1>3, FS_Interval
  <1>12. f \in Surjection(K, 1 .. c)
    <2> HIDE DEF f
    <2> QED BY <1>10, <1>11, FS_Injection
  <1>13. \A e \in 1 .. c : \E k \in K : Cardinality(Below(k)) = e
    BY <1>12 DEF Surjection
  <1> QED BY <1>2, <1>3, <1>7, <1>9, <1>13 DEF Place

(* Kept takes every place of K once.                                       *)
LEMMA KeptFacts ==
    ASSUME NEW S, NEW s \in Seq(S), NEW K \in SUBSET DOMAIN s
    PROVE  /\ Kept(s, K) \in Seq(S) /\ Len(Kept(s, K)) <= Len(s)
           /\ \E f \in [DOMAIN Kept(s, K) -> K] :
                /\ \A e \in DOMAIN Kept(s, K) : Kept(s, K)[e] = s[f[e]]
                /\ \A e, j \in DOMAIN Kept(s, K) : f[e] = f[j] => e = j
  <1>1. Len(s) \in Nat /\ DOMAIN s = 1 .. Len(s)
    BY LenProperties
  <1> DEFINE c == Cardinality(K)
             Nth(e) == CHOOSE k \in K : Place(K, k) = e
             f == [e \in 1 .. c |-> Nth(e)]
  <1>2. /\ c \in 0 .. Len(s)
        /\ \A e \in 1 .. c : \E k \in K : Place(K, k) = e
    BY <1>1, PlaceFacts
  <1>3. \A e \in 1 .. c : Nth(e) \in K /\ Place(K, Nth(e)) = e
    BY <1>2
  <1>4. Kept(s, K) = [e \in 1 .. c |-> s[Nth(e)]]
    BY DEF Kept, Place
  <1> HIDE DEF RunAt, c
  <1>5. \A e \in 1 .. c : s[Nth(e)] \in S
    BY <1>1, <1>3
  <1>6. c \in Nat /\ c <= Len(s)
    BY <1>1, <1>2
  <1>7. /\ Kept(s, K) \in Seq(S) /\ Len(Kept(s, K)) = c
        /\ DOMAIN Kept(s, K) = 1 .. c
    BY <1>4, <1>5, <1>6
  <1>8. f \in [1 .. c -> K] /\ \A e \in 1 .. c : Kept(s, K)[e] = s[f[e]]
    BY <1>3, <1>4
  <1>9. \A e, j \in 1 .. c : f[e] = f[j] => e = j
    BY <1>3
  <1> HIDE DEF f
  <1> QED BY <1>6, <1>7, <1>8, <1>9
Item == [id : Ids, read : BOOLEAN]
Distinct(s) == \A k, l \in DOMAIN s : s[k].id = s[l].id => k = l

(* What is kept of a list of notifications is one, and names none twice.   *)
LEMMA KeptItems ==
    ASSUME NEW s \in Seq(Item), NEW K \in SUBSET DOMAIN s
    PROVE  /\ Kept(s, K) \in Seq(Item) /\ Len(Kept(s, K)) <= Len(s)
           /\ Distinct(s) => Distinct(Kept(s, K))
           /\ \A e \in DOMAIN Kept(s, K) : \E k \in K : Kept(s, K)[e] = s[k]
  <1> DEFINE t == Kept(s, K)
  <1>1. t \in Seq(Item) /\ Len(t) <= Len(s)
    BY KeptFacts
  <1>2. PICK f \in [DOMAIN t -> K] :
               /\ \A e \in DOMAIN t : t[e] = s[f[e]]
               /\ \A e, j \in DOMAIN t : f[e] = f[j] => e = j
    BY KeptFacts
  <1> HIDE DEF t
  <1>3. ASSUME Distinct(s) PROVE Distinct(t)
    <2> SUFFICES ASSUME NEW e \in DOMAIN t, NEW j \in DOMAIN t,
                        t[e].id = t[j].id
                 PROVE  e = j
      BY DEF Distinct
    <2>1. f[e] \in DOMAIN s /\ f[j] \in DOMAIN s /\ s[f[e]].id = s[f[j]].id
      BY <1>2
    <2>2. f[e] = f[j]
      BY <1>3, <2>1 DEF Distinct
    <2> QED BY <1>2, <2>2
  <1>4. \A e \in DOMAIN t : \E k \in K : t[e] = s[k]
    BY <1>2
  <1> QED BY <1>1, <1>3, <1>4 DEF t

(* Dropping a notification leaves no copy of it.                           *)
LEMMA OthersFacts ==
    ASSUME NEW s \in Seq(Item), NEW n \in Ids
    PROVE  /\ Others(s, n) \in Seq(Item) /\ Len(Others(s, n)) <= Len(s)
           /\ Distinct(s) => Distinct(Others(s, n))
           /\ \A e \in DOMAIN Others(s, n) : Others(s, n)[e].id # n
  <1> DEFINE K == {k \in DOMAIN s : s[k].id # n}
  <1>1. K \in SUBSET DOMAIN s /\ \A k \in K : s[k].id # n
    OBVIOUS
  <1>2. Others(s, n) = Kept(s, K)
    BY DEF Others
  <1> HIDE DEF K
  <1> QED BY <1>1, <1>2, KeptItems

(* Posting puts one in front, keeps no other of its name and no more than  *)
(* the limit.                                                              *)
LEMMA PostedFacts ==
    ASSUME NEW s \in Seq(Item), NEW n \in Ids
    PROVE  /\ Posted(s, n) \in Seq(Item) /\ Len(Posted(s, n)) <= Limit
           /\ Distinct(s) => Distinct(Posted(s, n))
  <1> DEFINE new == [id |-> n, read |-> FALSE]
             o == Others(s, n)
             all == <<new>> \o o
             m == IF Len(all) > Limit THEN Limit ELSE Len(all)
             t == SubSeq(all, 1, m)
  <1>1. new \in Item /\ new.id = n
    BY DEF Item
  <1>2. /\ o \in Seq(Item)
        /\ Distinct(s) => Distinct(o)
        /\ \A e \in DOMAIN o : o[e].id # n
    BY OthersFacts
  <1>3. Posted(s, n) = t
    BY DEF Posted
  <1>4. Limit \in Nat
    BY TrayAssumption
  <1> HIDE DEF new, o
  <1>5. Len(o) \in Nat /\ DOMAIN o = 1 .. Len(o)
    BY <1>2, LenProperties
  <1>6. /\ all \in Seq(Item) /\ Len(all) = Len(o) + 1
        /\ DOMAIN all = 1 .. Len(o) + 1
        /\ \A e \in DOMAIN all : all[e] = IF e = 1 THEN new ELSE o[e - 1]
    <2>1. <<new>> \in Seq(Item) /\ Len(<<new>>) = 1
      BY <1>1
    <2>2. all \in Seq(Item) /\ Len(all) = 1 + Len(o)
      BY <1>2, <2>1, ConcatProperties
    <2>3. \A e \in 1 .. 1 + Len(o) :
             all[e] = IF e <= 1 THEN <<new>>[e] ELSE o[e - 1]
      BY <1>2, <2>1, ConcatProperties
    <2> HIDE DEF all
    <2>4. DOMAIN all = 1 .. 1 + Len(o) /\ 1 + Len(o) = Len(o) + 1
      BY <2>2, <1>5, LenProperties
    <2>5. \A e \in 1 .. 1 + Len(o) : e <= 1 <=> e = 1
      BY <1>5
    <2>6. \A e \in 1 .. 1 + Len(o) : all[e] = IF e = 1 THEN new ELSE o[e - 1]
      BY <2>3, <2>5
    <2> QED BY <2>2, <2>4, <2>6
  <1> HIDE DEF all
  <1>7. ASSUME Distinct(s) PROVE Distinct(all)
    <2> SUFFICES ASSUME NEW k \in DOMAIN all, NEW l \in DOMAIN all,
                        all[k].id = all[l].id
                 PROVE  k = l
      BY DEF Distinct
    <2>0. k \in 1 .. Len(o) + 1 /\ l \in 1 .. Len(o) + 1
      BY <1>6
    <2>1. CASE k = 1 /\ l = 1
      BY <2>1
    <2>2. CASE k = 1 /\ l # 1
      <3>1. l - 1 \in DOMAIN o
        BY <2>0, <2>2, <1>5
      <3> QED BY <3>1, <2>2, <1>1, <1>2, <1>6
    <2>3. CASE k # 1 /\ l = 1
      <3>1. k - 1 \in DOMAIN o
        BY <2>0, <2>3, <1>5
      <3> QED BY <3>1, <2>3, <1>1, <1>2, <1>6
    <2>4. CASE k # 1 /\ l # 1
      <3>1. k - 1 \in DOMAIN o /\ l - 1 \in DOMAIN o
        BY <2>0, <2>4, <1>5
      <3>2. o[k - 1].id = o[l - 1].id
        BY <2>4, <1>6
      <3>3. k - 1 = l - 1
        <4>1. \A x, y \in DOMAIN o : o[x].id = o[y].id => x = y
          BY <1>2, <1>7 DEF Distinct
        <4> QED BY <3>1, <3>2, <4>1
      <3> QED BY <3>3, <2>0
    <2> QED BY <2>1, <2>2, <2>3, <2>4
  <1>8. m \in 0 .. Len(all) /\ m <= Limit /\ m \in Nat
    BY <1>4, <1>5, <1>6
  <1> HIDE DEF m
  <1>9. /\ t \in Seq(Item) /\ Len(t) = m /\ DOMAIN t = 1 .. m
        /\ \A e \in 1 .. m : t[e] = all[e]
    BY <1>6, <1>8, <1>5
  <1> HIDE DEF t
  <1>10. 1 .. m \in SUBSET DOMAIN all
    BY <1>5, <1>6, <1>8
  <1>11. ASSUME Distinct(s) PROVE Distinct(t)
    BY <1>7, <1>9, <1>10, <1>11 DEF Distinct
  <1> QED BY <1>3, <1>8, <1>9, <1>11

(* Reading, archiving or dismissing names none twice.                      *)
LEMMA HandledFacts ==
    ASSUME NEW s \in Seq(Item), NEW n \in Ids, NEW d \in BOOLEAN
    PROVE  /\ Handled(s, n, d) \in Seq(Item)
           /\ Len(Handled(s, n, d)) <= Len(s)
           /\ Distinct(s) => Distinct(Handled(s, n, d))
  <1>1. CASE d
    BY <1>1, OthersFacts DEF Handled
  <1>2. CASE ~d
    <2> DEFINE t == Handled(s, n, d)
    <2>1. t = [k \in DOMAIN s |-> IF s[k].id = n
                                  THEN [s[k] EXCEPT !.read = TRUE] ELSE s[k]]
      BY <1>2 DEF Handled
    <2> HIDE DEF t
    <2>2. Len(s) \in Nat /\ DOMAIN s = 1 .. Len(s) /\ DOMAIN t = DOMAIN s
      BY <2>1, LenProperties
    <2>3. \A k \in DOMAIN s : s[k] \in Item
      BY ElementOfSeq, <2>2
    <2>4. \A k \in DOMAIN s : t[k] \in Item /\ t[k].id = s[k].id
      BY <2>1, <2>3 DEF Item
    <2>5. t \in Seq(Item) /\ Len(t) = Len(s)
      <3> HIDE DEF Item
      <3>1. t = [k \in 1 .. Len(s) |-> t[k]]
        BY <2>1, <2>2
      <3> QED BY <2>2, <2>4, <3>1
    <2>6. Distinct(s) => Distinct(t)
      BY <2>2, <2>4 DEF Distinct
    <2> QED BY <2>2, <2>5, <2>6 DEF t
  <1> QED BY <1>1, <1>2

(* Clearing what was read names none twice.                                *)
LEMMA ClearedFacts ==
    ASSUME NEW s \in Seq(Item)
    PROVE  /\ Cleared(s) \in Seq(Item) /\ Len(Cleared(s)) <= Len(s)
           /\ Distinct(s) => Distinct(Cleared(s))
  <1> DEFINE K == {k \in DOMAIN s : ~s[k].read}
  <1>1. K \in SUBSET DOMAIN s
    OBVIOUS
  <1>2. Cleared(s) = Kept(s, K)
    BY DEF Cleared
  <1> HIDE DEF K
  <1> QED BY <1>1, <1>2, KeptItems

-----------------------------------------------------------------------------
(* The tray: its invariant.                                                *)

Cache == [has : BOOLEAN, items : Seq(Item), fresh : BOOLEAN]
Decided == [at : {"decided"}, id : Ids, dismiss : BOOLEAN,
            items : Seq(Item), fresh : BOOLEAN]

Resting == [at : {"none"}, fresh : BOOLEAN]

TrayTypes ==
    /\ text \in [at : {"absent", "whole", "torn"}, items : Seq(Item)]
    /\ cache \in [Users -> Cache]
    /\ acting \in [Users -> Decided \cup Resting]
    /\ tray \in Seq(Item) /\ foreign \in BOOLEAN

(* What one holds as up to date is the tray.                               *)
CopiesAreTray ==
    /\ text.items = tray
    /\ \A p \in Users : cache[p].fresh => cache[p].items = tray
    /\ \A p \in Users : acting[p].fresh => acting[p].items = tray

TrayInv ==
    /\ TrayTypes
    /\ text.at # "whole" => text.items = <<>>
    /\ Distinct(tray) /\ Len(tray) <= Limit
    /\ ~foreign => CopiesAreTray

(* It holds of a workspace without a tray.                                 *)
LEMMA TrayInvInit == TrayInit => TrayInv
  <1> SUFFICES ASSUME TrayInit PROVE TrayInv
    OBVIOUS
  <1>1. <<>> \in Seq(Item) /\ Len(<<>>) = 0 /\ DOMAIN <<>> = 1 .. 0
    BY EmptySeq, LenProperties
  <1>2. NoCache \in Cache
    BY <1>1 DEF NoCache, Cache
  <1>3. TrayTypes
    <2>1. NoAction \in Resting
      BY DEF NoAction, Resting
    <2> QED BY <1>1, <1>2, <2>1 DEF TrayInit, TrayTypes
  <1>4. Distinct(tray) /\ Len(tray) <= Limit
    BY <1>1, TrayAssumption DEF TrayInit, Distinct
  <1>5. CopiesAreTray
    BY DEF TrayInit, CopiesAreTray, NoCache, NoAction
  <1> QED BY <1>3, <1>4, <1>5 DEF TrayInit, TrayInv

(* What list answers is the tray, unless the process was overtaken.        *)
LEMMA ListedFacts ==
    ASSUME TrayInv, NEW p \in Users
    PROVE  /\ Listed(p) \in Cache
           /\ ~foreign /\ Listed(p).fresh => Listed(p).items = tray
  <1>1. CASE cache[p].has
    BY <1>1 DEF Listed, TrayInv, TrayTypes, CopiesAreTray
  <1>2. CASE ~cache[p].has
    <2> DEFINE new == [has |-> TRUE, fresh |-> TRUE, items |-> text.items]
    <2>1. Listed(p) = new
      BY <1>2 DEF Listed, TrayInv
    <2>2. text.items \in Seq(Item)
      BY DEF TrayInv, TrayTypes
    <2>3. new \in Cache
      BY <2>2 DEF Cache
    <2> QED BY <2>1, <2>3 DEF TrayInv, CopiesAreTray
  <1> QED BY <1>1, <1>2

(* A list that was up to date when it was taken may be written.            *)
LEMMA WriteBackInv ==
    ASSUME TrayInv, NEW p \in Users, NEW items \in Seq(Item),
           WriteBack(p, items), NEW fresh \in BOOLEAN,
           tray' \in Seq(Item), Distinct(tray'), Len(tray') <= Limit,
           ~foreign /\ fresh => items = tray',
           foreign' = (foreign \/ ~fresh),
           \/ acting' = Behind(acting)
           \/ acting' = [Behind(acting) EXCEPT ![p] = NoAction]
    PROVE  TrayInv'
  <1>1. text' = [at |-> "whole", items |-> items]
    BY DEF WriteBack
  <1>2. \A q \in Users : cache'[q] =
               IF q = p THEN [has |-> TRUE, fresh |-> TRUE, items |-> items]
               ELSE [cache[q] EXCEPT !.fresh = FALSE]
    BY DEF WriteBack
  <1>3. cache' \in [Users -> Cache]
    <2>1. \A q \in Users : cache[q] \in Cache
      BY DEF TrayInv, TrayTypes
    <2>2. \A q \in Users : [cache[q] EXCEPT !.fresh = FALSE] \in Cache
      BY <2>1 DEF Cache
    <2>3. [has |-> TRUE, fresh |-> TRUE, items |-> items] \in Cache
      BY DEF Cache
    <2>4. cache' = [q \in Users |-> cache'[q]]
      BY DEF WriteBack
    <2> QED BY <1>2, <2>2, <2>3, <2>4
  <1>4. \A q \in Users : \/ acting'[q] = [acting[q] EXCEPT !.fresh = FALSE]
                         \/ acting'[q] = NoAction
    BY DEF Behind
  <1>5. \A q \in Users : /\ acting'[q] \in Decided \cup Resting
                         /\ ~acting'[q].fresh
    <2> SUFFICES ASSUME NEW q \in Users
                 PROVE  /\ acting'[q] \in Decided \cup Resting
                        /\ ~acting'[q].fresh
      OBVIOUS
    <2>1. acting[q] \in Decided \cup Resting
      BY DEF TrayInv, TrayTypes
    <2>2. ASSUME acting[q] \in Resting
          PROVE  /\ [acting[q] EXCEPT !.fresh = FALSE] \in Resting
                 /\ ~[acting[q] EXCEPT !.fresh = FALSE].fresh
      BY <2>2 DEF Resting
    <2>3. ASSUME acting[q] \in Decided
          PROVE  /\ [acting[q] EXCEPT !.fresh = FALSE] \in Decided
                 /\ ~[acting[q] EXCEPT !.fresh = FALSE].fresh
      BY <2>3 DEF Decided
    <2>4. NoAction \in Resting /\ ~NoAction.fresh
      BY DEF NoAction, Resting
    <2> QED BY <1>4, <2>1, <2>2, <2>3, <2>4
  <1>6. acting' \in [Users -> Decided \cup Resting]
    <2>1. acting' = [q \in Users |-> acting'[q]]
      BY DEF Behind
    <2> QED BY <1>5, <2>1
  <1>7. TrayTypes'
    BY <1>1, <1>3, <1>6 DEF TrayInv, TrayTypes
  <1>8. ASSUME ~foreign' PROVE CopiesAreTray'
    <2>1. ~foreign /\ fresh
      BY <1>8
    <2>2. items = tray'
      BY <2>1
    <2>3. \A q \in Users : cache'[q].fresh => cache'[q].items = tray'
      <3>1. \A q \in Users : cache[q] \in Cache
        BY DEF TrayInv, TrayTypes
      <3>2. \A q \in Users : ~[cache[q] EXCEPT !.fresh = FALSE].fresh
        BY <3>1 DEF Cache
      <3> SUFFICES ASSUME NEW q \in Users, cache'[q].fresh
                   PROVE  cache'[q].items = tray'
        OBVIOUS
      <3>3. CASE q = p
        <4>1. cache'[q] = [has |-> TRUE, fresh |-> TRUE, items |-> items]
          BY <1>2, <3>3
        <4> QED BY <2>2, <4>1
      <3>4. CASE q # p
        <4>1. cache'[q] = [cache[q] EXCEPT !.fresh = FALSE]
          BY <1>2, <3>4
        <4> QED BY <3>2, <4>1
      <3> QED BY <3>3, <3>4
    <2> QED BY <1>1, <1>5, <2>2, <2>3 DEF CopiesAreTray
  <1> QED BY <1>1, <1>7, <1>8 DEF TrayInv

(* A step that fills the cache of p, or the list of its action, from what  *)
(* list answers.                                                           *)
LEMMA ListInv ==
    ASSUME TrayInv, NEW p \in Users, NEW c \in Cache,
           NEW a \in Decided \cup Resting,
           ~foreign /\ c.fresh => c.items = tray,
           ~foreign /\ a.fresh => a.items = tray,
           cache' = [cache EXCEPT ![p] = c],
           acting' = [acting EXCEPT ![p] = a],
           UNCHANGED <<text, tray, foreign>>
    PROVE  TrayInv'
  <1>1. cache' \in [Users -> Cache]
    BY DEF TrayInv, TrayTypes
  <1>2. acting' \in [Users -> Decided \cup Resting]
    BY DEF TrayInv, TrayTypes
  <1>3. TrayTypes'
    BY <1>1, <1>2 DEF TrayInv, TrayTypes
  <1>4. /\ \A q \in Users : cache'[q] = IF q = p THEN c ELSE cache[q]
        /\ \A q \in Users : acting'[q] = IF q = p THEN a ELSE acting[q]
    BY DEF TrayInv, TrayTypes
  <1>5. ~foreign' => CopiesAreTray'
    BY <1>4 DEF TrayInv, CopiesAreTray
  <1> QED BY <1>3, <1>5 DEF TrayInv

(* Every operation of every process keeps the invariant.                   *)
LEMMA TrayInvStep == TrayInv /\ [TrayNext]_trayVars => TrayInv'
  <1> SUFFICES ASSUME TrayInv, [TrayNext]_trayVars PROVE TrayInv'
    OBVIOUS
  <1>0. tray \in Seq(Item) /\ Distinct(tray) /\ Len(tray) <= Limit
    BY DEF TrayInv, TrayTypes
  <1>1. ASSUME NEW p \in Users, List(p) PROVE TrayInv'
    <2>1. acting[p] \in Decided \cup Resting
      BY DEF TrayInv, TrayTypes
    <2>2. ~foreign /\ acting[p].fresh => acting[p].items = tray
      BY DEF TrayInv, CopiesAreTray
    <2>3. acting' = [acting EXCEPT ![p] = acting[p]]
      BY <1>1 DEF List, TrayInv, TrayTypes
    <2> QED BY <1>1, <2>1, <2>2, <2>3, ListedFacts, ListInv DEF List
  <1>2. ASSUME NEW p \in Users, NEW n \in Ids, Notify(p, n) PROVE TrayInv'
    <2> DEFINE items == Listed(p).items
               fresh == Listed(p).fresh
    <2>1. items \in Seq(Item) /\ fresh \in BOOLEAN
      BY ListedFacts DEF Cache
    <2>2. ~foreign /\ fresh => items = tray
      BY ListedFacts
    <2>3. /\ WriteBack(p, Posted(items, n)) /\ acting' = Behind(acting)
          /\ tray' = Posted(tray, n) /\ foreign' = (foreign \/ ~fresh)
      BY <1>2 DEF Notify
    <2> HIDE DEF items, fresh
    <2>4. Posted(items, n) \in Seq(Item)
      BY <2>1, PostedFacts
    <2>5. tray' \in Seq(Item) /\ Distinct(tray') /\ Len(tray') <= Limit
      BY <1>0, <2>3, PostedFacts
    <2>6. ~foreign /\ fresh => Posted(items, n) = tray'
      BY <2>2, <2>3
    <2> QED BY <2>1, <2>3, <2>4, <2>5, <2>6, WriteBackInv
  <1>3. ASSUME NEW p \in Users, Clear(p) PROVE TrayInv'
    <2> DEFINE items == Listed(p).items
               fresh == Listed(p).fresh
    <2>1. items \in Seq(Item) /\ fresh \in BOOLEAN
      BY ListedFacts DEF Cache
    <2>2. ~foreign /\ fresh => items = tray
      BY ListedFacts
    <2>3. tray' = Cleared(tray) /\ foreign' = (foreign \/ ~fresh)
      BY <1>3 DEF Clear
    <2>4. \/ WriteBack(p, Cleared(items)) /\ acting' = Behind(acting)
          \/ /\ Cleared(items) = items
             /\ cache' = [cache EXCEPT ![p] = Listed(p)]
             /\ UNCHANGED <<text, acting>>
      BY <1>3 DEF Clear
    <2>5. Len(tray) \in Nat /\ Len(tray') \in Nat /\ Limit \in Nat
      BY <1>0, <2>3, ClearedFacts, LenProperties, TrayAssumption
    <2>6. tray' \in Seq(Item) /\ Distinct(tray') /\ Len(tray') <= Limit
      BY <1>0, <2>3, <2>5, ClearedFacts
    <2> HIDE DEF items, fresh
    <2>7. CASE WriteBack(p, Cleared(items)) /\ acting' = Behind(acting)
      <3>1. Cleared(items) \in Seq(Item)
        BY <2>1, ClearedFacts
      <3>2. ~foreign /\ fresh => Cleared(items) = tray'
        BY <2>2, <2>3
      <3> QED BY <2>1, <2>3, <2>6, <2>7, <3>1, <3>2, WriteBackInv
    <2>8. CASE /\ Cleared(items) = items
               /\ cache' = [cache EXCEPT ![p] = Listed(p)]
               /\ UNCHANGED <<text, acting>>
      <3>1. Listed(p) \in Cache
        BY ListedFacts
      <3>2. TrayTypes'
        BY <2>1, <2>3, <2>6, <2>8, <3>1 DEF TrayInv, TrayTypes
      <3>3. ASSUME ~foreign' PROVE CopiesAreTray'
        <4>1. ~foreign /\ tray' = tray
          BY <2>2, <2>3, <2>8, <3>3
        <4>2. \A q \in Users : cache'[q] =
                IF q = p THEN Listed(p) ELSE cache[q]
          BY <2>8 DEF TrayInv, TrayTypes
        <4> QED BY <2>8, <4>1, <4>2, ListedFacts DEF TrayInv, CopiesAreTray
      <3> QED BY <2>6, <2>8, <3>2, <3>3 DEF TrayInv
    <2> QED BY <2>4, <2>7, <2>8
  <1>4. ASSUME NEW p \in Users, NEW n \in Ids, NEW d \in BOOLEAN,
               StartAction(p, n, d)
        PROVE  TrayInv'
    <2> DEFINE a == [at |-> "decided", id |-> n, dismiss |-> d,
                     items |-> Listed(p).items, fresh |-> Listed(p).fresh]
    <2>1. Listed(p).items \in Seq(Item) /\ Listed(p).fresh \in BOOLEAN
      BY ListedFacts DEF Cache
    <2>2. a \in Decided \cup Resting
      BY <2>1 DEF Decided
    <2>3. ~foreign /\ a.fresh => a.items = tray
      BY ListedFacts
    <2>4. /\ cache' = [cache EXCEPT ![p] = Listed(p)]
          /\ acting' = [acting EXCEPT ![p] = a]
          /\ UNCHANGED <<text, tray, foreign>>
      BY <1>4 DEF StartAction
    <2> HIDE DEF a
    <2> QED BY <2>2, <2>3, <2>4, ListedFacts, ListInv
  <1>5. ASSUME NEW p \in Users, FinishAction(p) PROVE TrayInv'
    <2> DEFINE a == acting[p]
    <2>1. a.at = "decided" /\ a \in Decided \cup Resting
      BY <1>5 DEF FinishAction, TrayInv, TrayTypes
    <2>2. a \in Decided
      BY <2>1 DEF Resting
    <2>3. /\ a.items \in Seq(Item) /\ a.id \in Ids /\ a.dismiss \in BOOLEAN
          /\ a.fresh \in BOOLEAN
      BY <2>2 DEF Decided
    <2>4. ~foreign /\ a.fresh => a.items = tray
      BY DEF TrayInv, CopiesAreTray
    <2>5. /\ WriteBack(p, Handled(a.items, a.id, a.dismiss))
          /\ acting' = [Behind(acting) EXCEPT ![p] = NoAction]
          /\ tray' = Handled(tray, a.id, a.dismiss)
          /\ foreign' = (foreign \/ ~a.fresh)
      BY <1>5 DEF FinishAction
    <2> HIDE DEF a
    <2>6. Handled(a.items, a.id, a.dismiss) \in Seq(Item)
      BY <2>3, HandledFacts
    <2>7. /\ tray' \in Seq(Item) /\ Distinct(tray')
          /\ Len(tray') <= Len(tray)
      BY <1>0, <2>3, <2>5, HandledFacts
    <2>8. Len(tray') <= Limit
      <3>1. Len(tray) \in Nat /\ Len(tray') \in Nat /\ Limit \in Nat
        BY <1>0, <2>7, LenProperties, TrayAssumption
      <3> QED BY <3>1, <2>7, <1>0
    <2>9. ~foreign /\ a.fresh => Handled(a.items, a.id, a.dismiss) = tray'
      BY <2>4, <2>5
    <2> QED BY <2>3, <2>5, <2>6, <2>7, <2>8, <2>9, WriteBackInv
  <1>6. ASSUME NEW p \in Users, Exit(p) PROVE TrayInv'
    <2>1. NoCache \in Cache /\ ~NoCache.fresh
      <3>1. <<>> \in Seq(Item)
        BY EmptySeq
      <3> QED BY <3>1 DEF NoCache, Cache
    <2>2. NoAction \in Decided \cup Resting /\ ~NoAction.fresh
      BY DEF NoAction, Resting
    <2>3. CASE UNCHANGED <<text, foreign>>
      BY <1>6, <2>1, <2>2, <2>3, ListInv DEF Exit
    <2>4. CASE text' = [at |-> "torn", items |-> <<>>] /\ foreign' = TRUE
      <3>1. <<>> \in Seq(Item)
        BY EmptySeq
      <3>2. text' \in [at : {"absent", "whole", "torn"}, items : Seq(Item)]
        BY <2>4, <3>1
      <3>3. TrayTypes'
        BY <1>6, <2>1, <2>2, <2>4, <3>2 DEF Exit, TrayInv, TrayTypes
      <3> QED BY <1>6, <2>4, <3>3 DEF Exit, TrayInv
    <2> QED BY <1>6, <2>3, <2>4 DEF Exit
  <1>7. CASE UNCHANGED trayVars
    BY <1>7 DEF trayVars, TrayInv, TrayTypes, CopiesAreTray, Distinct
  <1> QED BY <1>1, <1>2, <1>3, <1>4, <1>5, <1>6, <1>7 DEF TrayNext

(* notification.rs, for any number of processes, notifications and any     *)
(* limit: until somebody writes from a list he had been overtaken on, file *)
(* and caches are the tray, no notification is in it twice and it stays    *)
(* within the limit.                                                       *)
THEOREM TrayCorrect == TraySpec => []TrayIsExact
  <1>1. TrayInv => TrayIsExact
    BY DEF TrayInv, TrayIsExact, CopiesAreTray, Distinct
  <1> QED BY <1>1, TrayInvInit, TrayInvStep, PTL DEF TraySpec

-----------------------------------------------------------------------------
(* The task engine and its pipelines.                                      *)

(* What the critical sections make of a task.                              *)
LEMMA FlowConstants ==
    /\ RepoFiles # {} /\ GitWorkspace \in BOOLEAN
    /\ MaxQaRetries \in Nat /\ MaxStarts \in Nat /\ MaxDecisions \in Nat
    /\ MaxRemovals \in Nat /\ MaxRestarts \in Nat
    /\ NoTask \notin FlowTask
  BY FlowAssumption DEF NoTask, FlowTask, FlowState

Pushed(t, by, simulated, r) ==
    /\ r \in FlowTask
    /\ r.state = t.state /\ r.qa_retries = t.qa_retries
    /\ r.backend = t.backend /\ r.diff = t.diff
    /\ r.last = [by |-> by, simulated |-> simulated]
    /\ r.past = t.past \cup {t.last}

(* A transition is added to the history and nothing else changes.          *)
LEMMA PushFacts ==
    ASSUME NEW t \in FlowTask, NEW by \in {"agent", "script", "developer"},
           NEW simulated \in BOOLEAN
    PROVE  Pushed(t, by, simulated, Push(t, by, simulated))
  BY DEF Push, Pushed, FlowTask, Transition

(* start_task makes a task in Planning with a history of one entry.        *)
LEMMA FreshFacts ==
    ASSUME NEW by \in {"agent", "script"}
    PROVE  /\ FreshTask(by) \in FlowTask
           /\ FreshTask(by).state = "Planning" /\ FreshTask(by).qa_retries = 0
           /\ FreshTask(by).backend = "Simulated" /\ FreshTask(by).past = {}
           /\ FreshTask(by).last = [by |-> by, simulated |-> TRUE]
  BY DEF FreshTask, FlowTask, Transition, FlowState

(* mark_last_real changes the last label only.                             *)
LEMMA LabelledFacts ==
    ASSUME NEW t \in FlowTask
    PROVE  /\ Labelled(t) \in FlowTask
           /\ Labelled(t).state = t.state
           /\ Labelled(t).qa_retries = t.qa_retries
           /\ Labelled(t).backend = t.backend
           /\ Labelled(t).diff = t.diff
           /\ Labelled(t).last = [by |-> t.last.by, simulated |-> FALSE]
           /\ Labelled(t).past = t.past
  <1>1. t.last \in Transition
    BY DEF FlowTask
  <1> DEFINE new == [by |-> t.last.by, simulated |-> FALSE]
  <1>2. ASSUME NEW h \in Transition, NEW v
        PROVE  [h EXCEPT !.simulated = v] = [by |-> h.by, simulated |-> v]
    BY DEF Transition
  <1>3. [t.last EXCEPT !.simulated = FALSE] = new
    BY <1>1, <1>2, Zenon
  <1>4. new \in Transition
    BY <1>1 DEF Transition
  <1>5. Labelled(t) = [t EXCEPT !.last = new]
    BY <1>3 DEF Labelled, FlowTask
  <1> HIDE DEF new
  <1>6. /\ Labelled(t) \in FlowTask
        /\ Labelled(t).state = t.state
        /\ Labelled(t).qa_retries = t.qa_retries
        /\ Labelled(t).backend = t.backend
        /\ Labelled(t).diff = t.diff
        /\ Labelled(t).last = new
        /\ Labelled(t).past = t.past
    BY <1>4, <1>5 DEF FlowTask
  <1> QED
    BY <1>6 DEF new

(* The state after a phase.                                                *)
After(t, ok) ==
    CASE t.state = "Planning"     -> {"Implementing"}
      [] t.state = "Implementing" -> {"Testing"}
      [] t.state = "Testing"      -> IF ok THEN {"Reviewing"}
                                     ELSE {"Implementing", "Failed"}
      [] OTHER                    -> {"ReadyForApproval"}

(* advance_phase moves to the next phase and keeps the retries in bounds.  *)
LEMMA AdvancedFacts ==
    ASSUME NEW t \in FlowTask, NEW ok \in BOOLEAN,
           NEW by \in {"agent", "script"}, ~Bails(t), t.state # "Pending",
           t.qa_retries <= MaxQaRetries
    PROVE  /\ Advanced(t, ok, by) \in FlowTask
           /\ Advanced(t, ok, by).state \in After(t, ok)
           /\ Advanced(t, ok, by).state # "Pending"
           /\ Advanced(t, ok, by).qa_retries <= MaxQaRetries
           /\ Advanced(t, ok, by).backend = t.backend
           /\ Advanced(t, ok, by).diff = t.diff
           /\ Advanced(t, ok, by).last = [by |-> by, simulated |-> TRUE]
           /\ Advanced(t, ok, by).past = t.past \cup {t.last}
  <1> DEFINE n == NextPhase(t, ok)
  <1>1. /\ n \in FlowTask /\ n.state \in After(t, ok) /\ n.state # "Pending"
        /\ n.qa_retries <= MaxQaRetries /\ n.backend = t.backend
        /\ n.diff = t.diff /\ n.last = t.last /\ n.past = t.past
    <2>0. t.state \in {"Planning", "Implementing", "Testing", "Reviewing"}
      BY DEF Bails, FlowTask, FlowState
    <2>1. CASE t.state = "Planning"
      <3>1. n = [t EXCEPT !.state = "Implementing"]
        BY <2>1 DEF NextPhase
      <3> HIDE DEF n
      <3> QED
        BY <2>1, <3>1 DEF FlowTask, FlowState, After
    <2>2. CASE t.state = "Implementing"
      <3>1. n = [t EXCEPT !.state = "Testing"]
        BY <2>2 DEF NextPhase
      <3> HIDE DEF n
      <3> QED
        BY <2>2, <3>1 DEF FlowTask, FlowState, After
    <2>3. CASE t.state = "Testing" /\ ok
      <3>1. n = [t EXCEPT !.state = "Reviewing"]
        BY <2>3 DEF NextPhase
      <3> HIDE DEF n
      <3> QED
        BY <2>3, <3>1 DEF FlowTask, FlowState, After
    <2>4. CASE t.state = "Testing" /\ ~ok /\ t.qa_retries < MaxQaRetries
      <3>1. n = [t EXCEPT !.qa_retries = t.qa_retries + 1,
                          !.state = "Implementing"]
        BY <2>4 DEF NextPhase, QaFailed
      <3>2. t.qa_retries + 1 \in Nat /\ t.qa_retries + 1 <= MaxQaRetries
        BY <2>4, FlowConstants DEF FlowTask
      <3> HIDE DEF n
      <3> QED
        BY <2>4, <3>1, <3>2 DEF FlowTask, FlowState, After
    <2>5. CASE t.state = "Testing" /\ ~ok /\ ~(t.qa_retries < MaxQaRetries)
      <3>1. n = [t EXCEPT !.state = "Failed"]
        BY <2>5 DEF NextPhase, QaFailed
      <3> HIDE DEF n
      <3> QED
        BY <2>5, <3>1 DEF FlowTask, FlowState, After
    <2>6. CASE t.state = "Reviewing"
      <3>1. n = [t EXCEPT !.state = "ReadyForApproval"]
        BY <2>6 DEF NextPhase
      <3> HIDE DEF n
      <3> QED
        BY <2>6, <3>1 DEF FlowTask, FlowState, After
    <2> QED
      BY <2>0, <2>1, <2>2, <2>3, <2>4, <2>5, <2>6
  <1>2. Advanced(t, ok, by) = Push(n, by, TRUE)
    BY DEF Advanced
  <1> HIDE DEF n
  <1>4. Pushed(n, by, TRUE, Advanced(t, ok, by))
    BY <1>1, <1>2, PushFacts, Zenon
  <1> QED
    BY <1>1, <1>4 DEF Pushed

(* fail_task leaves a failed task that is otherwise the same.              *)
LEMMA FailedFacts ==
    ASSUME NEW t \in FlowTask
    PROVE  /\ Failed(t) \in FlowTask
           /\ Failed(t).state = "Failed"
           /\ Failed(t).qa_retries = t.qa_retries
           /\ Failed(t).backend = t.backend
           /\ Failed(t).diff = t.diff
           /\ Failed(t).last = [by |-> "agent", simulated |-> FALSE]
           /\ Failed(t).past = t.past \cup {t.last}
  <1> DEFINE n == [t EXCEPT !.state = "Failed"]
  <1>1. /\ n \in FlowTask /\ n.state = "Failed" /\ n.qa_retries = t.qa_retries
        /\ n.backend = t.backend /\ n.diff = t.diff /\ n.last = t.last
        /\ n.past = t.past
    BY DEF FlowTask, FlowState
  <1>2. Failed(t) = Push(n, "agent", FALSE)
    BY DEF Failed
  <1> HIDE DEF n
  <1>4. Pushed(n, "agent", FALSE, Failed(t))
    BY <1>1, <1>2, PushFacts, Zenon
  <1> QED
    BY <1>1, <1>4 DEF Pushed

(* rewind_to_coder costs a retry.                                          *)
LEMMA RewoundFacts ==
    ASSUME NEW t \in FlowTask
    PROVE  /\ Rewound(t) \in FlowTask
           /\ Rewound(t).state = "Implementing"
           /\ Rewound(t).qa_retries = t.qa_retries + 1
           /\ Rewound(t).backend = t.backend
           /\ Rewound(t).diff = t.diff
           /\ Rewound(t).last = [by |-> "agent", simulated |-> FALSE]
           /\ Rewound(t).past = t.past \cup {t.last}
  <1> DEFINE n == [t EXCEPT !.state = "Implementing",
                            !.qa_retries = t.qa_retries + 1]
  <1>1. /\ n \in FlowTask /\ n.state = "Implementing"
        /\ n.qa_retries = t.qa_retries + 1
        /\ n.backend = t.backend /\ n.diff = t.diff /\ n.last = t.last
        /\ n.past = t.past
    <2>1. t.qa_retries + 1 \in Nat
      BY DEF FlowTask
    <2> QED
      BY <2>1 DEF FlowTask, FlowState
  <1>2. Rewound(t) = Push(n, "agent", FALSE)
    BY DEF Rewound
  <1> HIDE DEF n
  <1>4. Pushed(n, "agent", FALSE, Rewound(t))
    BY <1>1, <1>2, PushFacts, Zenon
  <1> QED
    BY <1>1, <1>4 DEF Pushed

(* The developer's answer.                                                 *)
Answered(t, decision) ==
    Push([t EXCEPT !.state = IF decision THEN "Merged" ELSE "Failed"],
         "developer", TRUE)

(* approve_task ends the task and adds an entry of the developer.          *)
LEMMA AnsweredFacts ==
    ASSUME NEW t \in FlowTask, NEW decision \in BOOLEAN
    PROVE  /\ Answered(t, decision) \in FlowTask
           /\ Answered(t, decision).state \in {"Merged", "Failed"}
           /\ Answered(t, decision).qa_retries = t.qa_retries
           /\ Answered(t, decision).backend = t.backend
           /\ Answered(t, decision).diff = t.diff
           /\ Answered(t, decision).last =
                [by |-> "developer", simulated |-> TRUE]
           /\ Answered(t, decision).past = t.past \cup {t.last}
  <1> DEFINE s == IF decision THEN "Merged" ELSE "Failed"
             n == [t EXCEPT !.state = s]
  <1>1. s \in {"Merged", "Failed"} /\ s \in FlowState
    BY DEF FlowState
  <1>2. Answered(t, decision) = Push(n, "developer", TRUE)
    BY DEF Answered
  <1> HIDE DEF s
  <1>3. /\ n \in FlowTask /\ n.state = s /\ n.qa_retries = t.qa_retries
        /\ n.backend = t.backend /\ n.diff = t.diff /\ n.last = t.last
        /\ n.past = t.past
    BY <1>1 DEF FlowTask
  <1> HIDE DEF n
  <1>4. Pushed(n, "developer", TRUE, Answered(t, decision))
    BY <1>1, <1>2, <1>3, PushFacts, Zenon
  <1> QED
    BY <1>1, <1>3, <1>4 DEF Pushed

(* set_backend.                                                            *)
Backed(t) ==
    [t EXCEPT !.backend = "Agent", !.last.simulated = FALSE,
              !.past = {[h EXCEPT !.simulated = FALSE] : h \in t.past}]

(* set_backend relabels every entry of the history.                        *)
LEMMA BackedFacts ==
    ASSUME NEW t \in FlowTask
    PROVE  /\ Backed(t) \in FlowTask
           /\ Backed(t).state = t.state
           /\ Backed(t).qa_retries = t.qa_retries
           /\ Backed(t).backend = "Agent"
           /\ Backed(t).diff = t.diff
           /\ Backed(t).last = [by |-> t.last.by, simulated |-> FALSE]
           /\ t.past = {} => Backed(t).past = {}
  <1> DEFINE P == {[h EXCEPT !.simulated = FALSE] : h \in t.past}
             n == [t EXCEPT !.backend = "Agent", !.past = P]
  <1>1. \A h \in Transition : [h EXCEPT !.simulated = FALSE] \in Transition
    BY DEF Transition
  <1>2. P \in SUBSET Transition
    BY <1>1 DEF FlowTask
  <1>3. t.past = {} => P = {}
    OBVIOUS
  <1>4. Backed(t) = Labelled(n)
    BY DEF Backed, Labelled, FlowTask
  <1> HIDE DEF P
  <1>5. /\ n \in FlowTask /\ n.state = t.state /\ n.qa_retries = t.qa_retries
        /\ n.backend = "Agent" /\ n.diff = t.diff /\ n.last = t.last
        /\ n.past = P
    BY <1>2 DEF FlowTask
  <1> HIDE DEF n
  <1> QED
    BY <1>3, <1>4, <1>5, LabelledFacts

(* diff_preview.                                                           *)
Shown(t, F) == [t EXCEPT !.diff = {F}]

(* Attaching the diff changes the diff only.                               *)
LEMMA ShownFacts ==
    ASSUME NEW t \in FlowTask, NEW F \in SUBSET RepoFiles
    PROVE  /\ Shown(t, F) \in FlowTask
           /\ Shown(t, F).state = t.state
           /\ Shown(t, F).qa_retries = t.qa_retries
           /\ Shown(t, F).backend = t.backend
           /\ Shown(t, F).diff = {F}
           /\ Shown(t, F).last = t.last
           /\ Shown(t, F).past = t.past
  BY DEF Shown, FlowTask

-----------------------------------------------------------------------------
(* The type of a task that a pipeline can be working on, and what the      *)
(* pipeline knows when it is about to rewind.                              *)

Sound(t) == t \in FlowTask /\ t.qa_retries <= MaxQaRetries /\ t.state # "Pending"

FlowTypes ==
    /\ FlowTypeOK
    /\ task # NoTask => Sound(task)
    /\ run.pc = "a.rewind" => task.qa_retries < MaxQaRetries

(* The parts of FlowTypeOK that a step of the pipeline leaves alone.       *)
EnvTypes ==
    /\ met \subseteq {"start", "answer", "removal"}
    /\ starts \in 0..MaxStarts /\ decisions \in 0..MaxDecisions
    /\ removals \in 0..MaxRemovals /\ restarts \in 0..MaxRestarts

(* Moving on and returning.                                                *)
LEMMA MoveFacts ==
    ASSUME NEW r \in Pipeline, NEW pc \in ProgramPoint
    PROVE  /\ [r EXCEPT !.pc = pc] \in Pipeline
           /\ [r EXCEPT !.pc = pc].pc = pc
           /\ [r EXCEPT !.pc = pc].plan = r.plan
           /\ [r EXCEPT !.pc = pc].ok = r.ok
           /\ [r EXCEPT !.pc = pc].copy = r.copy
  BY DEF Pipeline

(* A pipeline that returns, with its plan or without.                      *)
LEMMA ReturnFacts ==
    ASSUME run \in Pipeline, Return \/ ReturnReady
    PROVE  run' \in Pipeline /\ run'.pc = "idle"
  <1>1. Idle \in Pipeline /\ Idle.pc = "idle"
    BY DEF Idle, Pipeline, ProgramPoint, FlowState
  <1>2. CASE Return
    BY <1>1, <1>2 DEF Return
  <1>3. CASE ReturnReady
    <2>1. run' = [Idle EXCEPT !.plan = run.plan] /\ run.plan \in SUBSET RepoFiles
      BY <1>3 DEF ReturnReady, Pipeline
    <2> QED
      BY <1>1, <2>1 DEF Pipeline
  <1> QED
    BY <1>2, <1>3

(* The Architect's plan becomes a local of the pipeline.                   *)
LEMMA PlanFacts ==
    ASSUME NEW r \in Pipeline, NEW planned \in SUBSET RepoFiles
    PROVE  /\ [r EXCEPT !.plan = planned] \in Pipeline
           /\ [r EXCEPT !.pc = "a.planned", !.plan = planned] \in Pipeline
           /\ [r EXCEPT !.pc = "a.planned", !.plan = planned].pc = "a.planned"
  BY DEF Pipeline, ProgramPoint

(* So do the suite's answer and the state that was returned ...            *)
LEMMA SeenFacts ==
    ASSUME NEW r \in Pipeline, NEW ok \in BOOLEAN, NEW s \in FlowState
    PROVE  /\ [r EXCEPT !.pc = "a.tested", !.ok = ok, !.seen = s] \in Pipeline
           /\ [r EXCEPT !.pc = "a.tested", !.ok = ok, !.seen = s].pc = "a.tested"
           /\ [r EXCEPT !.pc = "a.tested", !.ok = ok, !.seen = s].ok = ok
           /\ [r EXCEPT !.pc = "a.tested", !.ok = ok, !.seen = s].seen = s
  BY DEF Pipeline, ProgramPoint

(* ... and the task that will be saved.                                    *)
LEMMA CopyFacts ==
    ASSUME NEW r \in Pipeline, NEW t \in FlowTask
    PROVE  /\ [r EXCEPT !.pc = "s.save", !.copy = t] \in Pipeline
           /\ [r EXCEPT !.pc = "s.save", !.copy = t].pc = "s.save"
           /\ [r EXCEPT !.pc = "s.save", !.copy = t].copy = t
  BY DEF Pipeline, ProgramPoint

(* A pipeline that starts has locals of the right types.                   *)
LEMMA IdleFacts ==
    /\ Idle \in Pipeline /\ Idle.pc = "idle" /\ Idle.ok = FALSE
  BY DEF Idle, Pipeline, ProgramPoint, FlowState

(* What is done to the worktree leaves one.                                *)
LEMMA TreeFacts ==
    ASSUME tree \in Worktree
    PROVE  /\ NewTree \in Worktree
           /\ NewTree.there = TRUE
           /\ \A files \in [RepoFiles -> FileStatus] :
                Edited(files) \in Worktree /\ (tree.there => Edited(files).there)
           /\ \A ok \in BOOLEAN : [tree EXCEPT !.tested = ok] \in Worktree
           /\ \A f \in RepoFiles :
                [tree EXCEPT !.files[f] = IF @ = "clean" THEN "new" ELSE @,
                             !.there = TRUE, !.tested = FALSE] \in Worktree
           /\ FilesInDiff \in SUBSET RepoFiles
  <1>1. tree.files \in [RepoFiles -> FileStatus] /\ tree.there \in BOOLEAN
        /\ tree.tested \in BOOLEAN /\ tree.git \in {"none", "linked", "stale"}
    BY DEF Worktree
  <1>2. NewTree \in Worktree /\ NewTree.there = TRUE
    BY <1>1, FlowConstants DEF NewTree, Worktree, FileStatus, Untouched
  <1>3. ASSUME NEW files \in [RepoFiles -> FileStatus]
        PROVE  Edited(files) \in Worktree /\ (tree.there => Edited(files).there)
    BY <1>1 DEF Worktree, Edited
  <1>4. ASSUME NEW ok \in BOOLEAN
        PROVE  [tree EXCEPT !.tested = ok] \in Worktree
    BY DEF Worktree
  <1>5. ASSUME NEW f \in RepoFiles
        PROVE  [tree EXCEPT !.files[f] = IF @ = "clean" THEN "new" ELSE @,
                            !.there = TRUE, !.tested = FALSE] \in Worktree
    <2> DEFINE F == [tree.files EXCEPT ![f] = IF @ = "clean" THEN "new" ELSE @]
    <2>1. F \in [RepoFiles -> FileStatus]
      BY <1>1 DEF FileStatus
    <2>2. [tree EXCEPT !.files[f] = IF @ = "clean" THEN "new" ELSE @,
                       !.there = TRUE, !.tested = FALSE]
            = [tree EXCEPT !.files = F, !.there = TRUE, !.tested = FALSE]
      BY DEF Worktree
    <2> HIDE DEF F
    <2> QED
      BY <1>1, <2>1, <2>2 DEF Worktree
  <1> QED
    BY <1>2, <1>3, <1>4, <1>5 DEF FilesInDiff

(* A step of a pipeline that leaves a sound task keeps the types.          *)
LEMMA PipelineTypes ==
    ASSUME FlowTypes, Sound(task'), stored' \in FlowTask \cup {NoTask},
           tree' \in Worktree, run' \in Pipeline,
           run'.pc = "a.rewind" => task'.qa_retries < MaxQaRetries,
           UNCHANGED flowEnv
    PROVE  FlowTypes'
  BY FlowConstants DEF FlowTypes, FlowTypeOK, Sound, flowEnv

(* Every step keeps the types; QA and the Auditor share their retries.     *)
LEMMA FlowTypesStep ==
    ASSUME FlowTypes, [FlowNext]_flowVars
    PROVE  FlowTypes'
  <1>0. /\ Running => Sound(task) /\ task \in FlowTask
        /\ stored \in FlowTask \cup {NoTask} /\ tree \in Worktree
        /\ run \in Pipeline /\ task \in FlowTask \cup {NoTask}
        /\ run.copy \in FlowTask \cup {NoTask}
    BY DEF FlowTypes, FlowTypeOK, Sound, Pipeline
  <1>1. ASSUME NEW ok \in BOOLEAN, NEW by \in {"agent", "script"}, Running,
               ~Bails(task)
        PROVE  Sound(Advanced(task, ok, by))
    BY <1>0, <1>1, AdvancedFacts DEF Sound
  <1>2. ASSUME Running PROVE Sound(Failed(task))
    BY <1>0, <1>2, FailedFacts DEF Sound
  <1>3. ASSUME Running PROVE Sound(Labelled(task))
    BY <1>0, <1>3, LabelledFacts DEF Sound
  <1>4. ASSUME Return \/ ReturnReady PROVE run' \in Pipeline /\ run'.pc = "idle"
    BY <1>0, <1>4, ReturnFacts
  <1>5. ASSUME NEW pc \in ProgramPoint, RunGoTo(pc)
        PROVE  run' \in Pipeline /\ run'.pc = pc
    BY <1>0, <1>5, MoveFacts DEF RunGoTo
  <1>6. \A pc \in ProgramPoint \ {"idle"} : RunAt(pc) => Running
    BY DEF RunAt, Running
  <1>7. ASSUME NEW ok \in BOOLEAN, NEW by \in {"agent", "script"}, Running,
               NEW pc \in ProgramPoint \ {"a.rewind"}, AdvanceTo(pc, ok, by)
        PROVE  Sound(task') /\ run' \in Pipeline /\ run'.pc # "a.rewind"
    <2>1. CASE Bails(task)
      BY <1>0, <1>4, <1>7, <2>1 DEF AdvanceTo
    <2>2. CASE ~Bails(task)
      BY <1>1, <1>5, <1>7, <2>2 DEF AdvanceTo
    <2> QED
      BY <2>1, <2>2
  <1>8. ASSUME Running, FailTask PROVE FlowTypes'
    BY <1>0, <1>2, <1>4, <1>8, PipelineTypes DEF FailTask
  <1>9. ASSUME NEW from \in ProgramPoint \ {"idle"}, NEW to \in ProgramPoint,
               to # "a.rewind", LabelTo(from, to)
        PROVE  FlowTypes'
    BY <1>0, <1>3, <1>5, <1>6, <1>9, PipelineTypes DEF LabelTo
  <1> HIDE DEF FlowTypes
  <1> USE DEF ProgramPoint
  <1>10. CASE SetBackend
    <2>1. task' = Backed(task) /\ Running
      BY <1>6, <1>10 DEF SetBackend, Backed
    <2>2. Sound(task')
      BY <1>0, <2>1, BackedFacts DEF Sound
    <2> QED
      BY <1>0, <1>5, <1>10, <2>2, PipelineTypes DEF SetBackend
  <1>11. CASE CreateWorktree
    BY <1>0, <1>5, <1>6, <1>11, TreeFacts, PipelineTypes DEF CreateWorktree
  <1>12. CASE PipelineError
    <2>1. Running
      BY <1>12 DEF PipelineError, RunAt, Running
    <2>2. tree' \in Worktree
      BY <1>0, <1>12, TreeFacts DEF PipelineError, CoderLeaves
    <2> QED
      BY <1>0, <1>4, <1>12, <2>1, <2>2, PipelineTypes DEF PipelineError
  <1>13. CASE ArchitectFails \/ CoderFails \/ AuditorFails \/ GiveUp
    <2>1. CASE CoderFails
      <3>1. Running /\ tree' \in Worktree
        BY <1>0, <1>6, <2>1, TreeFacts DEF CoderFails, CoderLeaves
      <3> QED
        BY <1>0, <1>2, <1>4, <2>1, <3>1, PipelineTypes DEF CoderFails
    <2> QED
      BY <1>6, <1>8, <1>13, <2>1 DEF ArchitectFails, AuditorFails, GiveUp
  <1>14. ASSUME NEW planned \in (SUBSET RepoFiles) \ {{}}, ArchitectPlans(planned)
         PROVE  FlowTypes'
    <2>1. Running
      BY <1>6, <1>14 DEF ArchitectPlans
    <2>2. CASE Bails(task)
      <3>1. run' \in Pipeline /\ run'.pc = "idle"
        BY <1>0, <1>14, <2>2, ReturnFacts DEF ArchitectPlans
      <3> QED
        BY <1>0, <1>14, <2>1, <2>2, <3>1, PipelineTypes DEF ArchitectPlans
    <2>3. CASE ~Bails(task)
      <3>1. run' \in Pipeline /\ run'.pc = "a.planned"
        BY <1>0, <1>14, <2>3, PlanFacts DEF ArchitectPlans
      <3> QED
        BY <1>0, <1>1, <1>14, <2>1, <2>3, <3>1, PipelineTypes DEF ArchitectPlans
    <2> QED
      BY <2>2, <2>3
  <1>15. CASE LabelPlan \/ LabelCode \/ LabelAudit
    BY <1>9, <1>15 DEF LabelPlan, LabelCode, LabelAudit
  <1>16. ASSUME NEW files \in [RepoFiles -> FileStatus], CoderWrites(files)
         PROVE  FlowTypes'
    <2>1. Running
      BY <1>6, <1>16 DEF CoderWrites
    <2>2. Sound(task') /\ run' \in Pipeline /\ run'.pc # "a.rewind"
      BY <1>7, <1>16, <2>1 DEF CoderWrites
    <2> QED
      BY <1>0, <1>16, <2>2, TreeFacts, PipelineTypes DEF CoderWrites
  <1>17. ASSUME NEW ok \in BOOLEAN, QaRuns(ok)
         PROVE  FlowTypes'
    <2>1. Running
      BY <1>6, <1>17 DEF QaRuns
    <2>2. Sound(task') /\ run' \in Pipeline /\ run'.pc # "a.rewind"
      <3>1. CASE Bails(task)
        BY <1>0, <1>4, <1>17, <2>1, <3>1 DEF QaRuns
      <3>2. CASE ~Bails(task)
        <4>1. Sound(Advanced(task, ok, "agent"))
          BY <1>1, <2>1, <3>2
        <4>2. Advanced(task, ok, "agent").state \in FlowState
          BY <4>1 DEF Sound, FlowTask
        <4>3. /\ task' = Advanced(task, ok, "agent")
              /\ run' = [run EXCEPT !.pc = "a.tested", !.ok = ok,
                                    !.seen = Advanced(task, ok, "agent").state]
          BY <1>17, <3>2 DEF QaRuns
        <4>4. run' \in Pipeline /\ run'.pc = "a.tested"
          BY <1>0, <4>2, <4>3 DEF Pipeline
        <4> QED
          BY <4>1, <4>3, <4>4
      <3> QED
        BY <3>1, <3>2
    <2>3. tree' \in Worktree
      BY <1>0, <1>17, TreeFacts DEF QaRuns
    <2> QED
      BY <1>0, <1>17, <2>2, <2>3, PipelineTypes DEF QaRuns
  <1>18. CASE LabelQa
    <2>1. Running
      BY <1>6, <1>18 DEF LabelQa
    <2>2. run' \in Pipeline /\ run'.pc # "a.rewind"
      BY <1>4, <1>5, <1>18 DEF LabelQa
    <2> QED
      BY <1>0, <1>3, <1>18, <2>1, <2>2, PipelineTypes DEF LabelQa
  <1>19. CASE AuditorApproves
    <2>1. Running
      BY <1>6, <1>19 DEF AuditorApproves
    <2>2. Sound(task') /\ run' \in Pipeline /\ run'.pc # "a.rewind"
      BY <1>7, <1>19, <2>1 DEF AuditorApproves
    <2> QED
      BY <1>0, <1>19, <2>2, PipelineTypes DEF AuditorApproves
  <1>20. CASE Attach
    <2>1. Running /\ task' = Shown(task, FilesInDiff) /\ stored' = task'
      BY <1>6, <1>20 DEF Attach, Shown
    <2>2. Sound(task') /\ task' \in FlowTask
      BY <1>0, <2>1, ShownFacts, TreeFacts DEF Sound
    <2> QED
      BY <1>0, <1>4, <1>20, <2>1, <2>2, PipelineTypes DEF Attach
  <1>21. ASSUME NEW findings \in BOOLEAN, AuditorRejects(findings)
         PROVE  FlowTypes'
    <2>1. Running /\ task' = task /\ stored' = stored /\ tree' = tree
          /\ UNCHANGED flowEnv
      BY <1>6, <1>21 DEF AuditorRejects
    <2>2. CASE RunGoTo("a.giveUp")
      BY <1>0, <1>5, <2>1, <2>2, PipelineTypes
    <2>3. CASE RunGoTo("a.rewind") /\ ~(task.qa_retries >= MaxQaRetries)
      <3>1. task.qa_retries < MaxQaRetries
        BY <1>0, <2>1, <2>3, FlowConstants DEF FlowTask
      <3> QED
        BY <1>0, <1>5, <2>1, <2>3, <3>1, PipelineTypes
    <2> QED
      BY <1>21, <2>2, <2>3 DEF AuditorRejects
  <1>22. CASE RewindToCoder
    <2>1. Running /\ task.qa_retries < MaxQaRetries
      BY <1>6, <1>22 DEF RewindToCoder, RunAt, FlowTypes
    <2>2. Sound(task')
      <3>1. task.qa_retries + 1 <= MaxQaRetries
        BY <1>0, <2>1, FlowConstants DEF FlowTask
      <3> QED
        BY <1>0, <1>22, <2>1, <3>1, RewoundFacts DEF Sound, RewindToCoder
    <2> QED
      BY <1>0, <1>5, <1>22, <2>2, PipelineTypes DEF RewindToCoder
  <1>23. CASE ScriptPlans
    <2>1. Running
      BY <1>6, <1>23 DEF ScriptPlans
    <2>2. Sound(task') /\ run' \in Pipeline /\ run'.pc # "a.rewind"
      BY <1>7, <1>23, <2>1 DEF ScriptPlans
    <2> QED
      BY <1>0, <1>23, <2>2, TreeFacts, PipelineTypes DEF ScriptPlans
  <1>24. ASSUME NEW f \in RepoFiles, ScriptWrites(f)
         PROVE  FlowTypes'
    <2>1. Running
      BY <1>6, <1>24 DEF ScriptWrites
    <2>2. Sound(task') /\ run' \in Pipeline /\ run'.pc # "a.rewind"
      BY <1>7, <1>24, <2>1 DEF ScriptWrites
    <2>3. tree' \in Worktree
      BY <1>0, <1>24, TreeFacts DEF ScriptWrites
    <2> QED
      BY <1>0, <1>24, <2>2, <2>3, PipelineTypes DEF ScriptWrites
  <1>25. ASSUME NEW ok \in BOOLEAN, ScriptTests(ok)
         PROVE  FlowTypes'
    <2>1. Running
      BY <1>6, <1>25 DEF ScriptTests
    <2>2. Sound(task') /\ run' \in Pipeline /\ run'.pc # "a.rewind"
      <3>1. CASE Bails(task)
        BY <1>0, <1>4, <1>25, <2>1, <3>1 DEF ScriptTests
      <3>2. CASE ~Bails(task)
        BY <1>1, <1>4, <1>5, <1>25, <2>1, <3>2 DEF ScriptTests
      <3> QED
        BY <3>1, <3>2
    <2>3. tree' \in Worktree
      BY <1>0, <1>25, TreeFacts DEF ScriptTests
    <2> QED
      BY <1>0, <1>25, <2>2, <2>3, PipelineTypes DEF ScriptTests
  <1>26. CASE ScriptAudits
    <2>1. Running
      BY <1>6, <1>26 DEF ScriptAudits
    <2>2. Sound(task') /\ run' \in Pipeline /\ run'.pc # "a.rewind"
      BY <1>7, <1>26, <2>1 DEF ScriptAudits
    <2> QED
      BY <1>0, <1>26, <2>2, PipelineTypes DEF ScriptAudits
  <1>27. CASE ScriptAttaches
    <2>1. Running /\ task' = Shown(task, FilesInDiff)
          /\ run' = [run EXCEPT !.pc = "s.save", !.copy = task']
      BY <1>6, <1>27 DEF ScriptAttaches, Shown
    <2>2. Sound(task') /\ task' \in FlowTask
      BY <1>0, <2>1, ShownFacts, TreeFacts DEF Sound
    <2>3. run' \in Pipeline /\ run'.pc = "s.save"
      BY <1>0, <2>1, <2>2, CopyFacts
    <2> QED
      BY <1>0, <1>27, <2>2, <2>3, PipelineTypes DEF ScriptAttaches
  <1>28. CASE ScriptSaves
    BY <1>0, <1>4, <1>6, <1>28, PipelineTypes DEF ScriptSaves
  <1>29. ASSUME NEW by \in {"agent", "script"}, StartTask(by),
                met' = {} \/ Meets("start"),
                run' \in Pipeline, run'.pc # "a.rewind" \/ run'.pc = run.pc
         PROVE  FlowTypes'
    <2>1. Sound(task') /\ task'.qa_retries = 0 /\ stored' \in FlowTask
      BY <1>29, FreshFacts, FlowConstants DEF StartTask, Sound
    <2>5. starts' \in 0..MaxStarts
      BY <1>29, FlowConstants DEF StartTask, FlowTypes, FlowTypeOK
    <2>6. met' \subseteq {"start", "answer", "removal"}
      BY <1>29 DEF Meets, FlowTypes, FlowTypeOK
    <2>2. starts' \in 0..MaxStarts /\ met' \subseteq {"start", "answer", "removal"}
      BY <2>5, <2>6
    <2>3. run'.pc = "a.rewind" => 0 < MaxQaRetries
      <3>1. run.pc = "a.rewind" =>
                task \in FlowTask /\ task.qa_retries < MaxQaRetries
        BY <1>0 DEF FlowTypes, Running
      <3> QED
        BY <1>29, <3>1, FlowConstants DEF FlowTask
    <2>4. /\ tree' = tree /\ decisions' = decisions /\ restarts' = restarts
          /\ removals' = removals /\ removals \in 0..MaxRemovals
          /\ decisions \in 0..MaxDecisions /\ restarts \in 0..MaxRestarts
      BY <1>29 DEF StartTask, FlowTypes, FlowTypeOK
    <2> QED
      BY <1>0, <1>29, <2>1, <2>2, <2>3, <2>4, FlowConstants
      DEF FlowTypes, FlowTypeOK, Sound
  <1>30. CASE StartAgentPipeline \/ StartScript
    <2>1. ASSUME NEW by \in {"agent", "script"},
                 NEW pc \in {"a.backend", "s.architect"}, StartPipeline(by, pc)
          PROVE  FlowTypes'
      <3>1. run' \in Pipeline /\ run'.pc = pc
        <4>1. run' = [Idle EXCEPT !.pc = pc] /\ pc \in ProgramPoint
          BY <2>1 DEF StartPipeline
        <4> QED
          BY <4>1, IdleFacts DEF Pipeline
      <3> QED
        BY <1>29, <2>1, <3>1 DEF StartPipeline
    <2> QED
      BY <1>30, <2>1 DEF StartAgentPipeline, StartScript
  <1>31. CASE StartAlone
    BY <1>0, <1>29, <1>31 DEF StartAlone
  <1>32. ASSUME NEW decision \in BOOLEAN, ApproveTask(decision)
         PROVE  FlowTypes'
    <2>1. task \in FlowTask /\ Sound(task) /\ task' = Answered(task, decision)
      BY <1>0, <1>32 DEF ApproveTask, Answered, FlowTypes
    <2>2. Sound(task') /\ task'.qa_retries = task.qa_retries
      BY <2>1, AnsweredFacts DEF Sound
    <2>3. decisions' \in 0..MaxDecisions /\ met' \subseteq {"start", "answer", "removal"}
      BY <1>32, FlowConstants DEF ApproveTask, Meets, FlowTypes, FlowTypeOK
    <2>4. /\ run' = run /\ tree' = tree /\ stored' = stored
          /\ starts' = starts /\ restarts' = restarts /\ removals' = removals
      BY <1>32 DEF ApproveTask
    <2> QED
      BY <1>0, <2>2, <2>3, <2>4, FlowConstants DEF FlowTypes, FlowTypeOK, Sound
  <1>33. CASE Restart
    <2>1. run' \in Pipeline /\ run'.pc = "idle" /\ task' = NoTask
      BY <1>4, <1>33 DEF Restart
    <2>2. restarts' \in 0..MaxRestarts
      BY <1>33, FlowConstants DEF Restart, FlowTypes, FlowTypeOK
    <2> QED
      BY <1>33, <2>1, <2>2 DEF Restart, FlowTypes, FlowTypeOK, Running
  <1>37. ASSUME NEW prunes \in BOOLEAN, RemoveWorktree(prunes)
         PROVE  FlowTypes'
    <2>1. tree' \in Worktree
      BY <1>0, <1>37 DEF RemoveWorktree, Worktree, Untouched, FileStatus
    <2>2. removals' \in 0..MaxRemovals /\ met' \subseteq {"start", "answer", "removal"}
      BY <1>37, FlowConstants DEF RemoveWorktree, FlowTypes, FlowTypeOK
    <2> QED
      BY <1>37, <2>1, <2>2
      DEF RemoveWorktree, FlowTypes, FlowTypeOK, Sound, Running
  <1>34. CASE UNCHANGED flowVars
    BY <1>34 DEF flowVars, FlowTypes, FlowTypeOK, Sound, Running
  <1>35. CASE PipelineStep
    BY <1>10, <1>11, <1>12, <1>13, <1>14, <1>15, <1>16, <1>17, <1>18, <1>19,
       <1>20, <1>21, <1>22, <1>23, <1>24, <1>25, <1>26, <1>27, <1>28, <1>35
    DEF PipelineStep
  <1>36. CASE Request
    BY <1>30, <1>31, <1>32, <1>33, <1>36, <1>37 DEF Request
  <1> QED
    BY <1>34, <1>35, <1>36 DEF FlowNext

-----------------------------------------------------------------------------
(* Where a task stands while a pipeline works on it and nobody resets it:  *)
(* in the phase of the pipeline's program point, or answered.              *)

PhaseAt(pc, ok) ==
    CASE pc \in {"a.backend", "a.worktree", "a.architect", "s.architect"} ->
            "Planning"
      [] pc \in {"a.planned", "a.coder", "s.coder"} -> "Implementing"
      [] pc \in {"a.coded", "a.qa", "s.qa"} -> "Testing"
      [] pc = "a.tested" -> IF ok THEN "Reviewing" ELSE "Implementing"
      [] pc \in {"a.auditor", "a.giveUp", "a.rewind", "s.auditor"} -> "Reviewing"
      [] OTHER -> "ReadyForApproval"

Scripted == {"s.architect", "s.coder", "s.qa", "s.auditor", "s.attach", "s.save"}
BeforeTree == {"a.backend", "a.worktree", "s.architect", "s.coder"}
Green == {"a.auditor", "a.audited", "a.attach", "s.auditor", "s.attach", "s.save"}

(* What is known of the worktree w at a program point.                     *)
TreeAt(p, w) ==
    /\ p.pc \notin BeforeTree => w.there
    /\ p.pc \in Green \/ (p.pc = "a.tested" /\ p.ok) => w.tested

(* And of the task t, and at the end of the script of the copy to save,    *)
(* over a worktree with the diff D.                                        *)
TaskAt(p, t, D) ==
    /\ t.state \in {PhaseAt(p.pc, p.ok), "Merged", "Failed"}
    /\ p.pc \in Scripted => t.backend = "Simulated"
    /\ p.pc = "s.save" =>
        /\ t.diff = {D}
        /\ p.copy # NoTask /\ p.copy.diff = {D} /\ p.copy.backend = "Simulated"

(* A task that waits for approval over the worktree w.                     *)
AuditedOver(t, w, D) ==
    t # NoTask /\ t.state = "ReadyForApproval" => w.there /\ w.tested /\ t.diff = {D}

AuditInv ==
    met \subseteq {"answer"} =>
        /\ Running =>
            /\ stored # NoTask /\ stored.state = "Planning"
            /\ TreeAt(run, tree)
            /\ TaskAt(run, task, FilesInDiff)
        /\ ~Running =>
            /\ AuditedOver(task, tree, FilesInDiff)
            /\ AuditedOver(stored, tree, FilesInDiff)

(* A pipeline that goes on.                                                *)
LEMMA GoesOn ==
    ASSUME AuditInv, Running, met' = met, stored' = stored, Running',
           met \subseteq {"answer"} => TreeAt(run', tree')
                                 /\ TaskAt(run', task', FilesInDiff')
    PROVE  AuditInv'
  BY DEF AuditInv

(* A pipeline that returns without a task ready for approval.              *)
LEMMA ReturnsUnready ==
    ASSUME AuditInv, Running, met' = met, stored' = stored, ~Running',
           met \subseteq {"answer"} => task'.state # "ReadyForApproval"
    PROVE  AuditInv'
  <1>1. met \subseteq {"answer"} => stored.state = "Planning"
    BY DEF AuditInv
  <1> QED
    BY <1>1 DEF AuditInv, AuditedOver

(* advance, from a program point where the task is not ready.              *)
LEMMA AdvanceAudit ==
    ASSUME FlowTypes, AuditInv, Running, NEW ok \in BOOLEAN,
           NEW by \in {"agent", "script"}, ~Bails(task), met \subseteq {"answer"}
    PROVE  /\ Advanced(task, ok, by).state \in After(task, ok)
           /\ task.state = PhaseAt(run.pc, run.ok)
           /\ Advanced(task, ok, by).backend = task.backend
           /\ Advanced(task, ok, by).diff = task.diff
  <1>1. Sound(task)
    BY DEF FlowTypes, FlowTypeOK
  <1>2. task.state \in {PhaseAt(run.pc, run.ok), "Merged", "Failed"}
    BY DEF AuditInv, TaskAt
  <1> QED
    BY <1>1, <1>2, AdvancedFacts DEF Sound, Bails

(* A phase that is advanced, or that the developer's answer has cut short. *)
LEMMA AdvanceToAudit ==
    ASSUME FlowTypes, AuditInv, NEW by \in {"agent", "script"},
           NEW to \in ProgramPoint \ {"idle", "a.tested", "s.save"},
           Running, AdvanceTo(to, TRUE, by), met' = met, stored' = stored,
           PhaseAt(run.pc, run.ok) # "ReadyForApproval",
           \A t : t.state = PhaseAt(run.pc, run.ok) =>
                    After(t, TRUE) = {PhaseAt(to, run.ok)},
           to \in Scripted => run.pc \in Scripted,
           met \subseteq {"answer"} /\ RunGoTo(to) => TreeAt(run', tree')
    PROVE  AuditInv'
  <1>0. run \in Pipeline
    BY DEF FlowTypes, FlowTypeOK
  <1>1. CASE Bails(task)
    <2>1. run'.pc = "idle" /\ task' = task
      BY <1>0, <1>1, ReturnFacts DEF AdvanceTo
    <2>2. met \subseteq {"answer"} => task.state # "ReadyForApproval"
      BY DEF AuditInv, TaskAt
    <2> QED
      BY <2>1, <2>2, ReturnsUnready DEF Running
  <1>2. CASE ~Bails(task)
    <2>1. task' = Advanced(task, TRUE, by) /\ RunGoTo(to)
      BY <1>2 DEF AdvanceTo
    <2>2. run'.pc = to /\ run'.ok = run.ok
      BY <1>0, <2>1, MoveFacts DEF RunGoTo
    <2>3. ASSUME met \subseteq {"answer"} PROVE TaskAt(run', task', FilesInDiff')
      <3>1. /\ task'.state \in After(task, TRUE)
            /\ task.state = PhaseAt(run.pc, run.ok)
            /\ task'.backend = task.backend
        BY <1>2, <2>1, <2>3, AdvanceAudit, Zenon
      <3>2. task'.state = PhaseAt(to, run.ok)
        BY <3>1
      <3>3. run.pc \in Scripted => task.backend = "Simulated"
        BY <2>3 DEF AuditInv, TaskAt
      <3> QED
        BY <2>2, <3>1, <3>2, <3>3 DEF TaskAt
    <2> QED
      BY <2>1, <2>2, <2>3, GoesOn DEF Running
  <1> QED
    BY <1>1, <1>2

(* fail_task returns with a task that has failed.                          *)
LEMMA FailAudit ==
    ASSUME FlowTypes, AuditInv, Running, FailTask
    PROVE  AuditInv'
  <1>1. run \in Pipeline /\ task \in FlowTask
    BY DEF FlowTypes, FlowTypeOK
  <1>2. run'.pc = "idle" /\ task'.state = "Failed"
    BY <1>1, ReturnFacts, FailedFacts DEF FailTask
  <1> QED
    BY <1>2, ReturnsUnready DEF FailTask, Running, flowEnv

(* mark_last_real changes a label only.                                    *)
LEMMA LabelAudited ==
    ASSUME FlowTypes, AuditInv, NEW from \in ProgramPoint \ {"idle"},
           NEW to \in ProgramPoint \ {"idle", "a.tested", "s.save"}, LabelTo(from, to),
           PhaseAt(from, run.ok) = PhaseAt(to, run.ok), to \notin Scripted,
           from \notin BeforeTree, to \in Green => from \in Green
    PROVE  AuditInv'
  <1>0. run \in Pipeline /\ run.pc = from /\ Running /\ task \in FlowTask
    BY DEF FlowTypes, FlowTypeOK, LabelTo, RunAt, Running
  <1>1. run'.pc = to /\ run'.ok = run.ok /\ run'.plan = run.plan
    BY <1>0, MoveFacts DEF LabelTo, RunGoTo
  <1>2. /\ task'.state = task.state /\ tree' = tree /\ met' = met
        /\ stored' = stored /\ FilesInDiff' = FilesInDiff
    BY <1>0, LabelledFacts DEF LabelTo, flowEnv, FilesInDiff
  <1>3. ASSUME met \subseteq {"answer"}
        PROVE  TreeAt(run', tree') /\ TaskAt(run', task', FilesInDiff')
    <2>1. TreeAt(run, tree) /\ TaskAt(run, task, FilesInDiff)
      BY <1>0, <1>3 DEF AuditInv
    <2> QED
      BY <1>0, <1>1, <1>2, <2>1 DEF TreeAt, TaskAt
  <1> QED
    BY <1>0, <1>1, <1>2, <1>3, GoesOn DEF Running

(* Every step keeps it: no path leads to a task that is ready for approval *)
(* but over a green worktree and through the Auditor or the script.        *)
LEMMA AuditStep ==
    ASSUME FlowTypes, AuditInv, [FlowNext]_flowVars
    PROVE  AuditInv'
  <1>0. /\ Running => task \in FlowTask /\ task # NoTask
        /\ tree \in Worktree /\ run \in Pipeline
        /\ task \in FlowTask \cup {NoTask}
    BY FlowConstants DEF FlowTypes, FlowTypeOK
  <1>1. ASSUME Return \/ ReturnReady PROVE run'.pc = "idle"
    BY <1>0, <1>1, ReturnFacts
  <1>2. ASSUME NEW pc \in ProgramPoint, RunGoTo(pc)
        PROVE  /\ run'.pc = pc /\ run'.plan = run.plan /\ run'.ok = run.ok
               /\ run'.copy = run.copy
    BY <1>0, <1>2, MoveFacts DEF RunGoTo
  <1>3. \A pc \in ProgramPoint \ {"idle"} : RunAt(pc) => Running
    BY DEF RunAt, Running
  <1>4. ASSUME Running, met \subseteq {"answer"}
        PROVE  TreeAt(run, tree) /\ TaskAt(run, task, FilesInDiff)
    BY <1>4 DEF AuditInv
  <1> USE DEF ProgramPoint
  <1>10. CASE SetBackend
    <2>1. /\ task' = Backed(task) /\ Running /\ run.pc = "a.backend"
          /\ RunGoTo("a.worktree") /\ UNCHANGED <<stored, tree, met>>
      BY <1>3, <1>10 DEF SetBackend, Backed, RunAt, flowEnv
    <2>2. task'.state = task.state /\ run'.pc = "a.worktree"
      BY <1>0, <1>2, <2>1, BackedFacts
    <2>3. met \subseteq {"answer"} => TreeAt(run', tree')
                                /\ TaskAt(run', task', FilesInDiff')
      BY <1>4, <2>1, <2>2
      DEF TreeAt, TaskAt, PhaseAt, Scripted, BeforeTree, Green
    <2> QED
      BY <2>1, <2>2, <2>3, GoesOn DEF Running
  <1>11. CASE CreateWorktree
    <2>1. /\ task' = task /\ Running /\ run.pc = "a.worktree"
          /\ RunGoTo("a.architect") /\ UNCHANGED <<stored, met>> /\ tree' = NewTree
      BY <1>3, <1>11 DEF CreateWorktree, RunAt, flowEnv
    <2>2. run'.pc = "a.architect" /\ tree'.there
      BY <1>0, <1>2, <2>1, TreeFacts
    <2>3. met \subseteq {"answer"} => TreeAt(run', tree')
                                /\ TaskAt(run', task', FilesInDiff')
      BY <1>4, <2>1, <2>2
      DEF TreeAt, TaskAt, PhaseAt, Scripted, BeforeTree, Green
    <2> QED
      BY <2>1, <2>2, <2>3, GoesOn DEF Running
  <1>12. CASE PipelineError
    <2>1. /\ run.pc \in {"a.worktree", "a.architect", "a.coder", "a.auditor"}
          /\ Running /\ UNCHANGED <<task, stored, met>> /\ run'.pc = "idle"
      BY <1>1, <1>12 DEF PipelineError, RunAt, Running, flowEnv
    <2>2. met \subseteq {"answer"} => task.state # "ReadyForApproval"
      BY <1>4, <2>1 DEF TaskAt, PhaseAt
    <2> QED
      BY <2>1, <2>2, ReturnsUnready DEF Running
  <1>13. CASE ArchitectFails \/ CoderFails \/ AuditorFails \/ GiveUp
    <2>1. CASE CoderFails
      <3>1. /\ Running /\ UNCHANGED <<stored, met>>
            /\ run'.pc = "idle" /\ task'.state = "Failed"
        BY <1>0, <1>1, <1>3, <2>1, FailedFacts DEF CoderFails, flowEnv
      <3> QED
        BY <3>1, ReturnsUnready DEF Running
    <2> QED
      BY <1>3, <1>13, <2>1, FailAudit DEF ArchitectFails, AuditorFails, GiveUp
  <1>14. ASSUME NEW planned \in (SUBSET RepoFiles) \ {{}}, ArchitectPlans(planned)
         PROVE  AuditInv'
    <2>1. /\ Running /\ run.pc = "a.architect"
          /\ UNCHANGED <<stored, tree, met>> /\ FilesInDiff' = FilesInDiff
      BY <1>3, <1>14 DEF ArchitectPlans, RunAt, flowEnv, FilesInDiff
    <2>2. CASE Bails(task)
      <3>1. task' = task /\ run'.pc = "idle"
        BY <1>0, <1>14, <2>2, ReturnFacts DEF ArchitectPlans
      <3>2. met \subseteq {"answer"} => task.state # "ReadyForApproval"
        BY <1>4, <2>1 DEF TaskAt, PhaseAt
      <3> QED
        BY <2>1, <3>1, <3>2, ReturnsUnready DEF Running
    <2>3. CASE ~Bails(task)
      <3>1. /\ task' = Advanced(task, TRUE, "agent") /\ run'.pc = "a.planned"
        BY <1>0, <1>14, <2>3, PlanFacts DEF ArchitectPlans
      <3>2. ASSUME met \subseteq {"answer"}
            PROVE  TreeAt(run', tree')
                   /\ TaskAt(run', task', FilesInDiff')
        <4>1. /\ task'.state \in After(task, TRUE)
              /\ task.state = PhaseAt(run.pc, run.ok)
          BY <2>1, <2>3, <3>1, <3>2, AdvanceAudit, Zenon
        <4>2. task'.state = "Implementing"
          BY <2>1, <4>1 DEF PhaseAt, After
        <4> QED
          BY <1>4, <2>1, <3>1, <3>2, <4>2
          DEF TreeAt, TaskAt, PhaseAt, Scripted, BeforeTree, Green
      <3> QED
        BY <2>1, <3>1, <3>2, GoesOn DEF Running
    <2> QED
      BY <2>2, <2>3
  <1>15. CASE LabelPlan \/ LabelCode \/ LabelAudit
    BY <1>15, LabelAudited
    DEF LabelPlan, LabelCode, LabelAudit, PhaseAt, Scripted, BeforeTree, Green
  <1>16. ASSUME NEW files \in [RepoFiles -> FileStatus], CoderWrites(files)
         PROVE  AuditInv'
    <2>1. /\ Running /\ run.pc = "a.coder" /\ UNCHANGED <<stored, met>>
          /\ AdvanceTo("a.coded", TRUE, "agent") /\ (tree.there => tree'.there)
      BY <1>0, <1>3, <1>16, TreeFacts DEF CoderWrites, RunAt, flowEnv
    <2>2. met \subseteq {"answer"} /\ RunGoTo("a.coded") => TreeAt(run', tree')
      BY <1>2, <1>4, <2>1 DEF TreeAt, BeforeTree, Green
    <2>3. /\ PhaseAt(run.pc, run.ok) = "Implementing"
          /\ PhaseAt("a.coded", run.ok) = "Testing"
      BY <2>1 DEF PhaseAt
    <2> QED
      BY <2>1, <2>2, <2>3, AdvanceToAudit DEF Scripted, After
  <1>17. ASSUME NEW ok \in BOOLEAN, QaRuns(ok)
         PROVE  AuditInv'
    <2>1. /\ Running /\ run.pc = "a.qa" /\ UNCHANGED <<stored, met>>
          /\ tree'.there = tree.there /\ tree'.tested = ok
      BY <1>0, <1>3, <1>17 DEF QaRuns, RunAt, flowEnv, Worktree
    <2>2. CASE Bails(task)
      <3>1. task' = task /\ run'.pc = "idle"
        BY <1>1, <1>17, <2>2 DEF QaRuns
      <3>2. met \subseteq {"answer"} => task.state # "ReadyForApproval"
        BY <1>4, <2>1 DEF TaskAt, PhaseAt
      <3> QED
        BY <2>1, <3>1, <3>2, ReturnsUnready DEF Running
    <2>3. CASE ~Bails(task)
      <3>1. /\ task' = Advanced(task, ok, "agent")
            /\ run'.pc = "a.tested" /\ run'.ok = ok
        BY <1>0, <1>17, <2>3 DEF QaRuns, Pipeline
      <3>2. ASSUME met \subseteq {"answer"}
            PROVE  TreeAt(run', tree')
                   /\ TaskAt(run', task', FilesInDiff')
        <4>1. /\ task'.state \in After(task, ok)
              /\ task.state = PhaseAt(run.pc, run.ok)
          BY <2>1, <2>3, <3>1, <3>2, AdvanceAudit, Zenon
        <4>2. task'.state \in {PhaseAt("a.tested", ok), "Failed"}
          BY <2>1, <4>1 DEF PhaseAt, After
        <4> QED
          BY <1>4, <2>1, <3>1, <3>2, <4>2
          DEF TreeAt, TaskAt, Scripted, BeforeTree, Green
      <3> QED
        BY <2>1, <3>1, <3>2, GoesOn DEF Running
    <2> QED
      BY <2>2, <2>3
  <1>18. CASE LabelQa
    <2>1. /\ Running /\ run.pc = "a.tested" /\ UNCHANGED <<stored, tree, met>>
          /\ task'.state = task.state /\ FilesInDiff' = FilesInDiff
      BY <1>0, <1>3, <1>18, LabelledFacts DEF LabelQa, RunAt, flowEnv, FilesInDiff
    <2>2. CASE run.ok /\ RunGoTo("a.auditor")
      <3>1. run'.pc = "a.auditor"
        BY <1>2, <2>2
      <3>2. met \subseteq {"answer"} => TreeAt(run', tree')
                                  /\ TaskAt(run', task', FilesInDiff')
        BY <1>4, <2>1, <2>2, <3>1
        DEF TreeAt, TaskAt, PhaseAt, Scripted, BeforeTree, Green
      <3> QED
        BY <2>1, <3>1, <3>2, GoesOn DEF Running
    <2>3. CASE ~run.ok /\ Return
      <3>1. run'.pc = "idle"
        BY <1>1, <2>3
      <3>2. met \subseteq {"answer"} => task'.state # "ReadyForApproval"
        BY <1>4, <2>1, <2>3 DEF TaskAt, PhaseAt
      <3> QED
        BY <2>1, <3>1, <3>2, ReturnsUnready DEF Running
    <2>4. CASE ~run.ok /\ RunGoTo("a.coder")
      <3>1. run'.pc = "a.coder"
        BY <1>2, <2>4
      <3>2. met \subseteq {"answer"} => TreeAt(run', tree')
                                  /\ TaskAt(run', task', FilesInDiff')
        BY <1>4, <2>1, <2>4, <3>1
        DEF TreeAt, TaskAt, PhaseAt, Scripted, BeforeTree, Green
      <3> QED
        BY <2>1, <3>1, <3>2, GoesOn DEF Running
    <2> QED
      BY <1>18, <2>2, <2>3, <2>4 DEF LabelQa
  <1>19. CASE AuditorApproves
    <2>1. /\ Running /\ run.pc = "a.auditor" /\ UNCHANGED <<stored, tree, met>>
          /\ AdvanceTo("a.audited", TRUE, "agent")
          /\ FilesInDiff' = FilesInDiff
      BY <1>3, <1>19 DEF AuditorApproves, RunAt, flowEnv, FilesInDiff
    <2>2. met \subseteq {"answer"} /\ RunGoTo("a.audited") =>
            TreeAt(run', tree')
      BY <1>2, <1>4, <2>1 DEF TreeAt, BeforeTree, Green
    <2>3. /\ PhaseAt(run.pc, run.ok) = "Reviewing"
          /\ PhaseAt("a.audited", run.ok) = "ReadyForApproval"
      BY <2>1 DEF PhaseAt
    <2> QED
      BY <2>1, <2>2, <2>3, AdvanceToAudit DEF Scripted, After
  <1>20. CASE Attach
    <2>1. /\ Running /\ run.pc = "a.attach" /\ UNCHANGED <<tree, met>>
          /\ task' = Shown(task, FilesInDiff) /\ stored' = task'
          /\ FilesInDiff' = FilesInDiff
      BY <1>3, <1>20 DEF Attach, Shown, RunAt, flowEnv, FilesInDiff
    <2>2. run'.pc = "idle"
      BY <1>1, <1>20 DEF Attach
    <2>3. task'.diff = {FilesInDiff}
      BY <1>0, <2>1, ShownFacts, TreeFacts
    <2>4. ASSUME met \subseteq {"answer"}
          PROVE  AuditedOver(task', tree', FilesInDiff')
      <3>1. TreeAt(run, tree)
        BY <1>4, <2>1, <2>4
      <3> QED
        BY <2>1, <2>2, <2>3, <3>1 DEF AuditedOver, TreeAt, BeforeTree, Green
    <2> QED
      BY <2>1, <2>2, <2>4 DEF AuditInv, Running
  <1>21. ASSUME NEW findings \in BOOLEAN, AuditorRejects(findings)
         PROVE  AuditInv'
    <2>1. /\ Running /\ run.pc = "a.auditor"
          /\ UNCHANGED <<task, stored, tree, met>>
          /\ RunGoTo("a.giveUp") \/ RunGoTo("a.rewind")
      BY <1>3, <1>21 DEF AuditorRejects, RunAt, flowEnv
    <2>2. run'.pc \in {"a.giveUp", "a.rewind"}
      BY <1>2, <2>1
    <2>3. met \subseteq {"answer"} => TreeAt(run', tree')
                                /\ TaskAt(run', task', FilesInDiff')
      BY <1>4, <2>1, <2>2
      DEF TreeAt, TaskAt, PhaseAt, Scripted, BeforeTree, Green
    <2> QED
      BY <2>1, <2>2, <2>3, GoesOn DEF Running
  <1>22. CASE RewindToCoder
    <2>1. /\ Running /\ run.pc = "a.rewind" /\ UNCHANGED <<stored, tree, met>>
          /\ task' = Rewound(task) /\ RunGoTo("a.coder")
      BY <1>3, <1>22 DEF RewindToCoder, RunAt, flowEnv
    <2>2. run'.pc = "a.coder" /\ task'.state = "Implementing"
      BY <1>0, <1>2, <2>1, RewoundFacts
    <2>3. met \subseteq {"answer"} => TreeAt(run', tree')
                                /\ TaskAt(run', task', FilesInDiff')
      BY <1>4, <2>1, <2>2
      DEF TreeAt, TaskAt, PhaseAt, Scripted, BeforeTree, Green
    <2> QED
      BY <2>1, <2>2, <2>3, GoesOn DEF Running
  <1>23. CASE ScriptPlans
    <2>1. /\ Running /\ run.pc = "s.architect" /\ UNCHANGED <<stored, met>>
          /\ AdvanceTo("s.coder", TRUE, "script")
      BY <1>0, <1>3, <1>23 DEF ScriptPlans, RunAt, flowEnv
    <2>2. met \subseteq {"answer"} /\ RunGoTo("s.coder") => TreeAt(run', tree')
      BY <1>2, <2>1 DEF TreeAt, BeforeTree, Green
    <2>3. /\ PhaseAt(run.pc, run.ok) = "Planning"
          /\ PhaseAt("s.coder", run.ok) = "Implementing"
      BY <2>1 DEF PhaseAt
    <2> QED
      BY <2>1, <2>2, <2>3, AdvanceToAudit DEF Scripted, After
  <1>24. ASSUME NEW f \in RepoFiles, ScriptWrites(f)
         PROVE  AuditInv'
    <2>1. /\ Running /\ run.pc = "s.coder" /\ UNCHANGED <<stored, met>>
          /\ AdvanceTo("s.qa", TRUE, "script") /\ tree'.there
      BY <1>0, <1>3, <1>24 DEF ScriptWrites, RunAt, flowEnv, Worktree
    <2>2. met \subseteq {"answer"} /\ RunGoTo("s.qa") => TreeAt(run', tree')
      BY <1>2, <1>4, <2>1 DEF TreeAt, BeforeTree, Green
    <2>3. /\ PhaseAt(run.pc, run.ok) = "Implementing"
          /\ PhaseAt("s.qa", run.ok) = "Testing"
      BY <2>1 DEF PhaseAt
    <2> QED
      BY <2>1, <2>2, <2>3, AdvanceToAudit DEF Scripted, After
  <1>25. ASSUME NEW ok \in BOOLEAN, ScriptTests(ok)
         PROVE  AuditInv'
    <2>1. /\ Running /\ run.pc = "s.qa" /\ UNCHANGED <<stored, met>>
          /\ tree'.there = tree.there /\ tree'.tested = ok
      BY <1>0, <1>3, <1>25 DEF ScriptTests, RunAt, flowEnv, Worktree
    <2>2. CASE Bails(task)
      <3>1. task' = task /\ run'.pc = "idle"
        BY <1>1, <1>25, <2>2 DEF ScriptTests
      <3>2. met \subseteq {"answer"} => task.state # "ReadyForApproval"
        BY <1>4, <2>1 DEF TaskAt, PhaseAt
      <3> QED
        BY <2>1, <3>1, <3>2, ReturnsUnready DEF Running
    <2>3. CASE ~Bails(task)
      <3>1. task' = Advanced(task, ok, "script")
        BY <1>25, <2>3 DEF ScriptTests
      <3>2. ASSUME met \subseteq {"answer"}
            PROVE  /\ task'.state \in After(task, ok)
                   /\ task.state = "Testing"
                   /\ task'.backend = "Simulated"
        <4>1. /\ task'.state \in After(task, ok)
              /\ task.state = PhaseAt(run.pc, run.ok)
              /\ task'.backend = task.backend
          BY <2>1, <2>3, <3>1, <3>2, AdvanceAudit, Zenon
        <4> QED
          BY <1>4, <2>1, <3>2, <4>1 DEF TaskAt, PhaseAt, Scripted
      <3>3. CASE ok
        <4>1. run'.pc = "s.auditor"
          BY <1>2, <1>25, <2>3, <3>3 DEF ScriptTests
        <4>2. met \subseteq {"answer"} => TreeAt(run', tree')
                                    /\ TaskAt(run', task', FilesInDiff')
          BY <1>4, <2>1, <3>2, <3>3, <4>1
          DEF TreeAt, TaskAt, PhaseAt, After, Scripted, BeforeTree, Green
        <4> QED
          BY <2>1, <4>1, <4>2, GoesOn DEF Running
      <3>4. CASE ~ok
        <4>1. run'.pc = "idle"
          BY <1>1, <1>25, <2>3, <3>4 DEF ScriptTests
        <4>2. met \subseteq {"answer"} => task'.state # "ReadyForApproval"
          BY <3>2, <3>4 DEF After
        <4> QED
          BY <2>1, <4>1, <4>2, ReturnsUnready DEF Running
      <3> QED
        BY <3>3, <3>4
    <2> QED
      BY <2>2, <2>3
  <1>26. CASE ScriptAudits
    <2>1. /\ Running /\ run.pc = "s.auditor" /\ UNCHANGED <<stored, tree, met>>
          /\ AdvanceTo("s.attach", TRUE, "script")
      BY <1>3, <1>26 DEF ScriptAudits, RunAt, flowEnv
    <2>2. met \subseteq {"answer"} /\ RunGoTo("s.attach") =>
            TreeAt(run', tree')
      BY <1>2, <1>4, <2>1 DEF TreeAt, BeforeTree, Green
    <2>3. /\ PhaseAt(run.pc, run.ok) = "Reviewing"
          /\ PhaseAt("s.attach", run.ok) = "ReadyForApproval"
      BY <2>1 DEF PhaseAt
    <2> QED
      BY <2>1, <2>2, <2>3, AdvanceToAudit DEF Scripted, After
  <1>27. CASE ScriptAttaches
    <2>1. /\ Running /\ run.pc = "s.attach" /\ UNCHANGED <<stored, tree, met>>
          /\ task' = Shown(task, FilesInDiff) /\ FilesInDiff' = FilesInDiff
          /\ run' = [run EXCEPT !.pc = "s.save", !.copy = task']
      BY <1>3, <1>27 DEF ScriptAttaches, Shown, RunAt, flowEnv, FilesInDiff
    <2>2. /\ task' \in FlowTask /\ task'.diff = {FilesInDiff}
          /\ task'.state = task.state /\ task'.backend = task.backend
      BY <1>0, <2>1, ShownFacts, TreeFacts
    <2>3. run'.pc = "s.save" /\ run'.copy = task'
      BY <1>0, <2>1 DEF Pipeline
    <2>4. met \subseteq {"answer"} => TreeAt(run', tree')
                                /\ TaskAt(run', task', FilesInDiff')
      BY <1>4, <2>1, <2>2, <2>3, FlowConstants
      DEF TreeAt, TaskAt, PhaseAt, Scripted, BeforeTree, Green
    <2> QED
      BY <2>1, <2>3, <2>4, GoesOn DEF Running
  <1>28. CASE ScriptSaves
    <2>1. /\ Running /\ run.pc = "s.save" /\ UNCHANGED <<task, tree, met>>
          /\ stored' = run.copy /\ FilesInDiff' = FilesInDiff /\ Return
      BY <1>3, <1>28 DEF ScriptSaves, RunAt, flowEnv, FilesInDiff
    <2>2. run'.pc = "idle"
      BY <1>1, <2>1
    <2>3. ASSUME met \subseteq {"answer"}
          PROVE  /\ AuditedOver(task', tree', FilesInDiff')
                 /\ AuditedOver(stored', tree', FilesInDiff')
      BY <1>4, <2>1, <2>3
      DEF AuditedOver, TreeAt, TaskAt, Scripted, BeforeTree, Green
    <2> QED
      BY <2>1, <2>2, <2>3 DEF AuditInv, Running
  <1>29. CASE StartAgentPipeline \/ StartScript
    <2>1. ASSUME NEW by \in {"agent", "script"},
                 NEW pc \in {"a.backend", "s.architect"}, StartPipeline(by, pc)
          PROVE  AuditInv'
      <3>1. run'.pc = pc
        BY <2>1, IdleFacts DEF StartPipeline, Pipeline
      <3>2. /\ task'.state = "Planning" /\ task'.backend = "Simulated"
            /\ stored'.state = "Planning" /\ stored' # NoTask
        BY <2>1, FreshFacts, FlowConstants DEF StartPipeline, StartTask
      <3>3. TreeAt(run', tree') /\ TaskAt(run', task', FilesInDiff')
        BY <3>1, <3>2 DEF TreeAt, TaskAt, PhaseAt, Scripted, BeforeTree, Green
      <3> QED
        BY <3>1, <3>2, <3>3 DEF AuditInv, Running
    <2> QED
      BY <1>29, <2>1 DEF StartAgentPipeline, StartScript
  <1>30. CASE StartAlone
    <2>1. /\ task' = FreshTask("script") /\ stored' = FreshTask("script")
          /\ run' = run /\ met' = IF Running THEN met \cup {"start"} ELSE met
      BY <1>30 DEF StartAlone, StartTask, Meets
    <2>2. task'.state = "Planning" /\ stored'.state = "Planning"
      BY <2>1, FreshFacts
    <2> QED
      BY <2>1, <2>2 DEF AuditInv, Running, AuditedOver
  <1>31. ASSUME NEW decision \in BOOLEAN, ApproveTask(decision)
         PROVE  AuditInv'
    <2>1. /\ task \in FlowTask /\ task' = Answered(task, decision)
          /\ UNCHANGED <<stored, tree, run>> /\ FilesInDiff' = FilesInDiff
          /\ met' \subseteq {"answer"} <=> met \subseteq {"answer"}
      BY <1>0, <1>31 DEF ApproveTask, Answered, Meets, FilesInDiff
    <2>2. /\ task'.state \in {"Merged", "Failed"}
          /\ task'.backend = task.backend /\ task'.diff = task.diff
      BY <2>1, AnsweredFacts
    <2>3. CASE Running
      BY <2>1, <2>2, <2>3 DEF AuditInv, Running, TaskAt
    <2>4. CASE ~Running
      BY <2>1, <2>2, <2>4 DEF AuditInv, Running, AuditedOver
    <2> QED
      BY <2>3, <2>4
  <1>32. CASE Restart
    <2>1. /\ task' = NoTask /\ run'.pc = "idle"
          /\ UNCHANGED <<stored, tree, met>> /\ FilesInDiff' = FilesInDiff
      BY <1>1, <1>32 DEF Restart, FilesInDiff
    <2>2. CASE Running
      BY <2>1, <2>2 DEF AuditInv, Running, AuditedOver
    <2>3. CASE ~Running
      BY <2>1, <2>3 DEF AuditInv, Running, AuditedOver
    <2> QED
      BY <2>2, <2>3
  <1>36. ASSUME NEW prunes \in BOOLEAN, RemoveWorktree(prunes)
         PROVE  AuditInv'
    BY <1>36 DEF RemoveWorktree, AuditInv
  <1>33. CASE UNCHANGED flowVars
    BY <1>33 DEF flowVars, AuditInv, Running, FilesInDiff
  <1>34. CASE PipelineStep
    BY <1>10, <1>11, <1>12, <1>13, <1>14, <1>15, <1>16, <1>17, <1>18, <1>19,
       <1>20, <1>21, <1>22, <1>23, <1>24, <1>25, <1>26, <1>27, <1>28, <1>34
    DEF PipelineStep
  <1>35. CASE Request
    BY <1>29, <1>30, <1>31, <1>32, <1>35, <1>36 DEF Request
  <1> QED
    BY <1>33, <1>34, <1>35 DEF FlowNext

-----------------------------------------------------------------------------
(* The labels.  While no request meets a pipeline, only the transition it  *)
(* has just made may still lack its label, and an agent's pipeline made it.*)

Unlabelled == {"a.backend", "a.planned", "a.coded", "a.tested", "a.audited"}

Honest(h) == h.simulated <=> h.by # "agent"

LabelInv ==
    met \subseteq {"removal"} /\ task # NoTask =>
        /\ \A h \in task.past : Honest(h)
        /\ run.pc \notin Unlabelled => Honest(task.last)
        /\ run.pc \in Unlabelled => task.last.by = "agent"
        /\ run.pc = "a.backend" => task.past = {}

(* The labels that are pushed are honest.                                  *)
LEMMA HonestFacts ==
    /\ Honest([by |-> "agent", simulated |-> FALSE])
    /\ Honest([by |-> "script", simulated |-> TRUE])
    /\ Honest([by |-> "developer", simulated |-> TRUE])
    /\ \A h \in Transition : h.by = "agent" =>
            Honest([by |-> h.by, simulated |-> FALSE])
  BY DEF Honest

(* A step that pushes a transition, at a point where all have their label. *)
LEMMA PushLabel ==
    ASSUME LabelInv, task # NoTask, run.pc \notin Unlabelled, met' = met,
           task'.past = task.past \cup {task.last}, run'.pc # "a.backend",
           Honest(task'.last) \/ (run'.pc \in Unlabelled /\ task'.last.by = "agent"),
           run'.pc \in Unlabelled => task'.last.by = "agent"
    PROVE  LabelInv'
  BY DEF LabelInv

(* A step that leaves the task alone, between two points where all         *)
(* transitions have their label.                                           *)
LEMMA KeepLabel ==
    ASSUME LabelInv, task' = task, met' = met, run.pc \notin Unlabelled,
           run'.pc \notin Unlabelled
    PROVE  LabelInv'
  BY DEF LabelInv, Unlabelled

(* mark_last_real.                                                         *)
LEMMA MarkLabel ==
    ASSUME FlowTypes, LabelInv, Running, run.pc \in Unlabelled \ {"a.backend"},
           task' = Labelled(task), met' = met, run'.pc \notin Unlabelled
    PROVE  LabelInv'
  <1>1. task \in FlowTask /\ task # NoTask /\ task.last \in Transition
    BY FlowConstants DEF FlowTypes, FlowTypeOK, FlowTask
  <1>2. /\ task'.last = [by |-> task.last.by, simulated |-> FALSE]
        /\ task'.past = task.past
    BY <1>1, LabelledFacts
  <1>3. met \subseteq {"removal"} => Honest(task'.last)
    BY <1>1, <1>2, HonestFacts DEF LabelInv
  <1> QED
    BY <1>1, <1>2, <1>3 DEF LabelInv, Unlabelled

(* advance, in an agent's pipeline to a point where the label is due, in   *)
(* the script with the label it keeps.                                     *)
LEMMA AdvanceLabel ==
    ASSUME FlowTypes, LabelInv, Running, run.pc \notin Unlabelled,
           NEW ok \in BOOLEAN, NEW by \in {"agent", "script"}, ~Bails(task),
           task' = Advanced(task, ok, by), met' = met, run'.pc # "a.backend",
           by = "agent" <=> run'.pc \in Unlabelled
    PROVE  LabelInv'
  <1>1. Sound(task) /\ task # NoTask
    BY DEF FlowTypes, FlowTypeOK
  <1>2. /\ task'.last = [by |-> by, simulated |-> TRUE]
        /\ task'.past = task.past \cup {task.last}
    BY <1>1, AdvancedFacts DEF Sound
  <1>3. task'.last.by = by
    BY <1>2
  <1>4. by = "script" => Honest(task'.last)
    BY <1>2, HonestFacts, Zenon
  <1> QED
    BY <1>1, <1>2, <1>3, <1>4, PushLabel

(* fail_task.                                                              *)
LEMMA FailLabel ==
    ASSUME FlowTypes, LabelInv, Running, run.pc \notin Unlabelled, FailTask
    PROVE  LabelInv'
  <1>1. task \in FlowTask /\ task # NoTask /\ run \in Pipeline
    BY DEF FlowTypes, FlowTypeOK
  <1>2. /\ task'.last = [by |-> "agent", simulated |-> FALSE]
        /\ task'.past = task.past \cup {task.last}
    BY <1>1, FailedFacts DEF FailTask
  <1>3. run'.pc = "idle"
    BY <1>1, ReturnFacts DEF FailTask
  <1> QED
    BY <1>1, <1>2, <1>3, HonestFacts, PushLabel DEF FailTask, Unlabelled, flowEnv

(* AdvanceTo, in either pipeline.                                          *)
LEMMA AdvanceToLabel ==
    ASSUME FlowTypes, LabelInv, Running, run.pc \notin Unlabelled,
           NEW by \in {"agent", "script"},
           NEW to \in ProgramPoint \ {"a.backend"}, AdvanceTo(to, TRUE, by),
           met' = met, by = "agent" <=> to \in Unlabelled
    PROVE  LabelInv'
  <1>1. run \in Pipeline
    BY DEF FlowTypes, FlowTypeOK
  <1>2. CASE Bails(task)
    <2>1. task' = task /\ run'.pc = "idle"
      BY <1>1, <1>2, ReturnFacts DEF AdvanceTo
    <2> QED
      BY <2>1, KeepLabel DEF Unlabelled
  <1>3. CASE ~Bails(task)
    <2>1. task' = Advanced(task, TRUE, by) /\ run'.pc = to
      BY <1>1, <1>3, MoveFacts DEF AdvanceTo, RunGoTo
    <2> QED
      BY <1>3, <2>1, AdvanceLabel, Zenon
  <1> QED
    BY <1>2, <1>3

(* Every step keeps it.                                                    *)
LEMMA LabelStep ==
    ASSUME FlowTypes, LabelInv, [FlowNext]_flowVars
    PROVE  LabelInv'
  <1>0. /\ Running => task \in FlowTask /\ task # NoTask
        /\ tree \in Worktree /\ run \in Pipeline
        /\ task \in FlowTask \cup {NoTask}
    BY FlowConstants DEF FlowTypes, FlowTypeOK
  <1>1. ASSUME Return \/ ReturnReady PROVE run'.pc = "idle"
    BY <1>0, <1>1, ReturnFacts
  <1>2. ASSUME NEW pc \in ProgramPoint, RunGoTo(pc) PROVE run'.pc = pc
    BY <1>0, <1>2, MoveFacts DEF RunGoTo
  <1>3. \A pc \in ProgramPoint \ {"idle"} : RunAt(pc) => Running
    BY DEF RunAt, Running
  <1> USE DEF ProgramPoint
  <1>10. CASE SetBackend
    <2>1. /\ task' = Backed(task) /\ Running /\ run.pc = "a.backend"
          /\ run'.pc = "a.worktree" /\ met' = met
      BY <1>2, <1>3, <1>10 DEF SetBackend, Backed, RunAt, flowEnv
    <2>2. /\ task'.last = [by |-> task.last.by, simulated |-> FALSE]
          /\ task.past = {} => task'.past = {}
          /\ task.last \in Transition
      BY <1>0, <2>1, BackedFacts DEF FlowTask
    <2>3. ASSUME met \subseteq {"removal"}
          PROVE  task'.past = {} /\ Honest(task'.last)
      <3>1. task.past = {} /\ task.last.by = "agent"
        BY <1>0, <2>1, <2>3 DEF LabelInv, Unlabelled
      <3> QED
        BY <2>2, <3>1, HonestFacts
    <2> QED
      BY <2>1, <2>3 DEF LabelInv, Unlabelled
  <1>11. CASE CreateWorktree
    <2>1. run.pc = "a.worktree" /\ run'.pc = "a.architect" /\ UNCHANGED <<task, met>>
      BY <1>2, <1>11 DEF CreateWorktree, RunAt, flowEnv
    <2> QED
      BY <2>1, KeepLabel DEF Unlabelled
  <1>12. CASE PipelineError
    <2>1. /\ run.pc \in {"a.worktree", "a.architect", "a.coder", "a.auditor"}
          /\ UNCHANGED <<task, met>> /\ run'.pc = "idle"
      BY <1>1, <1>12 DEF PipelineError, RunAt, flowEnv
    <2> QED
      BY <2>1, KeepLabel DEF Unlabelled
  <1>13. CASE ArchitectFails \/ AuditorFails \/ GiveUp
    <2>1. /\ run.pc \in {"a.architect", "a.auditor", "a.giveUp"}
          /\ FailTask
      BY <1>13 DEF ArchitectFails, AuditorFails, GiveUp, RunAt
    <2> QED
      BY <2>1, FailLabel DEF Unlabelled, Running
  <1>37. CASE CoderFails
    <2>1. /\ Running /\ run.pc = "a.coder" /\ met' = met
          /\ task' = Failed(task) /\ run'.pc = "idle"
      BY <1>1, <1>3, <1>37 DEF CoderFails, RunAt, flowEnv
    <2>2. /\ task'.last = [by |-> "agent", simulated |-> FALSE]
          /\ task'.past = task.past \cup {task.last}
      BY <1>0, <2>1, FailedFacts
    <2> QED
      BY <1>0, <2>1, <2>2, HonestFacts, PushLabel DEF Unlabelled
  <1>14. ASSUME NEW planned \in (SUBSET RepoFiles) \ {{}}, ArchitectPlans(planned)
         PROVE  LabelInv'
    <2>1. Running /\ run.pc = "a.architect" /\ met' = met
      BY <1>3, <1>14 DEF ArchitectPlans, RunAt, flowEnv
    <2>2. CASE Bails(task)
      <3>1. task' = task /\ run'.pc = "idle"
        BY <1>0, <1>14, <2>2, ReturnFacts DEF ArchitectPlans
      <3> QED
        BY <2>1, <3>1, KeepLabel DEF Unlabelled
    <2>3. CASE ~Bails(task)
      <3>1. task' = Advanced(task, TRUE, "agent") /\ run'.pc = "a.planned"
        BY <1>0, <1>14, <2>3, PlanFacts DEF ArchitectPlans
      <3>2. run.pc \notin Unlabelled /\ run'.pc \in Unlabelled
            /\ run'.pc # "a.backend"
        BY <2>1, <3>1 DEF Unlabelled
      <3> QED
        BY <2>1, <2>3, <3>1, <3>2, AdvanceLabel, Zenon
    <2> QED
      BY <2>2, <2>3
  <1>15. CASE LabelPlan \/ LabelCode \/ LabelAudit
    <2>1. /\ run.pc \in {"a.planned", "a.coded", "a.audited"} /\ met' = met
          /\ run'.pc \in {"a.coder", "a.qa", "a.attach"}
          /\ task' = Labelled(task)
      BY <1>2, <1>15 DEF LabelPlan, LabelCode, LabelAudit, LabelTo, RunAt, flowEnv
    <2> QED
      BY <2>1, MarkLabel DEF Unlabelled, Running
  <1>16. ASSUME NEW files \in [RepoFiles -> FileStatus], CoderWrites(files)
         PROVE  LabelInv'
    BY <1>16, AdvanceToLabel DEF CoderWrites, RunAt, flowEnv, Unlabelled, Running
  <1>17. ASSUME NEW ok \in BOOLEAN, QaRuns(ok)
         PROVE  LabelInv'
    <2>1. Running /\ run.pc = "a.qa" /\ met' = met
      BY <1>3, <1>17 DEF QaRuns, RunAt, flowEnv
    <2>2. CASE Bails(task)
      <3>1. task' = task /\ run'.pc = "idle"
        BY <1>1, <1>17, <2>2 DEF QaRuns
      <3> QED
        BY <2>1, <3>1, KeepLabel DEF Unlabelled
    <2>3. CASE ~Bails(task)
      <3>1. task' = Advanced(task, ok, "agent") /\ run'.pc = "a.tested"
        BY <1>0, <1>17, <2>3 DEF QaRuns, Pipeline
      <3>2. run.pc \notin Unlabelled /\ run'.pc \in Unlabelled
            /\ run'.pc # "a.backend"
        BY <2>1, <3>1 DEF Unlabelled
      <3> QED
        BY <2>1, <2>3, <3>1, <3>2, AdvanceLabel, Zenon
    <2> QED
      BY <2>2, <2>3
  <1>18. CASE LabelQa
    <2>1. /\ run.pc = "a.tested" /\ met' = met /\ task' = Labelled(task)
          /\ run'.pc \in {"a.auditor", "idle", "a.coder"}
      BY <1>1, <1>2, <1>18 DEF LabelQa, RunAt, flowEnv
    <2> QED
      BY <2>1, MarkLabel DEF Unlabelled, Running
  <1>19. CASE AuditorApproves
    BY <1>19, AdvanceToLabel DEF AuditorApproves, RunAt, flowEnv, Unlabelled, Running
  <1>20. CASE Attach \/ ScriptAttaches
    <2>1. /\ Running /\ task' = Shown(task, FilesInDiff) /\ met' = met
          /\ run.pc \in {"a.attach", "s.attach"}
      BY <1>3, <1>20 DEF Attach, ScriptAttaches, Shown, RunAt, flowEnv
    <2>2. task'.last = task.last /\ task'.past = task.past
      BY <1>0, <2>1, ShownFacts, TreeFacts
    <2>3. CASE Attach
      <3>1. run'.pc = "idle"
        BY <1>1, <2>3 DEF Attach
      <3> QED
        BY <1>0, <2>1, <2>2, <3>1 DEF LabelInv, Unlabelled
    <2>4. CASE ScriptAttaches
      <3>1. run'.pc = "s.save"
        BY <1>0, <2>4 DEF ScriptAttaches, Pipeline
      <3> QED
        BY <1>0, <2>1, <2>2, <3>1 DEF LabelInv, Unlabelled
    <2> QED
      BY <1>20, <2>3, <2>4
  <1>21. ASSUME NEW findings \in BOOLEAN, AuditorRejects(findings)
         PROVE  LabelInv'
    <2>1. /\ run.pc = "a.auditor" /\ UNCHANGED <<task, met>>
          /\ RunGoTo("a.giveUp") \/ RunGoTo("a.rewind")
      BY <1>21 DEF AuditorRejects, RunAt, flowEnv
    <2>2. run'.pc \in {"a.giveUp", "a.rewind"}
      BY <1>2, <2>1
    <2> QED
      BY <2>1, <2>2, KeepLabel DEF Unlabelled
  <1>22. CASE RewindToCoder
    <2>1. /\ Running /\ run.pc = "a.rewind" /\ met' = met
          /\ task' = Rewound(task) /\ run'.pc = "a.coder"
      BY <1>2, <1>3, <1>22 DEF RewindToCoder, RunAt, flowEnv
    <2>2. /\ task'.last = [by |-> "agent", simulated |-> FALSE]
          /\ task'.past = task.past \cup {task.last}
      BY <1>0, <2>1, RewoundFacts
    <2> QED
      BY <1>0, <2>1, <2>2, HonestFacts, PushLabel DEF Unlabelled
  <1>23. CASE ScriptPlans
    BY <1>23, AdvanceToLabel DEF ScriptPlans, RunAt, flowEnv, Unlabelled, Running
  <1>24. ASSUME NEW f \in RepoFiles, ScriptWrites(f)
         PROVE  LabelInv'
    BY <1>24, AdvanceToLabel DEF ScriptWrites, RunAt, flowEnv, Unlabelled, Running
  <1>25. ASSUME NEW ok \in BOOLEAN, ScriptTests(ok)
         PROVE  LabelInv'
    <2>1. Running /\ run.pc = "s.qa" /\ met' = met
      BY <1>3, <1>25 DEF ScriptTests, RunAt, flowEnv
    <2>2. CASE Bails(task)
      <3>1. task' = task /\ run'.pc = "idle"
        BY <1>1, <1>25, <2>2 DEF ScriptTests
      <3> QED
        BY <2>1, <3>1, KeepLabel DEF Unlabelled
    <2>3. CASE ~Bails(task)
      <3>1. /\ task' = Advanced(task, ok, "script")
            /\ run'.pc \in {"s.auditor", "idle"}
        BY <1>1, <1>2, <1>25, <2>3 DEF ScriptTests
      <3>2. /\ run.pc \notin Unlabelled /\ run'.pc \notin Unlabelled
            /\ run'.pc # "a.backend" /\ "script" # "agent"
        BY <2>1, <3>1 DEF Unlabelled
      <3> QED
        BY <2>1, <2>3, <3>1, <3>2, AdvanceLabel, Zenon
    <2> QED
      BY <2>2, <2>3
  <1>26. CASE ScriptAudits
    BY <1>26, AdvanceToLabel DEF ScriptAudits, RunAt, flowEnv, Unlabelled, Running
  <1>27. CASE ScriptSaves
    <2>1. run.pc = "s.save" /\ run'.pc = "idle" /\ UNCHANGED <<task, met>>
      BY <1>1, <1>27 DEF ScriptSaves, RunAt, flowEnv
    <2> QED
      BY <2>1, KeepLabel DEF Unlabelled
  <1>28. ASSUME NEW by \in {"agent", "script"}, task' = FreshTask(by),
                by = "agent" => run'.pc = "a.backend",
                by = "script" => run'.pc \notin Unlabelled
         PROVE  LabelInv'
    <2>1. task'.last = [by |-> by, simulated |-> TRUE] /\ task'.past = {}
      BY <1>28, FreshFacts
    <2>2. task'.last.by = by
      BY <2>1
    <2>3. by = "script" => Honest(task'.last)
      BY <2>1, HonestFacts, Zenon
    <2> QED
      BY <1>28, <2>1, <2>2, <2>3 DEF LabelInv, Unlabelled
  <1>29. CASE StartAgentPipeline
    <2>1. task' = FreshTask("agent") /\ run'.pc = "a.backend"
      BY <1>29, IdleFacts
      DEF StartAgentPipeline, StartPipeline, StartTask, Pipeline
    <2> QED
      BY <1>28, <2>1
  <1>30. CASE StartScript
    <2>1. task' = FreshTask("script") /\ run'.pc = "s.architect"
      BY <1>30, IdleFacts DEF StartScript, StartPipeline, StartTask, Pipeline
    <2> QED
      BY <1>28, <2>1 DEF Unlabelled
  <1>31. CASE StartAlone
    <2>1. /\ task' = FreshTask("script") /\ run' = run
          /\ Running => ~(met' \subseteq {"removal"})
      BY <1>31 DEF StartAlone, StartTask, Meets
    <2>2. CASE Running
      BY <2>1, <2>2 DEF LabelInv
    <2>3. CASE ~Running
      BY <1>28, <2>1, <2>3 DEF Running, Unlabelled
    <2> QED
      BY <2>2, <2>3
  <1>32. ASSUME NEW decision \in BOOLEAN, ApproveTask(decision)
         PROVE  LabelInv'
    <2>1. /\ task \in FlowTask /\ task # NoTask /\ run' = run
          /\ task' = Answered(task, decision)
          /\ Running => ~(met' \subseteq {"removal"})
          /\ ~Running => met' = met
      BY <1>0, <1>32 DEF ApproveTask, Answered, Meets
    <2>2. CASE Running
      BY <2>1, <2>2 DEF LabelInv
    <2>3. CASE ~Running
      <3>1. /\ task'.last = [by |-> "developer", simulated |-> TRUE]
            /\ task'.past = task.past \cup {task.last}
        BY <2>1, AnsweredFacts
      <3> QED
        BY <2>1, <2>3, <3>1, HonestFacts, PushLabel DEF Running, Unlabelled
    <2> QED
      BY <2>2, <2>3
  <1>33. CASE Restart
    BY <1>33 DEF Restart, LabelInv
  <1>38. ASSUME NEW prunes \in BOOLEAN, RemoveWorktree(prunes)
         PROVE  LabelInv'
    <2>1. /\ UNCHANGED <<task, run>>
          /\ met' \subseteq {"removal"} => met \subseteq {"removal"}
      BY <1>38 DEF RemoveWorktree
    <2> QED
      BY <2>1 DEF LabelInv
  <1>34. CASE UNCHANGED flowVars
    BY <1>34 DEF flowVars, LabelInv
  <1>35. CASE PipelineStep
    BY <1>10, <1>11, <1>12, <1>13, <1>14, <1>15, <1>16, <1>17, <1>18, <1>19,
       <1>20, <1>21, <1>22, <1>23, <1>24, <1>25, <1>26, <1>27, <1>35,
       <1>37
    DEF PipelineStep
  <1>36. CASE Request
    BY <1>29, <1>30, <1>31, <1>32, <1>33, <1>36, <1>38 DEF Request
  <1> QED
    BY <1>34, <1>35, <1>36 DEF FlowNext

(* Initially there is no task and no pipeline.                             *)
LEMMA AuditInit == FlowInit => FlowTypes /\ AuditInv /\ LabelInv
  <1> SUFFICES ASSUME FlowInit PROVE FlowTypes /\ AuditInv /\ LabelInv
    OBVIOUS
  <1>1. FlowTypes
    BY IdleFacts, FlowConstants
    DEF FlowInit, FlowTypes, FlowTypeOK, Worktree, FileStatus, Running, Untouched
  <1>2. AuditInv /\ LabelInv
    BY IdleFacts DEF FlowInit, AuditInv, LabelInv, Running, AuditedOver
  <1> QED
    BY <1>1, <1>2

(* Every variable of the engine keeps its type for any repository and any  *)
(* max_qa_retries: QA's and the Auditor's retries together stay within it, *)
(* though rewind_to_coder adds one without looking.                        *)
THEOREM FlowTypeCorrect == FlowSpec => []FlowTypeOK
  <1>1. FlowTypes => FlowTypeOK
    BY DEF FlowTypes
  <1> QED
    BY <1>1, AuditInit, FlowTypesStep, PTL DEF FlowSpec

(* No sequence of starts, answers, failures and restarts makes a task      *)
(* ready for approval whose worktree is not the one that was green in QA   *)
(* or whose diff is another, as long as no start resets the task under its *)
(* pipeline and no command removes the worktree.                           *)
THEOREM ReadyCorrect == FlowSpec => []ReadyIsAudited
  <1>1. AuditInv => ReadyIsAudited
    BY DEF AuditInv, ReadyIsAudited, AuditedOver
  <1> QED
    BY <1>1, AuditInit, FlowTypesStep, AuditStep, PTL DEF FlowSpec

(* When no start or answer met a pipeline, every transition of the history *)
(* says truly whether an agent or a script made it.                        *)
THEOREM LabelsCorrect == FlowSpec => []LabelsAreHonest
  <1>1. LabelInv => LabelsAreHonest
    BY DEF LabelInv, LabelsAreHonest, Honest, Running, Unlabelled
  <1> QED
    BY <1>1, AuditInit, FlowTypesStep, LabelStep, PTL DEF FlowSpec

-----------------------------------------------------------------------------
(* The changes of a plan.                                                  *)

(* What is at a path, and a disk: the contents need not be items, because  *)
(* what FoldLeft makes of the overlay is not known here.                   *)
IsEntry(e) == e = [here |-> e.here, items |-> e.items] /\ e.here \in BOOLEAN
IsMap(d) == d = [p \in Paths |-> d[p]]
IsDisk(d) == IsMap(d) /\ \A p \in Paths : IsEntry(d[p])

WellFormed(c) ==
    \/ c.op \in {"write", "patch"} /\ c.path \in Files
    \/ c.op \in {"delete", "read"} /\ c.path \in Paths
    \/ c.op = "mkdir" /\ c.path = Dir

PlanTypes ==
    /\ phase # "failed" => IsDisk(disk) /\ Possible(disk)
    /\ plan \in Seq(PlannedStep)
    /\ \E S : changes \in Seq(S)
    /\ \A n \in 1 .. Len(changes) : WellFormed(changes[n])
    /\ i \in Nat \ {0}
    /\ edited \subseteq Files /\ blind \subseteq Files

(* Nothing that remains to be done writes in the directory.                *)
NothingInside ==
    /\ \A n \in 1 .. Len(plan) : StepWrites(plan[n]) \cap Inside = {}
    /\ \A n \in 1 .. Len(changes) :
          changes[n].op = "write" => changes[n].path \notin Inside

(* Every step and every change stays within the blast radius, which holds  *)
(* a directory that has to be made and, with a directory, what is in it.   *)
(* Outside of it the disk is the one of the snapshot.                      *)
RadiusInv ==
    /\ \A n \in 1 .. Len(plan) : StepPaths(plan[n]) \subseteq radius
    /\ \A n \in 1 .. Len(changes) :
          changes[n].op # "read" => changes[n].path \in radius
    /\ Dir \in radius => Inside \subseteq radius
    /\ phase \in {"planning", "rendering"} =>
          Dir \in radius \/ disk[Dir].here \/ NothingInside
    /\ phase = "applying" =>
          /\ Dir \in radius \/ snap[Dir].here \/ NothingInside
          /\ \A p \in Paths \ (edited \cup radius) : disk[p] = snap[p]
    /\ FailedLeavesNothing

(* The last of the first n changes at p is one the overlay ignores.        *)
Forgotten(cs, n, p) ==
    \E m \in 1 .. n :
        Ignored(cs[m], p) /\ \A l \in (m + 1) .. n : ~Touches(cs[l], p)

(* "blind" has every file that is changed after such a change.             *)
BlindInv ==
    \A n \in 1 .. Len(changes) :
        /\ changes[n].op \in {"write", "patch"}
        /\ Forgotten(changes, n - 1, changes[n].path)
        => changes[n].path \in blind

(* What the proofs use of the constants.                                   *)
LEMMA PlanConstants ==
    /\ Dir \notin Files /\ Inside \subseteq Files
    /\ Legacy \in Files /\ Declared \in Files /\ Legacy # Declared
    /\ Legacy \in Inside <=> Declared \in Inside
    /\ \A d \in Disks : d \in [Paths -> Entry] /\ Possible(d)
    /\ \A steps \in Plans : steps \in Seq(PlannedStep)
  BY PlanAssumption

(* What a step is turned into: changes of the paths it declares, and only  *)
(* writes when there are several.                                          *)
LEMMA ChangesForFacts ==
    ASSUME NEW s \in PlannedStep, NEW d, NEW new, new = ChangesFor(s, d)
    PROVE  /\ \E S : new \in Seq(S)
           /\ \A n \in 1 .. Len(new) :
                 /\ WellFormed(new[n])
                 /\ new[n].op # "read" => new[n].path \in StepPaths(s)
                 /\ new[n].op = "write" => s.op # "delete"
           /\ Len(new) = 1 \/ \A n \in 1 .. Len(new) : new[n].op = "write"
  <1>1. CASE s.op = "declare"
    <2> DEFINE c == Write(Declared, ReadWithPending(Declared, d, pending) \cup {s.item})
    <2>1. new = <<c>>
      BY <1>1 DEF ChangesFor
    <2>2. c.op = "write" /\ c.path = Declared
      BY DEF Write
    <2> HIDE DEF c
    <2>3. new \in Seq({c}) /\ Len(new) = 1 /\ new[1] = c
      BY <2>1
    <2> QED
      BY <1>1, <2>2, <2>3, PlanConstants DEF WellFormed, StepPaths
  <1>2. CASE s.op = "scaffold"
    <2>1. s.paths \in Seq(Files)
      BY <1>2 DEF PlannedStep, Change
    <2>2. new = [n \in 1 .. Len(s.paths) |-> Write(s.paths[n], s.items)]
      BY <1>2 DEF ChangesFor
    <2>3. Len(s.paths) \in Nat
      BY <2>1
    <2> DEFINE S == {Write(p, s.items) : p \in Files}
    <2>4. \A n \in 1 .. Len(s.paths) : s.paths[n] \in Files
      BY <2>1
    <2>5. \A n \in 1 .. Len(s.paths) : Write(s.paths[n], s.items) \in S
      BY <2>4
    <2> HIDE DEF S
    <2>6. new \in [1 .. Len(s.paths) -> S]
      BY <2>2, <2>5
    <2>7. new \in Seq(S) /\ Len(new) = Len(s.paths)
      BY <2>3, <2>6
    <2>8. \A n \in 1 .. Len(new) : new[n].op = "write" /\ new[n].path = s.paths[n]
      BY <2>2, <2>7 DEF Write
    <2>9. \A n \in 1 .. Len(new) : s.paths[n] \in Range(s.paths)
      BY <2>1, <2>7 DEF Range
    <2> QED
      BY <1>2, <2>4, <2>7, <2>8, <2>9 DEF WellFormed, StepPaths
  <1>3. CASE s.op \notin {"declare", "scaffold"}
    <2>1. new = <<s>>
      BY <1>3 DEF ChangesFor
    <2>2. new \in Seq({s}) /\ Len(new) = 1 /\ new[1] = s
      BY <2>1
    <2>3. WellFormed(s)
      BY <1>3 DEF PlannedStep, Change, WellFormed
    <2>4. s.op # "read" => s.path \in StepPaths(s)
      BY <1>3 DEF StepPaths
    <2> QED
      BY <2>2, <2>3, <2>4
  <1> QED
    BY <1>1, <1>2, <1>3

(* Two sequences in a row, whatever is in them.                            *)
LEMMA JoinFacts ==
    ASSUME NEW s, NEW t, \E S : s \in Seq(S), \E S : t \in Seq(S)
    PROVE  /\ \E S : s \o t \in Seq(S)
           /\ Len(s) \in Nat /\ Len(t) \in Nat
           /\ Len(s \o t) = Len(s) + Len(t)
           /\ \A n \in 1 .. Len(s) : (s \o t)[n] = s[n]
           /\ \A n \in 1 .. Len(t) : (s \o t)[n + Len(s)] = t[n]
  <1>1. PICK S : s \in Seq(S)
    OBVIOUS
  <1>2. PICK T : t \in Seq(T)
    OBVIOUS
  <1> DEFINE U == S \cup T
  <1>3. s \in Seq(U) /\ t \in Seq(U)
    BY <1>1, <1>2
  <1> HIDE DEF U
  <1>4. s \o t \in Seq(U) /\ Len(s \o t) = Len(s) + Len(t)
    BY <1>3
  <1>5. \A n \in 1 .. (Len(s) + Len(t)) :
           (s \o t)[n] = IF n <= Len(s) THEN s[n] ELSE t[n - Len(s)]
    BY <1>3
  <1>6. Len(s) \in Nat /\ Len(t) \in Nat
    BY <1>3
  <1>7. \A n \in 1 .. Len(t) : (s \o t)[n + Len(s)] = t[n]
    <2> TAKE n \in 1 .. Len(t)
    <2>1. /\ n + Len(s) \in 1 .. (Len(s) + Len(t))
          /\ ~(n + Len(s) <= Len(s)) /\ (n + Len(s)) - Len(s) = n
      BY <1>6
    <2> QED
      BY <1>5, <2>1
  <1> QED
    BY <1>4, <1>5, <1>6, <1>7

(* What a change makes of what is at p.                                    *)
Result(c, p, e) ==
    IF c.op = "write" /\ c.path = p THEN File(c.items)
    ELSE IF c.op = "patch" /\ c.path = p THEN File(Patched(e.items, c.old, c.new))
    ELSE IF c.op = "delete" /\ (p = c.path \/ (c.path = Dir /\ p \in Inside))
    THEN Absent
    ELSE IF p = Dir /\ c.op = "write" THEN [e EXCEPT !.here = @ \/ c.path \in Inside]
    ELSE IF p = Dir /\ c.op = "mkdir" THEN [e EXCEPT !.here = TRUE]
    ELSE e

(* A record that is changed in its field "here".                           *)
LEMMA HereFacts ==
    ASSUME NEW e, IsEntry(e), NEW v \in BOOLEAN
    PROVE  /\ IsEntry([e EXCEPT !.here = v])
           /\ [e EXCEPT !.here = v].here = v
           /\ [e EXCEPT !.here = v].items = e.items
           /\ v = e.here => [e EXCEPT !.here = v] = e
  <1>1. [e EXCEPT !.here = v] = [here |-> v, items |-> e.items]
    <2>1. e = [here |-> e.here, items |-> e.items]
      BY DEF IsEntry
    <2>2. ASSUME NEW a, NEW b
          PROVE  [[here |-> a, items |-> b] EXCEPT !.here = v] = [here |-> v, items |-> b]
      OBVIOUS
    <2> QED
      BY <2>1, <2>2, Zenon
  <1>2. v = e.here => [here |-> v, items |-> e.items] = e
    BY DEF IsEntry
  <1> QED
    BY <1>1, <1>2 DEF IsEntry

(* A file that is there, and one that is not.                              *)
LEMMA FileFacts ==
    /\ \A c : IsEntry(File(c)) /\ File(c).here /\ File(c).items = c
    /\ IsEntry(Absent) /\ ~Absent.here /\ Absent.items = {}
  BY DEF IsEntry, File, Absent

(* write_guarded: the file, and its directory.                             *)
Wrote(d, p, c, e) ==
    /\ IsDisk(e)
    /\ e[p] = File(c)
    /\ e[Dir] = [d[Dir] EXCEPT !.here = @ \/ p \in Inside]
    /\ e[Dir].here <=> (d[Dir].here \/ p \in Inside)
    /\ e[Dir].items = d[Dir].items
    /\ \A q \in Files \ {p} : e[q] = d[q]

(* Both as write_guarded leaves them.                                      *)
LEMMA WrittenFacts ==
    ASSUME NEW d, IsDisk(d), NEW p \in Files, NEW c, NEW e,
           e = [d EXCEPT ![p] = File(c), ![Dir].here = @ \/ p \in Inside]
    PROVE  Wrote(d, p, c, e)
  <1>1. Dir \in Paths /\ p \in Paths /\ p # Dir
    BY PlanConstants DEF Paths
  <1> DEFINE g == [d[Dir] EXCEPT !.here = @ \/ p \in Inside]
  <1>2. IsEntry(d[Dir])
    BY <1>1 DEF IsDisk
  <1>3. d[Dir].here \in BOOLEAN /\ (d[Dir].here \/ p \in Inside) \in BOOLEAN
    BY <1>2 DEF IsEntry
  <1>4. PICK v \in BOOLEAN : v = (d[Dir].here \/ p \in Inside)
    BY <1>3
  <1>41. g = [d[Dir] EXCEPT !.here = v]
    BY <1>4
  <1>5. /\ IsEntry(g) /\ g.here = (d[Dir].here \/ p \in Inside)
        /\ g.items = d[Dir].items
    <2> DEFINE h == [d[Dir] EXCEPT !.here = v]
    <2>0. IsEntry(h) /\ h.here = v /\ h.items = d[Dir].items
      BY <1>2, HereFacts
    <2>1. IsEntry(g) /\ g.here = v /\ g.items = d[Dir].items
      BY <1>41, <2>0, Zenon
    <2> HIDE DEF g
    <2> QED
      BY <1>4, <2>1
  <1>6. d = [q \in Paths |-> d[q]]
    BY DEF IsDisk, IsMap
  <1>7. e = [q \in Paths |-> IF q = Dir THEN g ELSE IF q = p THEN File(c) ELSE d[q]]
    BY <1>1, <1>6
  <1> HIDE DEF g
  <1>8. e[p] = File(c) /\ e[Dir] = g /\ \A q \in Paths \ {p, Dir} : e[q] = d[q]
    BY <1>1, <1>7
  <1>9. IsMap(e)
    BY <1>7 DEF IsMap
  <1>10. \A q \in Paths : IsEntry(e[q])
    BY <1>1, <1>5, <1>8, FileFacts DEF IsDisk
  <1>11. \A q \in Files \ {p} : q \in Paths \ {p, Dir}
    BY PlanConstants DEF Paths
  <1> QED
    BY <1>5, <1>8, <1>9, <1>10, <1>11 DEF IsDisk, Wrote, g

(* A change that is applied makes of every path what Result says, and      *)
(* leaves a disk.                                                          *)
LEMMA AppliedFacts ==
    ASSUME NEW c, WellFormed(c), IsDisk(disk), Possible(disk), CanApply(c),
           NEW e, e = Applied(c)
    PROVE  /\ IsDisk(e) /\ Possible(e)
           /\ \A p \in Paths : e[p] = Result(c, p, disk[p])
           /\ c.op = "patch" => c.old \in disk[c.path].items
  <1>0. /\ Dir \in Paths /\ Dir \notin Files /\ Inside \subseteq Files
        /\ \A p \in Paths : p \in Files \/ p = Dir
        /\ \A p \in Files : p \in Paths
    BY PlanConstants DEF Paths
  <1>1. disk = [q \in Paths |-> disk[q]] /\ \A q \in Paths : IsEntry(disk[q])
    BY DEF IsDisk, IsMap
  <1>2. CASE c.op = "write"
    <2>1. c.path \in Files /\ e = Written(c.path, c.items)
      BY <1>2 DEF WellFormed, Applied
    <2>2. PICK q \in Files : q = c.path
      BY <2>1
    <2>3. PICK w : w = c.items
      OBVIOUS
    <2>4. e = [disk EXCEPT ![q] = File(w), ![Dir].here = @ \/ q \in Inside]
      BY <2>1, <2>2, <2>3 DEF Written
    <2>41. Wrote(disk, q, w, e)
      BY <2>4, WrittenFacts
    <2>5. Possible(e)
      BY <1>0, <2>41, FileFacts DEF Possible, Wrote
    <2>6. \A p \in Paths : e[p] = Result(c, p, disk[p])
      BY <1>0, <1>2, <2>2, <2>3, <2>41 DEF Result, Wrote
    <2> QED
      BY <1>2, <2>41, <2>5, <2>6 DEF Wrote
  <1>3. CASE c.op = "patch"
    <2>1. /\ c.path \in Files
          /\ e = Written(c.path, Patched(disk[c.path].items, c.old, c.new))
          /\ c.old \in disk[c.path].items
      BY <1>3 DEF WellFormed, Applied, CanApply
    <2>2. PICK q \in Files : q = c.path
      BY <2>1
    <2>3. PICK w : w = Patched(disk[q].items, c.old, c.new)
      OBVIOUS
    <2>4. e = [disk EXCEPT ![q] = File(w), ![Dir].here = @ \/ q \in Inside]
      BY <2>1, <2>2, <2>3 DEF Written
    <2>41. Wrote(disk, q, w, e)
      BY <2>4, WrittenFacts
    <2>5. Possible(e)
      BY <1>0, <2>41, FileFacts DEF Possible, Wrote
    <2>6. q \in Inside => disk[Dir].here
      BY <1>0, <2>1, <2>2 DEF Possible
    <2>7. e[Dir] = disk[Dir]
      <3>1. e[Dir].here = disk[Dir].here
        <4>1. e[Dir].here \in BOOLEAN /\ disk[Dir].here \in BOOLEAN
          BY <1>0, <1>1, <2>41 DEF IsEntry, IsDisk, Wrote
        <4> QED
          BY <2>41, <2>6, <4>1 DEF Wrote
      <3>2. IsEntry(e[Dir]) /\ IsEntry(disk[Dir])
        BY <1>0, <1>1, <2>41 DEF IsDisk, Wrote
      <3> QED
        BY <2>41, <3>1, <3>2 DEF IsEntry, Wrote
    <2>8. \A p \in Paths : e[p] = Result(c, p, disk[p])
      BY <1>0, <1>3, <2>2, <2>3, <2>41, <2>7 DEF Result, Wrote
    <2> QED
      BY <2>1, <2>41, <2>5, <2>8 DEF Wrote
  <1>4. CASE c.op = "delete"
    <2>1. e = [q \in Paths |->
                 IF q = c.path \/ (c.path = Dir /\ q \in Inside)
                 THEN Absent ELSE disk[q]]
      BY <1>4 DEF Applied
    <2>2. IsDisk(e)
      BY <1>1, <2>1, FileFacts DEF IsDisk, IsMap
    <2>3. Possible(e)
      BY <1>0, <2>1, FileFacts DEF Possible
    <2>4. \A p \in Paths : e[p] = Result(c, p, disk[p])
      BY <1>4, <2>1 DEF Result
    <2> QED
      BY <1>4, <2>2, <2>3, <2>4
  <1>5. CASE c.op = "mkdir"
    <2>1. e = [disk EXCEPT ![Dir].here = TRUE]
      BY <1>5 DEF Applied
    <2> DEFINE g == [disk[Dir] EXCEPT !.here = TRUE]
    <2>2. e = [q \in Paths |-> IF q = Dir THEN g ELSE disk[q]]
      BY <1>0, <1>1, <2>1
    <2>3. IsEntry(g) /\ g.here
      <3>1. PICK v \in BOOLEAN : v = TRUE
        OBVIOUS
      <3> DEFINE h == [disk[Dir] EXCEPT !.here = v]
      <3>2. IsEntry(h) /\ h.here = v
        BY <1>0, <1>1, HereFacts
      <3>3. g = h
        BY <3>1
      <3> HIDE DEF g, h
      <3> QED
        BY <3>1, <3>2, <3>3
    <2>4. \A p \in Paths : e[p] = Result(c, p, disk[p])
      BY <1>0, <1>5, <2>2 DEF Result
    <2> HIDE DEF g
    <2>5. IsDisk(e)
      BY <1>1, <2>2, <2>3 DEF IsDisk, IsMap
    <2>6. e[Dir].here /\ \A p \in Files : e[p] = disk[p]
      BY <1>0, <2>2, <2>3
    <2>7. Possible(e)
      BY <1>0, <2>6 DEF Possible
    <2> QED
      BY <1>5, <2>4, <2>5, <2>7
  <1>6. CASE c.op \notin {"write", "patch", "delete", "mkdir"}
    <2>1. e = disk
      BY <1>6 DEF Applied
    <2> QED
      BY <1>6, <2>1 DEF Result
  <1> QED
    BY <1>2, <1>3, <1>4, <1>5, <1>6

(* migrate_legacy_path moves a file within its directory.                  *)
LEMMA MigratedFacts ==
    ASSUME NEW d, IsDisk(d), Possible(d)
    PROVE  /\ IsDisk(Migrated(d)) /\ Possible(Migrated(d))
           /\ Migrated(d)[Dir] = d[Dir]
  <1> DEFINE e == [d EXCEPT ![Declared] = d[Legacy], ![Legacy] = Absent]
  <1>1. CASE Migrated(d) = d
    BY <1>1
  <1>2. CASE Migrated(d) = e /\ d[Legacy].here
    <2>1. /\ Dir \in Paths /\ Declared \in Paths /\ Legacy \in Paths
          /\ Dir # Declared /\ Dir # Legacy /\ Declared # Legacy
      BY PlanConstants DEF Paths
    <2>2. e = [q \in Paths |-> IF q = Legacy THEN Absent
                               ELSE IF q = Declared THEN d[Legacy] ELSE d[q]]
      BY <2>1 DEF IsDisk, IsMap
    <2> HIDE DEF e
    <2>3. IsDisk(e) /\ e[Dir] = d[Dir]
      BY <2>1, <2>2, FileFacts DEF IsDisk, IsMap
    <2>4. Possible(e)
      BY <1>2, <2>1, <2>2, FileFacts, PlanConstants DEF Possible, Paths
    <2> QED
      BY <1>2, <2>3, <2>4
  <1> QED
    BY <1>1, <1>2 DEF Migrated

(* An editor changes what is in a file.                                    *)
LEMMA EditFacts ==
    ASSUME NEW p \in Files, NEW x, IsDisk(disk), Possible(disk), Edit(p, x)
    PROVE  /\ IsDisk(disk') /\ Possible(disk')
           /\ \A q \in Paths \ {p} : disk'[q] = disk[q]
  <1>1. PICK c : disk' = [disk EXCEPT ![p] = File(c)]
    BY DEF Edit
  <1>2. p \in Paths /\ Dir \in Paths /\ p # Dir /\ disk[p].here
    BY PlanConstants DEF Paths, Edit
  <1>3. disk' = [q \in Paths |-> IF q = p THEN File(c) ELSE disk[q]]
    BY <1>1, <1>2 DEF IsDisk, IsMap
  <1>4. IsDisk(disk')
    BY <1>3, FileFacts DEF IsDisk, IsMap
  <1>5. Possible(disk')
    BY <1>2, <1>3, FileFacts, PlanConstants DEF Possible, Paths
  <1> QED
    BY <1>3, <1>4, <1>5

(* Every step keeps the types.                                             *)
LEMMA PlanTypesStep == PlanTypes /\ [PlanNext]_planVars => PlanTypes'
  <1> SUFFICES ASSUME PlanTypes, [PlanNext]_planVars PROVE PlanTypes'
    OBVIOUS
  <1> USE DEF PlanTypes
  <1>1. CASE PlanStep
    <2>1. PICK s, d, new :
             /\ s \in PlannedStep /\ s = Head(plan) /\ plan' = Tail(plan)
             /\ d = IF s.op = "declare" THEN Migrated(disk) ELSE disk
             /\ new = ChangesFor(s, d) /\ disk' = d /\ changes' = changes \o new
             /\ blind' = blind \cup Blinded(changes, new)
      <3>1. Head(plan) \in PlannedStep
        BY <1>1 DEF PlanStep
      <3> QED
        BY <1>1, <3>1 DEF PlanStep
    <2>2. IsDisk(disk') /\ Possible(disk')
      <3>1. phase = "planning"
        BY <1>1 DEF PlanStep
      <3> QED
        BY <2>1, <3>1, MigratedFacts
    <2>3. /\ \E S : new \in Seq(S)
          /\ \A n \in 1 .. Len(new) : WellFormed(new[n])
      BY <2>1, ChangesForFacts
    <2>4. \E S : changes' \in Seq(S)
      BY <2>1, <2>3, JoinFacts
    <2>5. \A n \in 1 .. Len(changes') : WellFormed(changes'[n])
      <3> TAKE n \in 1 .. Len(changes')
      <3>1. /\ Len(changes') = Len(changes) + Len(new)
            /\ Len(changes) \in Nat /\ Len(new) \in Nat
            /\ \A m \in 1 .. Len(changes) : changes'[m] = changes[m]
            /\ \A m \in 1 .. Len(new) : changes'[m + Len(changes)] = new[m]
        BY <2>1, <2>3, JoinFacts
      <3>2. CASE n <= Len(changes)
        BY <3>1, <3>2
      <3>3. CASE n > Len(changes)
        <4>1. /\ n - Len(changes) \in 1 .. Len(new)
              /\ (n - Len(changes)) + Len(changes) = n
          BY <3>1, <3>3
        <4> QED
          BY <2>3, <3>1, <4>1
      <3> QED
        BY <3>1, <3>2, <3>3
    <2>6. plan' \in Seq(PlannedStep)
      BY <1>1, <2>1 DEF PlanStep
    <2>7. blind' \subseteq Files
      BY <2>1 DEF Blinded
    <2>8. i' = i /\ edited' = edited
      BY <1>1 DEF PlanStep
    <2> QED
      BY <2>2, <2>4, <2>5, <2>6, <2>7, <2>8
  <1>2. CASE RenderStart \/ Cancel \/ Approve \/ Executed \/ Ended \/ UNCHANGED planVars
    <2>1. /\ UNCHANGED <<disk, plan, changes, edited, blind>> /\ i' \in {1, i}
          /\ phase = "failed" => phase' = "failed"
      BY <1>2 DEF RenderStart, Cancel, Approve, Executed, Ended, planVars, history
    <2> QED
      BY <2>1
  <1>3. CASE RenderChange
    <2>1. /\ UNCHANGED <<disk, plan, changes, edited, blind, phase>>
          /\ i' = i + 1
      BY <1>3 DEF RenderChange, history
    <2> QED
      BY <2>1
  <1>4. CASE Apply
    <2>1. /\ UNCHANGED <<plan, changes, edited, blind>> /\ i' = i + 1
          /\ CanApply(changes[i]) /\ disk' = Applied(changes[i])
          /\ i <= Len(changes) /\ phase = "applying"
      BY <1>4 DEF Apply, history
    <2>2. WellFormed(changes[i])
      BY <2>1
    <2>3. IsDisk(disk') /\ Possible(disk')
      BY <2>1, <2>2, AppliedFacts
    <2> QED
      BY <2>1, <2>3
  <1>5. CASE Fail
    <2>1. UNCHANGED <<plan, changes, i, edited, blind>> /\ phase' = "failed"
      BY <1>5 DEF Fail, history
    <2> QED
      BY <2>1
  <1>6. ASSUME NEW p \in Files, NEW x \in Items, Edit(p, x)
        PROVE  PlanTypes'
    <2>1. /\ UNCHANGED <<plan, changes, i, blind>> /\ phase # "failed"
          /\ edited' \in {edited, edited \cup {p}}
      BY <1>6 DEF Edit
    <2> QED
      BY <1>6, <2>1, EditFacts
  <1> QED
    BY <1>1, <1>2, <1>3, <1>4, <1>5, <1>6 DEF PlanNext

(* One turn of the loop: the step that is taken, its changes, and what     *)
(* they are appended to.                                                   *)
Turn(s, d, new) ==
    /\ s \in PlannedStep /\ s = plan[1] /\ 1 \in 1 .. Len(plan)
    /\ Len(plan') = Len(plan) - 1
    /\ \A n \in 1 .. Len(plan') : n + 1 \in 1 .. Len(plan) /\ plan'[n] = plan[n + 1]
    /\ disk' = d /\ d[Dir] = disk[Dir]
    /\ Len(changes') = Len(changes) + Len(new)
    /\ Len(changes) \in Nat /\ Len(new) \in Nat
    /\ \A m \in 1 .. Len(changes) : changes'[m] = changes[m]
    /\ \A m \in 1 .. Len(new) :
          /\ changes'[m + Len(changes)] = new[m]
          /\ WellFormed(new[m])
          /\ new[m].op # "read" => new[m].path \in StepPaths(s)
          /\ new[m].op = "write" => s.op # "delete"
    /\ Len(new) = 1 \/ \A n \in 1 .. Len(new) : new[n].op = "write"
    /\ \E S : changes \in Seq(S)
    /\ \E S : new \in Seq(S)
    /\ blind' = blind \cup Blinded(changes, new)
    /\ phase = "planning"
    /\ UNCHANGED <<phase, i, shown, radius, snap, edits, edited>>

(* Every turn of the loop is one of these.                                 *)
LEMMA TurnFacts ==
    ASSUME PlanTypes, PlanStep
    PROVE  \E s, d, new : Turn(s, d, new)
  <1> USE DEF PlanTypes
  <1>1. PICK s, d, new :
           /\ s \in PlannedStep /\ s = Head(plan) /\ plan' = Tail(plan)
           /\ d = IF s.op = "declare" THEN Migrated(disk) ELSE disk
           /\ new = ChangesFor(s, d) /\ disk' = d /\ changes' = changes \o new
           /\ blind' = blind \cup Blinded(changes, new)
    <2>1. Head(plan) \in PlannedStep
      BY DEF PlanStep
    <2> QED
      BY <2>1 DEF PlanStep
  <1>2. /\ \E S : new \in Seq(S)
        /\ \A n \in 1 .. Len(new) :
              /\ WellFormed(new[n])
              /\ new[n].op # "read" => new[n].path \in StepPaths(s)
              /\ new[n].op = "write" => s.op # "delete"
        /\ Len(new) = 1 \/ \A n \in 1 .. Len(new) : new[n].op = "write"
    BY <1>1, ChangesForFacts
  <1>3. /\ Len(changes') = Len(changes) + Len(new)
        /\ Len(changes) \in Nat /\ Len(new) \in Nat
        /\ \A m \in 1 .. Len(changes) : changes'[m] = changes[m]
        /\ \A m \in 1 .. Len(new) : changes'[m + Len(changes)] = new[m]
    BY <1>1, <1>2, JoinFacts
  <1>4. /\ s = plan[1] /\ 1 \in 1 .. Len(plan) /\ Len(plan') = Len(plan) - 1
        /\ \A n \in 1 .. Len(plan') :
              n + 1 \in 1 .. Len(plan) /\ plan'[n] = plan[n + 1]
    <2>1. plan \in Seq(PlannedStep) /\ plan # <<>>
      BY DEF PlanStep
    <2> QED
      BY <1>1, <2>1
  <1>5. phase = "planning" /\ UNCHANGED <<phase, i, shown, radius, snap, edits, edited>>
    BY DEF PlanStep
  <1>6. d[Dir] = disk[Dir]
    BY <1>1, <1>5, MigratedFacts
  <1>7. Turn(s, d, new)
    BY <1>1, <1>2, <1>3, <1>4, <1>5, <1>6 DEF Turn
  <1> QED
    BY <1>7

(* Nothing is written outside of the blast radius.                         *)
LEMMA AppliedWithin ==
    ASSUME NEW c, WellFormed(c), NEW X \in SUBSET Paths, NEW p \in Paths \ X,
           c.op # "read" => c.path \in X, Dir \in X => Inside \subseteq X,
           NEW e, IsEntry(e),
           p = Dir => e.here \/ (c.op = "write" => c.path \notin Inside)
    PROVE  Result(c, p, e) = e
  <1>1. Dir \notin Files /\ Inside \subseteq Files
    BY PlanConstants
  <1>2. CASE p = Dir /\ c.op = "write"
    <2>1. /\ c.path \in X /\ c.path \in Files /\ c.path # p
          /\ c.path \in Inside => e.here
      BY <1>1, <1>2 DEF WellFormed
    <2>2. Result(c, p, e) = [e EXCEPT !.here = @ \/ c.path \in Inside]
      BY <1>2, <2>1 DEF Result
    <2>3. PICK v \in BOOLEAN : v = e.here
      BY DEF IsEntry
    <2>4. (e.here \/ c.path \in Inside) = v
      BY <2>1, <2>3
    <2>5. [e EXCEPT !.here = v] = e
      BY <2>3, HereFacts
    <2> QED
      BY <2>2, <2>4, <2>5
  <1>3. CASE ~(p = Dir /\ c.op = "write")
    BY <1>1, <1>3 DEF WellFormed, Result
  <1> QED
    BY <1>2, <1>3

(* Every step keeps the changes and what they touch within the radius.     *)
LEMMA RadiusStep ==
    PlanTypes /\ RadiusInv /\ [PlanNext]_planVars => RadiusInv'
  <1> SUFFICES ASSUME PlanTypes, RadiusInv, [PlanNext]_planVars PROVE RadiusInv'
    OBVIOUS
  <1> USE DEF RadiusInv
  <1>1. CASE PlanStep
    <2>1. PICK s, d, new : Turn(s, d, new)
      BY <1>1, TurnFacts
    <2>2. StepPaths(s) \subseteq radius
      BY <2>1 DEF Turn
    <2>3. \A n \in 1 .. Len(plan') : StepPaths(plan'[n]) \subseteq radius'
      BY <2>1 DEF Turn
    <2>4. \A n \in 1 .. Len(changes') :
             changes'[n].op # "read" => changes'[n].path \in radius'
      <3> TAKE n \in 1 .. Len(changes')
      <3>2. CASE n <= Len(changes)
        BY <2>1, <3>2 DEF Turn
      <3>3. CASE n > Len(changes)
        <4>1. /\ n - Len(changes) \in 1 .. Len(new)
              /\ (n - Len(changes)) + Len(changes) = n
          BY <2>1, <3>3 DEF Turn
        <4> QED
          BY <2>1, <2>2, <4>1 DEF Turn
      <3> QED
        BY <2>1, <3>2, <3>3 DEF Turn
    <2>5. NothingInside => NothingInside'
      <3> SUFFICES ASSUME NothingInside PROVE NothingInside'
        OBVIOUS
      <3>1. \A n \in 1 .. Len(plan') : StepWrites(plan'[n]) \cap Inside = {}
        BY <2>1 DEF Turn, NothingInside
      <3>2. StepWrites(s) \cap Inside = {}
        BY <2>1 DEF Turn, NothingInside
      <3>3. ASSUME NEW n \in 1 .. Len(changes'), changes'[n].op = "write"
            PROVE  changes'[n].path \notin Inside
        <4>1. CASE n <= Len(changes)
          BY <2>1, <3>3, <4>1 DEF Turn, NothingInside
        <4>2. CASE n > Len(changes)
          <5>1. /\ n - Len(changes) \in 1 .. Len(new)
                /\ (n - Len(changes)) + Len(changes) = n
            BY <2>1, <4>2 DEF Turn
          <5>2. changes'[n].path \in StepPaths(s) /\ s.op # "delete"
            BY <2>1, <3>3, <5>1 DEF Turn
          <5> QED
            BY <3>2, <5>2 DEF StepWrites
        <4> QED
          BY <2>1, <4>1, <4>2 DEF Turn
      <3> QED
        BY <3>1, <3>3 DEF NothingInside
    <2> QED
      BY <2>1, <2>3, <2>4, <2>5 DEF Turn, FailedLeavesNothing
  <1>2. CASE RenderStart \/ RenderChange \/ Cancel \/ Executed \/ Ended \/ UNCHANGED planVars
    <2>1. /\ UNCHANGED <<disk, plan, changes, radius, snap, edited>>
          /\ \/ phase' = phase
             \/ phase' = "rendering" /\ phase = "planning"
             \/ phase' \in {"cancelled", "executed"}
      BY <1>2 DEF RenderStart, RenderChange, Cancel, Executed, Ended, planVars,
                  history
    <2> QED
      BY <2>1 DEF FailedLeavesNothing, NothingInside
  <1>3. CASE Approve
    <2>1. /\ UNCHANGED <<disk, plan, changes, radius, edited>>
          /\ phase = "rendering" /\ phase' = "applying" /\ snap' = disk
      BY <1>3 DEF Approve, history
    <2> QED
      BY <2>1 DEF FailedLeavesNothing, NothingInside
  <1>4. CASE Apply
    <2>1. /\ UNCHANGED <<plan, changes, radius, snap, edited, phase>>
          /\ CanApply(changes[i]) /\ disk' = Applied(changes[i])
          /\ i \in 1 .. Len(changes) /\ phase = "applying"
      BY <1>4 DEF Apply, history, PlanTypes
    <2>2. PICK c : c = changes[i]
      OBVIOUS
    <2>3. WellFormed(c) /\ (c.op # "read" => c.path \in radius)
      BY <2>1, <2>2 DEF PlanTypes
    <2>4. IsDisk(disk) /\ Possible(disk)
      BY <2>1 DEF PlanTypes
    <2>5. \A p \in Paths : disk'[p] = Result(c, p, disk[p])
      BY <2>1, <2>2, <2>3, <2>4, AppliedFacts
    <2>6. \A p \in Paths \ (edited \cup radius) : disk'[p] = snap[p]
      <3> TAKE p \in Paths \ (edited \cup radius)
      <3> DEFINE X == radius \cap Paths
      <3>1. /\ X \in SUBSET Paths /\ p \in Paths \ X
            /\ (c.op # "read" => c.path \in X) /\ (Dir \in X => Inside \subseteq X)
        BY <2>3, PlanConstants DEF WellFormed, Paths
      <3>2. disk[p] = snap[p] /\ IsEntry(disk[p])
        BY <2>1, <2>4 DEF IsDisk
      <3>3. p = Dir => disk[p].here \/ (c.op = "write" => c.path \notin Inside)
        BY <2>1, <2>2, <3>2 DEF NothingInside
      <3> HIDE DEF X
      <3>4. Result(c, p, disk[p]) = disk[p]
        BY <2>3, <3>1, <3>2, <3>3, AppliedWithin
      <3> QED
        BY <2>5, <3>2, <3>4
    <2> QED
      BY <2>1, <2>6 DEF FailedLeavesNothing, NothingInside
  <1>5. CASE Fail
    <2>1. /\ UNCHANGED <<plan, changes, radius, snap, edited>>
          /\ phase' = "failed" /\ phase = "applying"
          /\ disk' = [p \in Paths |-> IF p \in radius THEN snap[p] ELSE disk[p]]
      BY <1>5 DEF Fail, history
    <2>2. \A p \in Paths \ edited : disk'[p] = snap[p]
      BY <2>1
    <2> QED
      BY <2>1, <2>2 DEF FailedLeavesNothing
  <1>6. ASSUME NEW p \in Files, NEW x \in Items, Edit(p, x)
        PROVE  RadiusInv'
    <2>1. /\ UNCHANGED <<plan, changes, radius, snap, phase>>
          /\ phase \in {"planning", "rendering", "applying"}
          /\ edited' = IF phase = "planning" THEN edited ELSE edited \cup {p}
      BY <1>6 DEF Edit
    <2>2. \A q \in Paths \ {p} : disk'[q] = disk[q]
      BY <1>6, <2>1, EditFacts DEF PlanTypes
    <2>3. Dir \in Paths \ {p}
      BY PlanConstants DEF Paths
    <2> QED
      BY <2>1, <2>2, <2>3 DEF FailedLeavesNothing, NothingInside
  <1> QED
    BY <1>1, <1>2, <1>3, <1>4, <1>5, <1>6 DEF PlanNext

(* The first state: Blast::compute has declared the radius.                *)
LEMMA PlanTypesInit == PlanInit => PlanTypes /\ RadiusInv /\ BlindInv
  <1> SUFFICES ASSUME PlanInit PROVE PlanTypes /\ RadiusInv /\ BlindInv
    OBVIOUS
  <1>1. /\ disk \in [Paths -> Entry] /\ Possible(disk)
        /\ plan \in Seq(PlannedStep)
        /\ changes = <<>> /\ phase = "planning" /\ i = 1
        /\ radius = Radius(plan, disk) /\ edited = {} /\ blind = {}
    BY PlanConstants DEF PlanInit
  <1>2. changes \in Seq({}) /\ Len(changes) = 0
    BY <1>1
  <1>3. IsDisk(disk)
    BY <1>1 DEF IsDisk, IsMap, IsEntry, Entry
  <1>4. PlanTypes
    BY <1>1, <1>2, <1>3 DEF PlanTypes
  <1> DEFINE P == UNION {StepPaths(s) : s \in Range(plan)}
             W == UNION {StepWrites(s) : s \in Range(plan)}
             Q == IF W \cap Inside # {} /\ ~disk[Dir].here THEN P \cup {Dir} ELSE P
  <1>5. radius = IF Dir \in Q THEN Q \cup Inside ELSE Q
    BY <1>1 DEF Radius
  <1>6. /\ \A n \in 1 .. Len(plan) : StepPaths(plan[n]) \subseteq P
        /\ \A n \in 1 .. Len(plan) : StepWrites(plan[n]) \subseteq W
    <2>1. \A n \in 1 .. Len(plan) : plan[n] \in Range(plan)
      BY <1>1 DEF Range
    <2> QED
      BY <2>1
  <1> HIDE DEF P, W
  <1>7. /\ P \subseteq radius /\ (Dir \in radius => Inside \subseteq radius)
        /\ Dir \in radius \/ disk[Dir].here \/ W \cap Inside = {}
    BY <1>5, PlanConstants
  <1>8. Dir \in radius \/ disk[Dir].here \/ NothingInside
    BY <1>2, <1>6, <1>7 DEF NothingInside
  <1>9. RadiusInv
    BY <1>1, <1>2, <1>6, <1>7, <1>8 DEF RadiusInv, FailedLeavesNothing
  <1>10. BlindInv
    BY <1>2 DEF BlindInv
  <1> QED
    BY <1>4, <1>9, <1>10

(* The history "blind" misses no file.                                     *)
LEMMA BlindStep == PlanTypes /\ BlindInv /\ [PlanNext]_planVars => BlindInv'
  <1> SUFFICES ASSUME PlanTypes, BlindInv, [PlanNext]_planVars PROVE BlindInv'
    OBVIOUS
  <1>1. CASE PlanStep
    <2>1. PICK s, d, new : Turn(s, d, new)
      BY <1>1, TurnFacts
    <2>2. PICK cs : cs = changes'
      OBVIOUS
    <2> DEFINE L == Len(changes)
    <2>3. /\ Len(cs) = L + Len(new) /\ L \in Nat /\ Len(new) \in Nat
          /\ \A m \in 1 .. L : cs[m] = changes[m]
          /\ \A m \in 1 .. Len(new) : cs[m + L] = new[m] /\ WellFormed(new[m])
          /\ Len(new) = 1 \/ \A n \in 1 .. Len(new) : new[n].op = "write"
          /\ DOMAIN changes = 1 .. L /\ DOMAIN new = 1 .. Len(new)
          /\ blind' = blind \cup Blinded(changes, new)
      BY <2>1, <2>2 DEF Turn
    <2> SUFFICES ASSUME NEW n \in 1 .. Len(cs), cs[n].op \in {"write", "patch"},
                        Forgotten(cs, n - 1, cs[n].path)
                 PROVE  cs[n].path \in blind'
      BY <2>2 DEF BlindInv
    <2>4. PICK p : p = cs[n].path
      OBVIOUS
    <2>5. PICK m \in 1 .. (n - 1) :
             Ignored(cs[m], p) /\ \A l \in (m + 1) .. (n - 1) : ~Touches(cs[l], p)
      BY <2>4 DEF Forgotten
    <2> HIDE DEF L
    <2>6. CASE n <= L
      <3>1. n \in 1 .. L /\ n - 1 <= L
        BY <2>3, <2>6
      <3>2. Forgotten(changes, n - 1, p)
        <4>1. m \in 1 .. L /\ \A l \in (m + 1) .. (n - 1) : l \in 1 .. L
          BY <2>3, <3>1
        <4> QED
          BY <2>3, <2>5, <4>1 DEF Forgotten
      <3>3. changes[n] = cs[n]
        BY <2>3, <3>1
      <3> QED
        BY <2>3, <2>4, <3>1, <3>2, <3>3 DEF BlindInv, L
    <2>7. CASE n > L
      <3> DEFINE k == n - L
      <3>1. k \in 1 .. Len(new) /\ k + L = n
        BY <2>3, <2>7
      <3>2. cs[n] = new[k] /\ WellFormed(new[k])
        BY <2>3, <3>1
      <3>3. p \in Files
        BY <2>4, <3>2 DEF WellFormed
      <3>4. m <= L
        <4> SUFFICES ASSUME m > L PROVE FALSE
          BY <2>3
        <4>1. /\ m - L \in 1 .. Len(new) /\ (m - L) + L = m /\ Len(new) # 1
          BY <2>3, <3>1
        <4>2. cs[m].op = "write"
          BY <2>3, <4>1
        <4> QED
          BY <2>5, <4>2 DEF Ignored
      <3>5. m \in DOMAIN changes /\ Ignored(changes[m], p)
        BY <2>3, <2>5, <3>4
      <3>6. \A l \in (m + 1) .. L : ~Touches(changes[l], p)
        <4> TAKE l \in (m + 1) .. L
        <4>1. l \in 1 .. L /\ l \in (m + 1) .. (n - 1)
          BY <2>3, <2>7
        <4> QED
          BY <2>3, <2>5, <4>1
      <3>7. new[k] \in Range(new)
        BY <2>3, <3>1 DEF Range
      <3>8. p \in Blinded(changes, new)
        BY <2>4, <3>2, <3>3, <3>5, <3>6, <3>7 DEF Blinded, L
      <3> QED
        BY <2>3, <2>4, <3>8
    <2> QED
      BY <2>3, <2>6, <2>7
  <1>2. CASE UNCHANGED <<changes, blind>>
    BY <1>2 DEF BlindInv
  <1>3. [PlanNext]_planVars => PlanStep \/ UNCHANGED <<changes, blind>>
    BY DEF PlanNext, RenderStart, RenderChange, Cancel, Approve, Apply, Executed,
           Fail, Ended, Edit, planVars, history
  <1> QED
    BY <1>1, <1>2, <1>3

(* While the diffs are made, what the reader takes a file to hold is what  *)
(* the overlay says, unless the last change there is one it ignores.       *)
OverlayInv ==
    phase = "rendering" =>
        /\ IsMap(shown) /\ IsMap(pending)
        /\ i <= Len(changes) + 1
        /\ \A p \in Files \ (edited \cup blind) :
              Forgotten(changes, i - 1, p)
                \/ shown[p].items = ReadWithPending(p, disk, pending)

(* A person who reads the diff of a change to a file that holds what the   *)
(* diff starts from expects what the diff ends with.                       *)
LEMMA FollowFacts == \A s, new : Follow(s, s, new) = new
  BY DEF Follow

(* What is shown for a path is what Result says, if the diff starts from   *)
(* what was shown before and the patch can be made.                        *)
LEMMA RenderedFacts ==
    ASSUME NEW c, WellFormed(c), IsMap(shown), NEW p \in Paths,
           c.op \in {"write", "patch"} /\ c.path = p =>
              shown[p].items = ReadWithPending(p, disk, pending),
           c.op = "patch" /\ c.path = p => c.old \in shown[p].items
    PROVE  ShownAfter(c)[p] = Result(c, p, shown[p])
  <1>0. Dir \in Paths /\ Dir \notin Files /\ \A q \in Files : q \in Paths
    BY PlanConstants DEF Paths
  <1>1. shown = [q \in Paths |-> shown[q]]
    BY DEF IsMap
  <1> DEFINE old == ReadWithPending(c.path, disk, pending)
             s == shown[c.path].items
  <1>2. CASE c.op = "write"
    <2>1. c.path \in Files /\ c.path \in Paths /\ c.path # Dir
      BY <1>0, <1>2 DEF WellFormed
    <2>2. ShownAfter(c) = [shown EXCEPT ![c.path] = File(Follow(s, old, c.items)),
                                        ![Dir].here = @ \/ c.path \in Inside]
      BY <1>2 DEF ShownAfter
    <2> DEFINE f == File(Follow(s, old, c.items))
               g == [shown[Dir] EXCEPT !.here = @ \/ c.path \in Inside]
    <2>3. ShownAfter(c) = [q \in Paths |-> IF q = Dir THEN g
                                           ELSE IF q = c.path THEN f ELSE shown[q]]
      BY <1>0, <1>1, <2>1, <2>2
    <2>4. p = c.path => f = File(c.items)
      BY <1>2, FollowFacts
    <2> QED
      BY <1>2, <2>1, <2>3, <2>4 DEF Result
  <1>3. CASE c.op = "patch" /\ c.old \in old
    <2>1. c.path \in Files /\ c.path \in Paths /\ c.path # Dir
      BY <1>0, <1>3 DEF WellFormed
    <2> DEFINE f == File(Follow(s, old, Patched(old, c.old, c.new)))
    <2>2. ShownAfter(c) = [shown EXCEPT ![c.path] = f]
      BY <1>3 DEF ShownAfter
    <2>3. ShownAfter(c)[p] = IF p = c.path THEN f ELSE shown[p]
      BY <1>1, <2>2
    <2>4. p = c.path => f = File(Patched(shown[p].items, c.old, c.new))
      BY <1>3, FollowFacts
    <2> QED
      BY <1>3, <2>1, <2>3, <2>4 DEF Result
  <1>4. CASE c.op = "patch" /\ c.old \notin old
    <2>1. ShownAfter(c) = shown /\ c.path # p
      BY <1>4 DEF ShownAfter
    <2> QED
      BY <1>4, <2>1 DEF Result
  <1>5. CASE c.op = "delete"
    BY <1>5 DEF ShownAfter, Result
  <1>6. CASE c.op = "mkdir"
    <2> DEFINE g == [shown[Dir] EXCEPT !.here = TRUE]
    <2>1. ShownAfter(c) = [shown EXCEPT ![Dir].here = TRUE]
      BY <1>6 DEF ShownAfter
    <2>2. ShownAfter(c)[p] = IF p = Dir THEN g ELSE shown[p]
      BY <1>0, <1>1, <2>1
    <2> QED
      BY <1>6, <2>2 DEF Result
  <1>7. CASE c.op = "read"
    BY <1>7 DEF ShownAfter, Result
  <1> QED
    BY <1>2, <1>3, <1>4, <1>5, <1>6, <1>7 DEF WellFormed

(* What is shown stays a map.                                              *)
LEMMA ShownMap ==
    ASSUME NEW c, WellFormed(c), IsMap(shown)
    PROVE  IsMap(ShownAfter(c))
  <1>1. shown = [q \in Paths |-> shown[q]]
    BY DEF IsMap
  <1>2. CASE c.op = "write"
    BY <1>1, <1>2 DEF ShownAfter, IsMap
  <1>3. CASE c.op = "patch"
    BY <1>1, <1>3 DEF ShownAfter, IsMap
  <1>5. CASE c.op = "delete"
    BY <1>5 DEF ShownAfter, IsMap
  <1>6. CASE c.op = "mkdir"
    BY <1>1, <1>6 DEF ShownAfter, IsMap
  <1>7. CASE c.op = "read"
    BY <1>1, <1>7 DEF ShownAfter, IsMap
  <1> QED
    BY <1>2, <1>3, <1>5, <1>6, <1>7 DEF WellFormed

(* PendingChanges::apply.                                                  *)
LEMMA PendingFacts ==
    ASSUME NEW c, WellFormed(c), NEW o, IsMap(o)
    PROVE  /\ IsMap(PendingApply(o, c))
           /\ c.op = "write" => PendingApply(o, c)[c.path] = Known(c.items)
           /\ c.op = "delete" => PendingApply(o, c)[c.path] = Known({})
           /\ \A p \in Files : ~Touches(c, p) \/ Ignored(c, p) =>
                 PendingApply(o, c)[p] = o[p]
  <1>1. o = [q \in Paths |-> o[q]]
    BY DEF IsMap
  <1>2. c.path \in Paths /\ Dir \notin Files /\ \A q \in Files : q \in Paths
    BY PlanConstants DEF WellFormed, Paths
  <1>3. CASE c.op = "write"
    BY <1>1, <1>2, <1>3 DEF PendingApply, IsMap, Touches, Ignored
  <1>4. CASE c.op = "delete"
    BY <1>1, <1>2, <1>4 DEF PendingApply, IsMap, Touches, Ignored
  <1>5. CASE c.op \notin {"write", "delete"}
    BY <1>5 DEF PendingApply
  <1> QED
    BY <1>3, <1>4, <1>5

(* A change is rendered: the next one of the list, which sees every file   *)
(* it changes unless the file is in "blind".                               *)
LEMMA RenderFacts ==
    ASSUME PlanTypes, BlindInv, OverlayInv, RenderChange
    PROVE  /\ i \in 1 .. Len(changes) /\ WellFormed(changes[i])
           /\ IsMap(shown) /\ IsMap(pending)
           /\ \A p \in Files \ (edited \cup blind) :
                 changes[i].op \in {"write", "patch"} /\ changes[i].path = p =>
                    shown[p].items = ReadWithPending(p, disk, pending)
           /\ shown' = ShownAfter(changes[i])
           /\ pending' = PendingApply(pending, changes[i]) /\ i' = i + 1
           /\ phase = "rendering"
           /\ UNCHANGED <<disk, plan, changes, phase, edited, blind>>
  <1>1. /\ i \in 1 .. Len(changes) /\ phase = "rendering"
        /\ shown' = ShownAfter(changes[i])
        /\ pending' = PendingApply(pending, changes[i]) /\ i' = i + 1
        /\ UNCHANGED <<disk, plan, changes, phase, edited, blind>>
    BY DEF RenderChange, PlanTypes, history
  <1> QED
    BY <1>1 DEF PlanTypes, BlindInv, OverlayInv

(* The renderer's overlay and its reader agree after every change.         *)
LEMMA OverlayStep ==
    PlanTypes /\ BlindInv /\ OverlayInv /\ [PlanNext]_planVars => OverlayInv'
  <1> SUFFICES ASSUME PlanTypes, BlindInv, OverlayInv, [PlanNext]_planVars
               PROVE  OverlayInv'
    OBVIOUS
  <1>1. CASE RenderStart
    <2>1. /\ i' = 1 /\ pending' = Nothing /\ shown' = disk /\ phase = "planning"
          /\ UNCHANGED <<disk, changes, edited, blind>>
      BY <1>1 DEF RenderStart, history
    <2>2. IsMap(disk) /\ IsMap(Nothing) /\ Len(changes) \in Nat
      BY <2>1 DEF PlanTypes, IsDisk, IsMap, Nothing
    <2>3. \A p \in Files : ReadWithPending(p, disk, Nothing) = disk[p].items
      BY DEF ReadWithPending, Nothing, Unknown, Paths
    <2> QED
      BY <2>1, <2>2, <2>3 DEF OverlayInv
  <1>2. CASE RenderChange
    <2>1. PICK c, cs, o, v : c = changes[i] /\ cs = changes /\ o = pending' /\ v = shown'
      OBVIOUS
    <2>2. /\ i \in 1 .. Len(cs) /\ c = cs[i] /\ WellFormed(c) /\ Len(cs) \in Nat
          /\ IsMap(shown) /\ IsMap(pending)
          /\ \A p \in Files \ (edited \cup blind) :
                c.op \in {"write", "patch"} /\ c.path = p =>
                   shown[p].items = ReadWithPending(p, disk, pending)
          /\ v = ShownAfter(c) /\ o = PendingApply(pending, c) /\ i' = i + 1
          /\ phase = "rendering"
          /\ UNCHANGED <<disk, changes, phase, edited, blind>>
      BY <1>2, <2>1, RenderFacts DEF PlanTypes
    <2>3. IsMap(v) /\ IsMap(o)
      BY <2>2, ShownMap, PendingFacts
    <2>4. ASSUME NEW p \in Files \ (edited \cup blind), ~Forgotten(cs, i, p)
          PROVE  v[p].items = ReadWithPending(p, disk, o)
      <3>0. p \in Paths /\ p # Dir
        BY PlanConstants DEF Paths
      <3>1. ~Ignored(c, p)
        BY <2>2, <2>4 DEF Forgotten
      <3>2. CASE Touches(c, p)
        <4>1. c.op \in {"write", "delete"} /\ c.path = p
          BY <3>1, <3>2 DEF Touches, Ignored
        <4>2. v[p] = Result(c, p, shown[p])
          BY <2>2, <3>0, <4>1, RenderedFacts
        <4>3. CASE c.op = "write"
          <5>1. o[p] = Known(c.items) /\ v[p] = File(c.items)
            BY <2>2, <4>1, <4>2, <4>3, PendingFacts DEF Result
          <5> QED
            BY <5>1 DEF Known, File, ReadWithPending
        <4>4. CASE c.op = "delete"
          <5>1. o[p] = Known({}) /\ v[p] = Absent
            BY <2>2, <4>1, <4>2, <4>4, PendingFacts DEF Result
          <5> QED
            BY <5>1 DEF Known, Absent, ReadWithPending
        <4> QED
          BY <4>1, <4>3, <4>4
      <3>3. CASE ~Touches(c, p)
        <4>1. o[p] = pending[p]
          BY <2>2, <3>3, PendingFacts
        <4>2. ~(c.op \in {"write", "patch"} /\ c.path = p)
          BY <3>3 DEF Touches
        <4>3. v[p] = Result(c, p, shown[p])
          BY <2>2, <3>0, <4>2, RenderedFacts
        <4>4. v[p] = shown[p]
          BY <3>0, <3>3, <4>3 DEF Result, Touches, Ignored
        <4>5. ~Forgotten(cs, i - 1, p)
          <5> SUFFICES ASSUME Forgotten(cs, i - 1, p) PROVE FALSE
            OBVIOUS
          <5>1. PICK m \in 1 .. (i - 1) :
                   Ignored(cs[m], p) /\ \A l \in (m + 1) .. (i - 1) : ~Touches(cs[l], p)
            BY DEF Forgotten
          <5>2. m \in 1 .. i /\ \A l \in (m + 1) .. i : l = i \/ l \in (m + 1) .. (i - 1)
            BY <2>2
          <5> QED
            BY <2>2, <2>4, <3>3, <5>1, <5>2 DEF Forgotten
        <4> QED
          BY <2>1, <2>2, <4>1, <4>4, <4>5 DEF OverlayInv, ReadWithPending
      <3> QED
        BY <3>2, <3>3
    <2>5. /\ i' <= Len(changes') + 1 /\ i' - 1 = i /\ changes' = cs /\ disk' = disk
          /\ edited' = edited /\ blind' = blind /\ pending' = o /\ shown' = v
      BY <2>1, <2>2
    <2> QED
      BY <2>3, <2>4, <2>5 DEF OverlayInv
  <1>3. ASSUME NEW p \in Files, NEW x \in Items, Edit(p, x)
        PROVE  OverlayInv'
    <2>1. /\ UNCHANGED <<pending, changes, i, shown, blind, phase>>
          /\ phase # "planning" => edited' = edited \cup {p}
          /\ phase # "failed"
      BY <1>3 DEF Edit
    <2>2. \A q \in Paths \ {p} : disk'[q] = disk[q]
      BY <1>3, <2>1, EditFacts DEF PlanTypes
    <2>3. \A q \in Files : q \in Paths
      BY DEF Paths
    <2> QED
      BY <2>1, <2>2, <2>3 DEF OverlayInv, ReadWithPending
  <1>4. CASE phase' # "rendering" \/ UNCHANGED planVars
    BY <1>4 DEF OverlayInv, planVars, ReadWithPending
  <1>5. \/ RenderStart \/ RenderChange \/ phase' # "rendering" \/ UNCHANGED planVars
        \/ \E p \in Files, x \in Items : Edit(p, x)
    BY DEF PlanNext, PlanStep, Cancel, Approve, Apply, Executed, Fail, Ended
  <1> QED
    BY <1>1, <1>2, <1>3, <1>4, <1>5

(* Some behaviour R leads from the disk the diffs start from to what is    *)
(* shown, change by change, and what is on the disk later is on its way.   *)
Leads(R, cs, n, X) ==
    \A m \in 1 .. n, p \in Paths \ X :
        (cs[m].op = "patch" /\ cs[m].path = p => cs[m].old \in R[m - 1][p].items)
          => R[m][p] = Result(cs[m], p, R[m - 1][p])
Rendered(R) ==
    /\ Leads(R, changes, i - 1, edited \cup blind)
    /\ R[i - 1] = shown
    /\ \A p \in Paths \ edited : R[0][p] = disk[p]
Followed(R) ==
    /\ Leads(R, changes, Len(changes), edited \cup blind)
    /\ R[Len(changes)] = shown
    /\ \A p \in Paths \ (edited \cup blind) : R[i - 1][p] = disk[p]
TraceInv ==
    /\ phase = "rendering" => \E R : Rendered(R)
    /\ phase = "applying" => i <= Len(changes) + 1 /\ \E R : Followed(R)
    /\ PreviewIsResult

(* The diffs lead to what is shown, and the disk follows them.             *)
LEMMA TraceStep ==
    PlanTypes /\ BlindInv /\ OverlayInv /\ TraceInv /\ [PlanNext]_planVars
      => TraceInv'
  <1> SUFFICES ASSUME PlanTypes, BlindInv, OverlayInv, TraceInv, [PlanNext]_planVars
               PROVE  TraceInv'
    OBVIOUS
  <1>1. CASE RenderStart
    <2>1. /\ i' = 1 /\ shown' = disk /\ phase' = "rendering"
          /\ UNCHANGED <<disk, changes, edited, blind>>
      BY <1>1 DEF RenderStart, history
    <2>2. PICK R : R = [n \in {0} |-> disk]
      OBVIOUS
    <2>3. R[0] = disk /\ i' - 1 = 0 /\ 1 .. 0 = {}
      BY <2>1, <2>2
    <2>4. Rendered(R)'
      BY <2>1, <2>3 DEF Rendered, Leads
    <2> QED
      BY <2>1, <2>4 DEF TraceInv, PreviewIsResult
  <1>2. CASE RenderChange
    <2>1. PICK c, cs, v : c = changes[i] /\ cs = changes /\ v = shown'
      OBVIOUS
    <2>2. /\ i \in 1 .. Len(cs) /\ c = cs[i] /\ WellFormed(c) /\ Len(cs) \in Nat
          /\ IsMap(shown)
          /\ \A p \in Files \ (edited \cup blind) :
                c.op \in {"write", "patch"} /\ c.path = p =>
                   shown[p].items = ReadWithPending(p, disk, pending)
          /\ v = ShownAfter(c) /\ i' = i + 1
          /\ phase = "rendering"
          /\ UNCHANGED <<disk, changes, phase, edited, blind>>
      BY <1>2, <2>1, RenderFacts DEF PlanTypes
    <2>3. PICK R : Rendered(R)
      BY <2>2 DEF TraceInv
    <2>4. PICK T : T = [n \in 0 .. i |-> IF n = i THEN v ELSE R[n]]
      OBVIOUS
    <2>5. T[i] = v /\ \A n \in 0 .. (i - 1) : T[n] = R[n]
      BY <2>2, <2>4
    <2>6. ASSUME NEW p \in Paths \ (edited \cup blind),
                 c.op = "patch" /\ c.path = p => c.old \in shown[p].items
          PROVE  v[p] = Result(c, p, shown[p])
      <3>1. c.op \in {"write", "patch"} /\ c.path = p => p \in Files
        BY <2>2 DEF WellFormed
      <3> QED
        BY <2>2, <2>6, <3>1, RenderedFacts
    <2>7. Leads(T, cs, i, edited \cup blind)
      <3> SUFFICES ASSUME NEW m \in 1 .. i, NEW p \in Paths \ (edited \cup blind),
                          cs[m].op = "patch" /\ cs[m].path = p =>
                             cs[m].old \in T[m - 1][p].items
                   PROVE  T[m][p] = Result(cs[m], p, T[m - 1][p])
        BY DEF Leads
      <3>1. CASE m = i
        <4>1. T[m - 1] = shown /\ T[m] = v
          BY <2>2, <2>3, <2>5, <3>1 DEF Rendered
        <4> QED
          BY <2>2, <2>6, <3>1, <4>1
      <3>2. CASE m # i
        <4>1. m \in 1 .. (i - 1) /\ m - 1 \in 0 .. (i - 1) /\ m \in 0 .. (i - 1)
          BY <2>2, <3>2
        <4> QED
          BY <2>1, <2>3, <2>5, <4>1 DEF Rendered, Leads
      <3> QED
        BY <3>1, <3>2
    <2>8. \A p \in Paths \ edited : T[0][p] = disk[p]
      BY <2>2, <2>3, <2>5 DEF Rendered
    <2>9. /\ i' - 1 = i /\ changes' = cs /\ disk' = disk /\ phase' = "rendering"
          /\ edited' = edited /\ blind' = blind /\ shown' = v
      BY <2>1, <2>2
    <2>10. Rendered(T)'
      BY <2>5, <2>7, <2>8, <2>9 DEF Rendered
    <2> QED
      BY <2>9, <2>10 DEF TraceInv, PreviewIsResult
  <1>3. CASE Approve
    <2>1. /\ phase = "rendering" /\ i > Len(changes) /\ phase' = "applying" /\ i' = 1
          /\ UNCHANGED <<disk, changes, shown, edited, blind>>
      BY <1>3 DEF Approve, history
    <2>2. Len(changes) \in Nat /\ i \in Nat /\ i <= Len(changes) + 1
      BY <2>1 DEF PlanTypes, OverlayInv
    <2>3. i - 1 = Len(changes) /\ i' - 1 = 0 /\ i' <= Len(changes) + 1
      BY <2>1, <2>2
    <2>4. PICK R : Rendered(R)
      BY <2>1 DEF TraceInv
    <2>5. Followed(R)'
      BY <2>1, <2>3, <2>4 DEF Rendered, Followed
    <2> QED
      BY <2>1, <2>3, <2>5 DEF TraceInv, PreviewIsResult
  <1>4. CASE Apply
    <2>1. /\ UNCHANGED <<changes, shown, edited, blind, phase>>
          /\ CanApply(changes[i]) /\ disk' = Applied(changes[i])
          /\ i \in 1 .. Len(changes) /\ phase = "applying" /\ i' = i + 1
      BY <1>4 DEF Apply, history, PlanTypes
    <2>2. PICK c : c = changes[i]
      OBVIOUS
    <2>3. WellFormed(c) /\ IsDisk(disk) /\ Possible(disk) /\ Len(changes) \in Nat
      BY <2>1, <2>2 DEF PlanTypes
    <2>4. /\ \A p \in Paths : disk'[p] = Result(c, p, disk[p])
          /\ c.op = "patch" => c.old \in disk[c.path].items
      BY <2>1, <2>2, <2>3, AppliedFacts
    <2>5. PICK R : Followed(R)
      BY <2>1 DEF TraceInv
    <2>6. ASSUME NEW p \in Paths \ (edited \cup blind)
          PROVE  R[i][p] = disk'[p]
      <3>1. R[i - 1][p] = disk[p]
        BY <2>5 DEF Followed
      <3>2. R[i][p] = Result(c, p, R[i - 1][p])
        BY <2>1, <2>2, <2>4, <2>5, <3>1 DEF Followed, Leads
      <3> QED
        BY <2>4, <3>1, <3>2
    <2>7. i' - 1 = i /\ i' <= Len(changes) + 1
      BY <2>1, <2>3
    <2>8. Followed(R)'
      BY <2>1, <2>5, <2>6, <2>7 DEF Followed
    <2> QED
      BY <2>1, <2>7, <2>8 DEF TraceInv, PreviewIsResult
  <1>5. CASE Executed
    <2>1. /\ phase = "applying" /\ i > Len(changes) /\ phase' = "executed"
          /\ UNCHANGED <<disk, shown, edited, blind>>
      BY <1>5 DEF Executed, history
    <2>2. i - 1 = Len(changes)
      BY <2>1 DEF PlanTypes, TraceInv
    <2>3. PICK R : Followed(R)
      BY <2>1 DEF TraceInv
    <2>4. \A p \in Paths \ (edited \cup blind) : disk[p] = shown[p]
      BY <2>2, <2>3 DEF Followed
    <2> QED
      BY <2>1, <2>4 DEF TraceInv, PreviewIsResult
  <1>6. ASSUME NEW p \in Files, NEW x \in Items, Edit(p, x)
        PROVE  TraceInv'
    <2>1. /\ UNCHANGED <<changes, i, shown, blind, phase>>
          /\ phase # "planning" => edited' = edited \cup {p}
          /\ phase \in {"planning", "rendering", "applying"}
      BY <1>6 DEF Edit
    <2>2. \A q \in Paths \ {p} : disk'[q] = disk[q]
      BY <1>6, <2>1, EditFacts DEF PlanTypes
    <2>3. ASSUME NEW R, Rendered(R), phase = "rendering"
          PROVE  Rendered(R)'
      BY <2>1, <2>2, <2>3 DEF Rendered, Leads
    <2>4. ASSUME NEW R, Followed(R), phase = "applying"
          PROVE  Followed(R)'
      BY <2>1, <2>2, <2>4 DEF Followed, Leads
    <2> QED
      BY <2>1, <2>3, <2>4 DEF TraceInv, PreviewIsResult
  <1>7. CASE PlanStep \/ Cancel \/ Fail
    <2>1. phase' \in {"planning", "cancelled", "failed"}
      BY <1>7 DEF PlanStep, Cancel, Fail
    <2> QED
      BY <2>1 DEF TraceInv, PreviewIsResult
  <1>8. CASE Ended \/ UNCHANGED planVars
    BY <1>8 DEF TraceInv, Rendered, Followed, PreviewIsResult, Ended, planVars
  <1> QED
    BY <1>1, <1>2, <1>3, <1>4, <1>5, <1>6, <1>7, <1>8 DEF PlanNext

(* Nothing is shown or applied at the start.                               *)
LEMMA PlanInitInv == PlanInit => OverlayInv /\ TraceInv
  BY DEF PlanInit, OverlayInv, TraceInv, PreviewIsResult

(* "failed midway and reverted to previous state": for every plan, disk    *)
(* and editor, a change that is refused leaves nothing of those before it. *)
THEOREM FailCorrect == PlanSpec => []FailedLeavesNothing
  <1>1. PlanTypes /\ RadiusInv /\ [PlanNext]_planVars => (PlanTypes /\ RadiusInv)'
    BY PlanTypesStep, RadiusStep
  <1>2. RadiusInv => FailedLeavesNothing
    BY DEF RadiusInv
  <1> QED
    BY <1>1, <1>2, PlanTypesInit, PTL DEF PlanSpec

(* What you see is what happens: for every plan, disk and editor, a plan   *)
(* that was executed left at every path what its diffs announced, but      *)
(* where a file was edited since or a step could not see another one.      *)
THEOREM PreviewCorrect == PlanSpec => []PreviewIsResult
  <1> DEFINE Inv == PlanTypes /\ BlindInv /\ OverlayInv /\ TraceInv
  <1>1. Inv /\ [PlanNext]_planVars => Inv'
    BY PlanTypesStep, BlindStep, OverlayStep, TraceStep
  <1>2. PlanInit => Inv
    BY PlanTypesInit, PlanInitInv
  <1>3. Inv => PreviewIsResult
    BY DEF TraceInv
  <1> QED
    BY <1>1, <1>2, <1>3, PTL DEF PlanSpec
=============================================================================
