--------------------------- MODULE SpinLockProofs ---------------------------
(***************************************************************************)
(* Proofs about SpinLock, for every set of threads and locks and any depth *)
(* of nesting: no context ever spins, interrupts come back exactly where   *)
(* they were on, and the lock implements Mutex.                            *)
(*                                                                         *)
(* The invariant says where the processor can be.  Whoever does not run    *)
(* holds no guard and is in no system call (Idle), because interrupts are  *)
(* off in both; the one that runs has interrupts off in all steps of       *)
(* lock() and drop() after the flag was cleared, knows in restore what the *)
(* flag was outside, and its guards are the locks that are taken.          *)
(***************************************************************************)
EXTENDS SpinLock, SequenceTheorems, TLAPS

Guard == [lock : Locks, restore : BOOLEAN]
Steps == {"run", "saved", "masked", "released", "trying", "printing", "halted"}

TypeInv ==
    /\ locked \in [Locks -> BOOLEAN] /\ ie \in BOOLEAN
    /\ cur \in Threads /\ inIsr \in BOOLEAN
    /\ guards \in [Contexts -> Seq(Guard)]
    /\ step \in [Contexts -> Steps]
    /\ want \in [Contexts -> Locks]
    /\ keep \in [Contexts -> BOOLEAN]
    /\ calling \subseteq Callers

(* Whoever does not run was interrupted outside every guard and call, at   *)
(* most between reading the flag and clearing it.                          *)
Idle ==
    \A c \in Contexts : c # running =>
        /\ Len(guards[c]) = 0 /\ c \notin calling
        /\ step[c] \in {"run", "saved"}
        /\ c = Isr => step[c] = "run"
        /\ step[c] = "saved" => keep[c]

(* Interrupts are on at the outermost level of the context that runs.      *)
Outer == ~inIsr /\ cur \notin calling
Open == Outer /\ Len(guards[running]) = 0

FlagInv ==
    LET c == running IN
    /\ step[c] \in {"run", "saved"} => (ie <=> Open)
    /\ step[c] \notin {"run", "saved"} => ~ie
    /\ step[c] \in {"saved", "masked"} => (keep[c] <=> Open)
    /\ step[c] \in {"run", "saved", "masked", "released"} =>
          \A i \in DOMAIN guards[c] :
              guards[c][i].restore <=> (Outer /\ i = 1)
    /\ step[c] = "printing" =>
          Len(guards[c]) # 0 /\ ~Innermost(c).restore /\ Innermost(c).lock = Console
    /\ step[c] = "released" => Len(guards[c]) # 0

(* Every guard of the stack stands for a lock of its own.                  *)
Distinct(c) ==
    \A i, j \in DOMAIN guards[c] :
        guards[c][i].lock = guards[c][j].lock => i = j

(* The locks taken are those of the guards of the context that runs, each  *)
(* once, but for one that has been given up and whose guard is falling.    *)
LockInv ==
    LET c == running IN
    /\ Distinct(c)
    /\ \A l \in Locks : locked[l] <=> Holds(c, l)
    /\ step[c] \in {"saved", "masked"} => want[c] \notin Held(c)

(* A thread of ring 3 takes no lock outside a call.                        *)
CallInv ==
    \A t \in Callers \ calling :
        /\ step[t] \notin {"saved", "masked", "released"}
        /\ step[t] = "run" => Len(guards[t]) = 0

IInv == TypeInv /\ Idle /\ FlagInv /\ LockInv /\ CallInv

-----------------------------------------------------------------------------
(* Lemmas.                                                                 *)

(* What taking a guard makes of the stack of guards.                       *)
LEMMA PushFacts ==
    ASSUME NEW s \in Seq(Guard), NEW e \in Guard
    PROVE  /\ Append(s, e) \in Seq(Guard)
           /\ Len(Append(s, e)) = Len(s) + 1
           /\ DOMAIN Append(s, e) = 1..(Len(s) + 1)
           /\ \A i \in 1..Len(s) : Append(s, e)[i] = s[i]
           /\ Append(s, e)[Len(s) + 1] = e
  OBVIOUS

(* What dropping the last one makes of it.                                 *)
LEMMA PopFacts ==
    ASSUME NEW s \in Seq(Guard), Len(s) # 0
    PROVE  /\ Len(s) \in Nat \ {0} /\ s[Len(s)] \in Guard
           /\ SubSeq(s, 1, Len(s) - 1) \in Seq(Guard)
           /\ Len(SubSeq(s, 1, Len(s) - 1)) = Len(s) - 1
           /\ DOMAIN SubSeq(s, 1, Len(s) - 1) = 1..(Len(s) - 1)
           /\ \A i \in 1..(Len(s) - 1) : SubSeq(s, 1, Len(s) - 1)[i] = s[i]
  <1>1. Len(s) \in Nat \ {0} /\ 1..Len(s) = DOMAIN s
    OBVIOUS
  <1>2. s[Len(s)] \in Guard
    BY <1>1
  <1> DEFINE n == Len(s) - 1
  <1>3. n \in Nat /\ 1 \in Int /\ n \in Int /\ n - 1 + 1 = n
    BY <1>1
  <1>4. \A i \in 1..n : s[i] \in Guard /\ 1 + i - 1 = i
    BY <1>1
  <1>5. (IF 1 <= n THEN n - 1 + 1 ELSE 0) = n
    BY <1>3
  <1> HIDE DEF n
  <1>6. /\ SubSeq(s, 1, n) \in Seq(Guard)
        /\ Len(SubSeq(s, 1, n)) = (IF 1 <= n THEN n - 1 + 1 ELSE 0)
        /\ \A i \in 1..(n - 1 + 1) : SubSeq(s, 1, n)[i] = s[1 + i - 1]
    <2>1. 1 \in Int /\ n \in Int /\ \A i \in 1..n : s[i] \in Guard
      BY <1>3, <1>4
    <2> QED BY ONLY <2>1, SubSeqProperties
  <1>7. DOMAIN SubSeq(s, 1, n) = 1..n
    BY <1>5, <1>6, LenProperties, Zenon
  <1>8. \A i \in 1..n : SubSeq(s, 1, n)[i] = s[i]
    BY <1>3, <1>4, <1>6, Zenon
  <1> QED BY <1>1, <1>2, <1>5, <1>6, <1>7, <1>8, Zenon DEF n

(* A stack of guards is empty when its length is zero.                     *)
LEMMA EmptyFacts ==
    ASSUME NEW s \in Seq(Guard)
    PROVE  (s = <<>>) <=> (Len(s) = 0)
  <1>1. (s # <<>>) => Len(s) \in Nat \ {0}
    BY EmptySeq, Zenon
  <1>2. (s = <<>>) => Len(s) = 0
    BY EmptySeq, Zenon
  <1>3. Len(s) \in Nat \ {0} => Len(s) # 0
    OBVIOUS
  <1> QED BY <1>1, <1>2, <1>3, Zenon

(* The context that runs is a context.                                     *)
LEMMA RunningFacts == TypeInv => running \in Contexts
  BY DEF TypeInv, running, Contexts

(* A step of the context that runs leaves the others as they were.         *)
LEMMA IdleStep ==
    ASSUME Idle, NEW c \in Contexts, running = c, UNCHANGED <<cur, inIsr>>,
           \A d \in Contexts \ {c} :
               /\ guards'[d] = guards[d] /\ step'[d] = step[d]
               /\ keep'[d] = keep[d],
           calling' \subseteq calling \cup {c}
    PROVE  Idle'
  BY DEF Idle, running

(* LockInit establishes the invariant.                                         *)
LEMMA InvInit == LockInit => IInv
  <1> SUFFICES ASSUME LockInit PROVE IInv
    OBVIOUS
  <1> USE SpinAssumption
  <1>1. TypeInv
    <2>1. <<>> \in Seq(Guard)
      OBVIOUS
    <2> QED BY <2>1 DEF LockInit, TypeInv, Threads, Contexts, Steps
  <1>2. Idle
    BY DEF LockInit, Idle
  <1>3. running \in Contexts /\ running = cur
    BY <1>1, RunningFacts DEF LockInit, running
  <1>4. FlagInv
    BY <1>3 DEF LockInit, FlagInv, Open, Outer
  <1>5. LockInv
    BY <1>3 DEF LockInit, LockInv, Distinct, Holds, Held
  <1>6. CallInv
    BY DEF LockInit, CallInv, Contexts, Threads
  <1> QED BY <1>1, <1>2, <1>4, <1>5, <1>6 DEF IInv

-----------------------------------------------------------------------------
(* The processor: the context that runs changes only with interrupts on,   *)
(* or at the end of the handler, and so outside every guard.               *)

(* What holds of a context that has no guard.                              *)
LEMMA NoGuard ==
    ASSUME TypeInv, NEW c \in Contexts, Len(guards[c]) = 0
    PROVE  DOMAIN guards[c] = {} /\ Held(c) = {} /\ \A l : ~Holds(c, l)
  <1>1. guards[c] \in Seq(Guard) /\ 1..0 = {}
    BY DEF TypeInv
  <1>2. DOMAIN guards[c] = {}
    BY <1>1
  <1> QED BY <1>2 DEF Held, Holds

(* An interrupt finds a thread outside every guard and call.               *)
LEMMA InterruptInv == IInv /\ Interrupt => IInv'
  <1> SUFFICES ASSUME IInv, Interrupt PROVE IInv'
    OBVIOUS
  <1> USE SpinAssumption DEF IInv
  <1>1. /\ running = cur /\ running' = Isr /\ cur \in Contexts
        /\ Isr \in Contexts /\ Isr # cur
    BY DEF Interrupt, running, TypeInv, Contexts
  <1>2. UNCHANGED <<locked, guards, step, want, keep, cur, calling>>
    BY DEF Interrupt, lockVars
  <1>3. /\ step[cur] \in {"run", "saved"} /\ Len(guards[cur]) = 0
        /\ cur \notin calling /\ (step[cur] = "saved" => keep[cur])
    BY <1>1 DEF Interrupt, FlagInv, Open, Outer, TypeInv
  <1>4. step[Isr] = "run" /\ Len(guards[Isr]) = 0
    BY <1>1 DEF Idle
  <1>5. TypeInv'
    BY <1>2 DEF Interrupt, TypeInv
  <1>6. Idle'
    BY <1>1, <1>2, <1>3 DEF Idle
  <1>7. DOMAIN guards[Isr] = {} /\ \A l : ~Holds(Isr, l) /\ ~Holds(cur, l)
    BY <1>1, <1>3, <1>4, NoGuard
  <1>8. FlagInv'
    BY <1>1, <1>2, <1>4, <1>7 DEF Interrupt, FlagInv, Open, Outer
  <1>9. \A l : Holds(Isr, l)' = Holds(Isr, l)
    BY <1>2 DEF Holds
  <1>10. LockInv'
    BY <1>1, <1>2, <1>4, <1>7, <1>9 DEF LockInv, Distinct
  <1>11. CallInv'
    BY <1>2 DEF CallInv
  <1> QED BY <1>5, <1>6, <1>8, <1>10, <1>11

(* The handler returns holding nothing, to a thread that held nothing.     *)
LEMMA ReturnInv == ASSUME NEW t \in Threads PROVE IInv /\ Return(t) => IInv'
  <1> SUFFICES ASSUME IInv, Return(t) PROVE IInv'
    OBVIOUS
  <1> USE SpinAssumption DEF IInv
  <1>1. /\ running = Isr /\ running' = t /\ t \in Contexts
        /\ Isr \in Contexts /\ Isr # t
    BY DEF Return, At, running, Contexts
  <1>2. UNCHANGED <<locked, guards, step, want, keep, calling>>
    BY DEF Return, lockVars
  <1>3. guards[Isr] = <<>> /\ guards[Isr] \in Seq(Guard) /\ step[Isr] = "run"
    BY <1>1 DEF Return, At, TypeInv
  <1>4. Len(guards[Isr]) = 0
    BY <1>3, EmptyFacts
  <1>5. /\ step[t] \in {"run", "saved"} /\ Len(guards[t]) = 0
        /\ t \notin calling /\ (step[t] = "saved" => keep[t])
    BY <1>1 DEF Idle
  <1>6. TypeInv'
    BY <1>2 DEF Return, TypeInv
  <1>7. Isr \notin calling
    BY DEF TypeInv, Threads
  <1>8. Idle'
    BY <1>1, <1>2, <1>3, <1>4, <1>7 DEF Idle
  <1>9. DOMAIN guards[t] = {} /\ Held(t) = {} /\ \A l : ~Holds(Isr, l) /\ ~Holds(t, l)
    BY <1>1, <1>4, <1>5, NoGuard
  <1>10. ~inIsr' /\ ie' /\ cur' = t
    BY DEF Return
  <1>11. FlagInv'
    BY <1>1, <1>2, <1>5, <1>9, <1>10 DEF FlagInv, Open, Outer, TypeInv
  <1>12. \A l : Holds(t, l)' = Holds(t, l) /\ Held(t)' = Held(t)
    BY <1>2 DEF Holds, Held
  <1>13. LockInv'
    BY <1>1, <1>2, <1>9, <1>12 DEF LockInv, Distinct
  <1>14. CallInv'
    BY <1>2 DEF CallInv
  <1> QED BY <1>6, <1>8, <1>11, <1>13, <1>14

(* The entry of a call finds the caller outside every guard.               *)
LEMMA SyscallInv == ASSUME NEW t \in Threads PROVE IInv /\ Syscall(t) => IInv'
  <1> SUFFICES ASSUME IInv, Syscall(t) PROVE IInv'
    OBVIOUS
  <1> USE SpinAssumption DEF IInv
  <1>1. /\ running = t /\ running' = t /\ t \in Contexts
        /\ step[t] = "run" /\ t \in Callers /\ t \notin calling
    BY DEF Syscall, At, running, Contexts
  <1>2. UNCHANGED <<locked, guards, step, want, keep, cur, inIsr>>
    BY DEF Syscall, lockVars
  <1>3. calling' = calling \cup {t} /\ ie' = FALSE
    BY DEF Syscall
  <1>4. TypeInv'
    BY <1>1, <1>2, <1>3 DEF TypeInv
  <1>5. Idle'
    BY <1>1, <1>2, <1>3, IdleStep
  <1>6. Len(guards[t]) = 0
    BY <1>1 DEF CallInv
  <1>7. DOMAIN guards[t] = {}
    BY <1>1, <1>6, NoGuard
  <1>8. ~Outer'
    BY <1>1, <1>2, <1>3 DEF Outer, running, Contexts
  <1>9. FlagInv'
    BY <1>1, <1>2, <1>3, <1>7, <1>8 DEF FlagInv, Open
  <1>10. \A l : Holds(t, l)' = Holds(t, l)
    BY <1>2 DEF Holds
  <1>11. LockInv'
    BY <1>1, <1>2, <1>10 DEF LockInv, Distinct
  <1>12. CallInv'
    BY <1>2, <1>3 DEF CallInv
  <1> QED BY <1>4, <1>5, <1>9, <1>11, <1>12

(* The return from a call brings back the flag of ring 3.                  *)
LEMMA SysretInv == ASSUME NEW t \in Threads PROVE IInv /\ Sysret(t) => IInv'
  <1> SUFFICES ASSUME IInv, Sysret(t) PROVE IInv'
    OBVIOUS
  <1> USE SpinAssumption DEF IInv
  <1>1. /\ running = t /\ running' = t /\ t \in Contexts
        /\ step[t] = "run" /\ t \in calling
    BY DEF Sysret, At, running, Contexts
  <1>2. UNCHANGED <<locked, guards, step, want, keep, cur, inIsr>>
    BY DEF Sysret, lockVars
  <1>3. calling' = calling \ {t} /\ ie' = TRUE
    BY DEF Sysret
  <1>4. TypeInv'
    BY <1>1, <1>2, <1>3 DEF TypeInv
  <1>5. Idle'
    BY <1>1, <1>2, <1>3, IdleStep
  <1>6. guards[t] = <<>> /\ guards[t] \in Seq(Guard)
    BY <1>1 DEF Sysret, TypeInv
  <1>7. Len(guards[t]) = 0
    BY <1>6, EmptyFacts
  <1>8. DOMAIN guards[t] = {}
    BY <1>1, <1>7, NoGuard
  <1>9. Outer'
    BY <1>1, <1>2, <1>3 DEF Outer, running, Contexts, Threads, TypeInv
  <1>10. FlagInv'
    BY <1>1, <1>2, <1>3, <1>7, <1>8, <1>9 DEF FlagInv, Open
  <1>11. \A l : Holds(t, l)' = Holds(t, l)
    BY <1>2 DEF Holds
  <1>12. LockInv'
    BY <1>1, <1>2, <1>11 DEF LockInv, Distinct
  <1>13. CallInv'
    BY <1>1, <1>2, <1>3, <1>7 DEF CallInv
  <1> QED BY <1>4, <1>5, <1>10, <1>12, <1>13

-----------------------------------------------------------------------------
(* lock() and drop().                                                      *)

(* The flag that is remembered is the one outside the lock.                *)
LEMMA SaveInv ==
    ASSUME NEW c \in Contexts, NEW l \in Locks PROVE IInv /\ Save(c, l) => IInv'
  <1> SUFFICES ASSUME IInv, Save(c, l) PROVE IInv'
    OBVIOUS
  <1> USE SpinAssumption DEF IInv
  <1>1. /\ running = c /\ running' = c /\ step[c] = "run"
        /\ l \notin Held(c) /\ (c \in Callers => c \in calling)
    BY DEF Save, At, running
  <1>2. /\ UNCHANGED <<locked, ie, guards, cur, inIsr, calling>>
        /\ \A d \in Contexts :
              /\ step'[d] = IF d = c THEN "saved" ELSE step[d]
              /\ want'[d] = IF d = c THEN l ELSE want[d]
              /\ keep'[d] = IF d = c THEN ie ELSE keep[d]
    BY DEF Save, Goto, TypeInv
  <1>3. TypeInv'
    BY DEF TypeInv, Save, Goto, Steps
  <1>4. Idle'
    BY <1>1, <1>2, IdleStep
  <1>5. FlagInv'
    BY <1>1, <1>2 DEF FlagInv, Open, Outer
  <1>6. \A m : (Holds(c, m)' = Holds(c, m)) /\ Held(c)' = Held(c)
    BY <1>1, <1>2 DEF Holds, Held
  <1>7. LockInv'
    BY <1>1, <1>2, <1>6 DEF LockInv, Distinct
  <1>8. CallInv'
    BY <1>1, <1>2 DEF CallInv, Contexts, Threads
  <1> QED BY <1>3, <1>4, <1>5, <1>7, <1>8

(* From here to the end of the guard nobody else runs.                     *)
LEMMA MaskInv == ASSUME NEW c \in Contexts PROVE IInv /\ Mask(c) => IInv'
  <1> SUFFICES ASSUME IInv, Mask(c) PROVE IInv'
    OBVIOUS
  <1> USE SpinAssumption DEF IInv
  <1>1. /\ running = c /\ running' = c /\ step[c] = "saved"
    BY DEF Mask, At, running
  <1>2. /\ UNCHANGED <<locked, guards, want, keep, cur, inIsr, calling>> /\ ~ie'
        /\ \A d \in Contexts : step'[d] = IF d = c THEN "masked" ELSE step[d]
    BY DEF Mask, Goto, TypeInv
  <1>3. TypeInv'
    BY DEF TypeInv, Mask, Goto, Steps
  <1>4. Idle'
    BY <1>1, <1>2, IdleStep
  <1>5. FlagInv'
    BY <1>1, <1>2 DEF FlagInv, Open, Outer
  <1>6. \A m : (Holds(c, m)' = Holds(c, m)) /\ Held(c)' = Held(c)
    BY <1>1, <1>2 DEF Holds, Held
  <1>7. LockInv'
    BY <1>1, <1>2, <1>6 DEF LockInv, Distinct
  <1>8. CallInv'
    BY <1>1, <1>2 DEF CallInv, Contexts, Threads
  <1> QED BY <1>3, <1>4, <1>5, <1>7, <1>8

(* A lock that was free joins the locks of the context that took it.       *)
LEMMA PushLock ==
    ASSUME TypeInv, NEW c \in Contexts, NEW k \in Locks, NEW r \in BOOLEAN,
           Distinct(c), ~Holds(c, k), step[c] # "released", step'[c] # "released",
           guards'[c] = Append(guards[c], [lock |-> k, restore |-> r])
    PROVE  /\ Distinct(c)'
           /\ \A l \in Locks : Holds(c, l)' <=> (Holds(c, l) \/ l = k)
  <1> DEFINE g == guards[c]
             e == [lock |-> k, restore |-> r]
             h == Append(g, e)
  <1>1. g \in Seq(Guard) /\ e \in Guard /\ e.lock = k
    BY DEF TypeInv, Guard
  <1>2. Len(g) \in Nat /\ DOMAIN g = 1..Len(g)
    BY <1>1
  <1> HIDE DEF g, e
  <1>3. DOMAIN h = 1..(Len(g) + 1) /\ h[Len(g) + 1] = e
    BY <1>1, PushFacts
  <1>4. \A i \in 1..Len(g) : h[i] = g[i] /\ i \in DOMAIN h
    BY <1>1, <1>2, <1>3, PushFacts
  <1>5. Len(g) + 1 \in DOMAIN h
    BY <1>2, <1>3
  <1>6. \A i \in DOMAIN h : i \in 1..Len(g) \/ i = Len(g) + 1
    BY <1>2, <1>3
  <1>7. guards'[c] = h /\ guards[c] = g
    BY DEF g, e
  <1> HIDE DEF h
  <1>8. \A i \in DOMAIN g : g[i].lock # k
    BY <1>7 DEF Holds
  <1>9. Distinct(c)'
    <2> SUFFICES ASSUME NEW i \in DOMAIN h, NEW j \in DOMAIN h,
                        h[i].lock = h[j].lock
                 PROVE  i = j
      BY <1>7 DEF Distinct
    <2>1. CASE i \in 1..Len(g) /\ j \in 1..Len(g)
      BY <2>1, <1>2, <1>4, <1>7 DEF Distinct
    <2>2. CASE i \in 1..Len(g) /\ j = Len(g) + 1
      BY <2>2, <1>1, <1>2, <1>3, <1>4, <1>8
    <2>3. CASE i = Len(g) + 1 /\ j \in 1..Len(g)
      BY <2>3, <1>1, <1>2, <1>3, <1>4, <1>8
    <2> QED BY <2>1, <2>2, <2>3, <1>6
  <1>10. \A l : Holds(c, l)' <=> \E i \in DOMAIN h : h[i].lock = l
    BY <1>7 DEF Holds
  <1>11. \A l : Holds(c, l) <=> \E i \in DOMAIN g : g[i].lock = l
    BY <1>7 DEF Holds
  <1>12. ASSUME NEW l \in Locks
         PROVE  (\E i \in DOMAIN h : h[i].lock = l)
                   <=> (\E i \in DOMAIN g : g[i].lock = l) \/ l = k
    BY <1>1, <1>2, <1>3, <1>4, <1>5, <1>6
  <1> QED BY <1>9, <1>10, <1>11, <1>12

(* Giving up the lock of the last guard leaves the context the others.     *)
LEMMA DropLock ==
    ASSUME TypeInv, NEW c \in Contexts, Distinct(c), Len(guards[c]) # 0,
           step[c] # "released"
    PROVE  /\ Innermost(c) \in Guard /\ Holds(c, Innermost(c).lock)
           /\ step'[c] = "released" /\ guards'[c] = guards[c] =>
                \A l : Holds(c, l)' <=> (Holds(c, l) /\ l # Innermost(c).lock)
           /\ step'[c] # "released"
                 /\ guards'[c] = SubSeq(guards[c], 1, Len(guards[c]) - 1) =>
                \A l : Holds(c, l)' <=> (Holds(c, l) /\ l # Innermost(c).lock)
  <1> DEFINE g == guards[c]
             h == SubSeq(g, 1, Len(g) - 1)
  <1>1. g \in Seq(Guard) /\ Len(g) # 0
    BY DEF TypeInv
  <1>2. Len(g) \in Nat \ {0} /\ DOMAIN g = 1..Len(g) /\ g[Len(g)] \in Guard
    BY <1>1
  <1>3. Len(g) \in DOMAIN g /\ Innermost(c) = g[Len(g)]
    BY <1>2 DEF Innermost
  <1>4. DOMAIN h = 1..(Len(g) - 1) /\ \A i \in 1..(Len(g) - 1) : h[i] = g[i]
    BY <1>1, PopFacts
  <1>5. \A i \in DOMAIN g : i \in DOMAIN h \/ i = Len(g)
    BY <1>2, <1>4
  <1>6. \A i \in DOMAIN h : i \in DOMAIN g /\ i # Len(g) /\ h[i] = g[i]
    BY <1>2, <1>4
  <1>7. guards[c] = g
    OBVIOUS
  <1> HIDE DEF g, h
  <1>8. \A i \in DOMAIN g : g[i].lock = Innermost(c).lock => i = Len(g)
    BY <1>3, <1>7 DEF Distinct
  <1>9. \A l : Holds(c, l) <=> \E i \in DOMAIN g : g[i].lock = l
    BY <1>7 DEF Holds
  <1>10. ASSUME step'[c] = "released", guards'[c] = guards[c], NEW l
         PROVE  Holds(c, l)' <=> (Holds(c, l) /\ l # Innermost(c).lock)
    <2>1. Holds(c, l)' <=> \E i \in DOMAIN g : g[i].lock = l /\ i # Len(g)
      BY <1>7, <1>10 DEF Holds
    <2> QED BY <2>1, <1>3, <1>8, <1>9
  <1>11. ASSUME step'[c] # "released", guards'[c] = h, NEW l
         PROVE  Holds(c, l)' <=> (Holds(c, l) /\ l # Innermost(c).lock)
    <2>1. Holds(c, l)' <=> \E i \in DOMAIN h : h[i].lock = l
      BY <1>11 DEF Holds
    <2> QED BY <2>1, <1>3, <1>5, <1>6, <1>8, <1>9
  <1>12. h = SubSeq(guards[c], 1, Len(guards[c]) - 1)
    BY DEF h, g
  <1> QED BY <1>2, <1>3, <1>9, <1>10, <1>11, <1>12

(* A guard remembers an enabled flag only at the bottom of the stack.      *)
LEMMA AcquireInv == ASSUME NEW c \in Contexts PROVE IInv /\ Acquire(c) => IInv'
  <1> SUFFICES ASSUME IInv, Acquire(c) PROVE IInv'
    OBVIOUS
  <1> USE SpinAssumption DEF IInv
  <1> DEFINE g == guards[c]
             e == [lock |-> want[c], restore |-> keep[c]]
  <1>1. /\ running = c /\ running' = c /\ step[c] = "masked"
        /\ ~locked[want[c]] /\ want[c] \in Locks /\ keep[c] \in BOOLEAN
    BY DEF Acquire, At, running, TypeInv
  <1>2. /\ UNCHANGED <<ie, want, keep, cur, inIsr, calling>>
        /\ \A d \in Contexts :
              /\ step'[d] = IF d = c THEN "run" ELSE step[d]
              /\ guards'[d] = IF d = c THEN Append(g, e) ELSE guards[d]
        /\ \A l \in Locks : locked'[l] = IF l = want[c] THEN TRUE ELSE locked[l]
    BY DEF Acquire, Goto, TypeInv
  <1>3. /\ g \in Seq(Guard) /\ e \in Guard /\ e.restore = keep[c]
        /\ Len(g) \in Nat
    <2>1. g \in Seq(Guard)
      BY DEF TypeInv
    <2>2. e \in Guard /\ e.restore = keep[c]
      BY <1>1 DEF Guard
    <2> QED BY <2>1, <2>2
  <1>4. /\ Append(g, e) \in Seq(Guard) /\ Len(Append(g, e)) = Len(g) + 1
        /\ DOMAIN Append(g, e) = 1..(Len(g) + 1) /\ DOMAIN g = 1..Len(g)
        /\ \A i \in 1..Len(g) : Append(g, e)[i] = g[i]
        /\ Append(g, e)[Len(g) + 1] = e
    BY <1>3, PushFacts
  <1>5. TypeInv'
    BY <1>4 DEF TypeInv, Acquire, Goto, Steps
  <1>6. Idle'
    BY <1>1, <1>2, IdleStep
  <1>7. guards'[c] = Append(g, e) /\ step'[c] = "run"
    BY <1>2
  <1>8. keep[c] <=> (Outer /\ Len(g) = 0)
    BY <1>1 DEF FlagInv, Open
  <1>9. Outer' = Outer
    BY <1>2 DEF Outer
  <1>10. \A i \in 1..Len(g) : g[i].restore <=> (Outer /\ i = 1)
    BY <1>1, <1>4 DEF FlagInv
  <1> HIDE DEF g, e
  <1>11. \A i \in 1..(Len(g) + 1) :
            Append(g, e)[i].restore <=> (Outer /\ i = 1)
    <2>1. \A i \in 1..(Len(g) + 1) : i \in 1..Len(g) \/ i = Len(g) + 1
      BY <1>3
    <2>2. Len(g) + 1 = 1 <=> Len(g) = 0
      BY <1>3
    <2> QED BY <2>1, <2>2, <1>3, <1>4, <1>8, <1>10
  <1>12. ~ie' /\ ~Open'
    <2>1. ~ie' /\ Len(guards'[c]) # 0
      BY <1>1, <1>2, <1>3, <1>4, <1>7 DEF FlagInv
    <2> QED BY <2>1, <1>1 DEF Open
  <1>13. FlagInv'
    BY <1>1, <1>4, <1>7, <1>9, <1>11, <1>12 DEF FlagInv
  <1>14. Distinct(c) /\ ~Holds(c, want[c])
    BY <1>1 DEF LockInv
  <1>15. /\ Distinct(c)'
         /\ \A l \in Locks : Holds(c, l)' <=> (Holds(c, l) \/ l = want[c])
    BY <1>1, <1>7, <1>14, PushLock DEF g, e
  <1>16. LockInv'
    BY <1>1, <1>2, <1>7, <1>15 DEF LockInv
  <1>17. CallInv'
    BY <1>1, <1>2 DEF CallInv, Contexts, Threads
  <1> QED BY <1>5, <1>6, <1>13, <1>16, <1>17

(* The lock is free before interrupts come back.                           *)
LEMMA ReleaseInv == ASSUME NEW c \in Contexts PROVE IInv /\ Release(c) => IInv'
  <1> SUFFICES ASSUME IInv, Release(c) PROVE IInv'
    OBVIOUS
  <1> USE SpinAssumption DEF IInv
  <1>1. /\ running = c /\ running' = c /\ step[c] = "run"
        /\ guards[c] # <<>> /\ guards[c] \in Seq(Guard)
    BY DEF Release, At, running, TypeInv
  <1>2. Len(guards[c]) # 0
    BY <1>1, EmptyFacts
  <1>3. Distinct(c)
    BY <1>1 DEF LockInv
  <1>4. /\ UNCHANGED <<ie, guards, want, keep, cur, inIsr, calling>>
        /\ \A d \in Contexts : step'[d] = IF d = c THEN "released" ELSE step[d]
        /\ \A l \in Locks :
              locked'[l] = IF l = Innermost(c).lock THEN FALSE ELSE locked[l]
    BY DEF Release, Goto, TypeInv
  <1>5. TypeInv'
    BY DEF TypeInv, Release, Goto, Steps
  <1>6. Idle'
    BY <1>1, <1>4, IdleStep
  <1>7. FlagInv'
    <2>1. ~ie
      BY <1>1, <1>2 DEF FlagInv, Open
    <2>2. Outer' = Outer
      BY <1>4 DEF Outer
    <2> QED BY <2>1, <2>2, <1>1, <1>2, <1>4 DEF FlagInv
  <1>8. \A l : Holds(c, l)' <=> (Holds(c, l) /\ l # Innermost(c).lock)
    BY <1>1, <1>2, <1>3, <1>4, DropLock
  <1>9. LockInv'
    BY <1>1, <1>3, <1>4, <1>8 DEF LockInv, Distinct
  <1>10. c \in Callers => c \in calling
    BY <1>1, <1>2 DEF CallInv
  <1>11. CallInv'
    BY <1>4, <1>10 DEF CallInv, Contexts, Threads
  <1> QED BY <1>5, <1>6, <1>7, <1>9, <1>11

(* The flag comes back with the outermost guard, and only with it.         *)
LEMMA RestoreInv == ASSUME NEW c \in Contexts PROVE IInv /\ Restore(c) => IInv'
  <1> SUFFICES ASSUME IInv, Restore(c) PROVE IInv'
    OBVIOUS
  <1> USE SpinAssumption DEF IInv
  <1> DEFINE g == guards[c]
             h == SubSeq(g, 1, Len(g) - 1)
  <1>1. /\ running = c /\ running' = c /\ step[c] = "released"
        /\ g \in Seq(Guard)
    BY DEF Restore, At, running, TypeInv
  <1>2. Len(g) # 0 /\ ~ie
    BY <1>1 DEF FlagInv
  <1>3. /\ Len(g) \in Nat \ {0} /\ g[Len(g)] \in Guard
        /\ h \in Seq(Guard) /\ Len(h) = Len(g) - 1
        /\ DOMAIN h = 1..(Len(g) - 1) /\ DOMAIN g = 1..Len(g)
        /\ \A i \in 1..(Len(g) - 1) : h[i] = g[i]
    BY <1>1, <1>2, PopFacts
  <1>4. /\ UNCHANGED <<locked, want, keep, cur, inIsr, calling>>
        /\ ie' = (ie \/ g[Len(g)].restore)
        /\ \A d \in Contexts :
              /\ step'[d] = IF d = c THEN "run" ELSE step[d]
              /\ guards'[d] = IF d = c THEN h ELSE guards[d]
    BY DEF Restore, Goto, TypeInv, Innermost
  <1>5. TypeInv'
    BY <1>3 DEF TypeInv, Restore, Goto, Steps, Innermost, Guard
  <1>6. Idle'
    BY <1>1, <1>4, IdleStep
  <1>7. \A i \in 1..Len(g) : g[i].restore <=> (Outer /\ i = 1)
    BY <1>1, <1>3 DEF FlagInv
  <1>8. guards'[c] = h /\ step'[c] = "run" /\ guards[c] = g
    BY <1>4
  <1>9. Outer' = Outer
    BY <1>4 DEF Outer
  <1> HIDE DEF g, h
  <1>10. ie' <=> Open'
    <2>1. Len(g) \in 1..Len(g) /\ (Len(g) = 1 <=> Len(h) = 0)
      BY <1>3
    <2>2. Open' <=> (Outer' /\ Len(h) = 0)
      BY <1>1, <1>8 DEF Open
    <2> QED BY <2>1, <2>2, <1>2, <1>4, <1>7, <1>9
  <1>11. \A i \in DOMAIN h : h[i].restore <=> (Outer /\ i = 1)
    BY <1>3, <1>7
  <1>12. FlagInv'
    BY <1>1, <1>8, <1>9, <1>10, <1>11 DEF FlagInv
  <1>13. \A i \in DOMAIN h : i \in DOMAIN g /\ i # Len(g) /\ h[i] = g[i]
    BY <1>3
  <1>14. \A i \in DOMAIN g : i # Len(g) => i \in DOMAIN h
    BY <1>3
  <1>15. \A l : Holds(c, l)' <=> Holds(c, l)
    BY <1>1, <1>8, <1>13, <1>14 DEF Holds
  <1>16. Distinct(c)'
    BY <1>1, <1>8, <1>13 DEF LockInv, Distinct
  <1>17. LockInv'
    BY <1>1, <1>4, <1>8, <1>15, <1>16 DEF LockInv
  <1>18. CallInv'
    BY <1>1, <1>4 DEF CallInv, Contexts, Threads
  <1> QED BY <1>5, <1>6, <1>12, <1>17, <1>18

-----------------------------------------------------------------------------
(* The panic handler.                                                      *)

(* A panic keeps its guards: nobody runs after it.                         *)
LEMMA PanicInv == ASSUME NEW c \in Contexts PROVE IInv /\ PanicReport(c) => IInv'
  <1> SUFFICES ASSUME IInv, PanicReport(c) PROVE IInv'
    OBVIOUS
  <1> USE SpinAssumption DEF IInv
  <1>1. /\ running = c /\ running' = c /\ step[c] = "run"
    BY DEF PanicReport, At, running
  <1>2. /\ UNCHANGED <<locked, guards, keep, cur, inIsr, calling>> /\ ~ie'
        /\ \A d \in Contexts : step'[d] = IF d = c THEN "trying" ELSE step[d]
    BY DEF PanicReport, Goto, TypeInv
  <1>3. TypeInv'
    BY DEF TypeInv, PanicReport, Goto, Steps
  <1>4. Idle'
    BY <1>1, <1>2, IdleStep
  <1>5. FlagInv'
    BY <1>1, <1>2 DEF FlagInv
  <1>6. \A m : Holds(c, m)' = Holds(c, m)
    BY <1>1, <1>2 DEF Holds
  <1>7. LockInv'
    BY <1>1, <1>2, <1>6 DEF LockInv, Distinct
  <1>8. CallInv'
    BY <1>1, <1>2 DEF CallInv, Contexts, Threads
  <1> QED BY <1>3, <1>4, <1>5, <1>7, <1>8

(* The panic handler takes the console only if nobody has it.              *)
LEMMA TryLockInv == ASSUME NEW c \in Contexts PROVE IInv /\ TryLock(c) => IInv'
  <1> SUFFICES ASSUME IInv, TryLock(c) PROVE IInv'
    OBVIOUS
  <1> USE SpinAssumption DEF IInv
  <1>1. /\ running = c /\ running' = c /\ step[c] = "trying"
        /\ UNCHANGED <<ie, want, keep, cur, inIsr, calling>>
    BY DEF TryLock, At, running
  <1>2. ~ie /\ ie = FALSE
    BY <1>1 DEF FlagInv, TypeInv
  <1>3. CASE locked[Console]
    <2>1. /\ UNCHANGED <<locked, guards>>
          /\ \A d \in Contexts : step'[d] = IF d = c THEN "halted" ELSE step[d]
      BY <1>3 DEF TryLock, Goto, TypeInv
    <2>2. TypeInv'
      BY <1>1, <1>3 DEF TypeInv, TryLock, Goto, Steps
    <2>3. Idle'
      BY <1>1, <2>1, IdleStep
    <2>4. FlagInv'
      BY <1>1, <1>2, <2>1 DEF FlagInv
    <2>5. \A m : Holds(c, m)' = Holds(c, m)
      BY <1>1, <2>1 DEF Holds
    <2>6. LockInv'
      BY <1>1, <2>1, <2>5 DEF LockInv, Distinct
    <2>7. CallInv'
      BY <1>1, <2>1 DEF CallInv, Contexts, Threads
    <2> QED BY <2>2, <2>3, <2>4, <2>6, <2>7
  <1>4. CASE ~locked[Console]
    <2> DEFINE g == guards[c]
               e == [lock |-> Console, restore |-> ie]
    <2>1. /\ \A l \in Locks : locked'[l] = IF l = Console THEN TRUE ELSE locked[l]
          /\ \A d \in Contexts :
                /\ step'[d] = IF d = c THEN "printing" ELSE step[d]
                /\ guards'[d] = IF d = c THEN Append(g, e) ELSE guards[d]
      BY <1>4 DEF TryLock, Goto, TypeInv
    <2>2. g \in Seq(Guard)
      BY DEF TypeInv
    <2>3. e \in Guard /\ ~e.restore /\ e.lock = Console
      BY <1>2 DEF Guard
    <2>4. /\ Append(g, e) \in Seq(Guard) /\ Len(Append(g, e)) = Len(g) + 1
          /\ Append(g, e)[Len(g) + 1] = e /\ Len(g) \in Nat
      BY <2>2, <2>3, PushFacts
    <2>5. TypeInv'
      BY <1>1, <1>4, <2>4 DEF TypeInv, TryLock, Goto, Steps
    <2>6. Idle'
      BY <1>1, <2>1, IdleStep
    <2>7. guards'[c] = Append(g, e) /\ step'[c] = "printing"
      BY <2>1
    <2> HIDE DEF g, e
    <2>8. Len(guards'[c]) # 0 /\ Innermost(c)' = e
      BY <2>4, <2>7 DEF Innermost
    <2>9. FlagInv'
      BY <1>1, <1>2, <2>3, <2>7, <2>8 DEF FlagInv
    <2>10. Distinct(c) /\ ~Holds(c, Console)
      BY <1>1, <1>4 DEF LockInv
    <2>11. /\ Distinct(c)'
           /\ \A l \in Locks : Holds(c, l)' <=> (Holds(c, l) \/ l = Console)
      BY <1>1, <1>2, <2>7, <2>10, PushLock DEF g, e
    <2>12. LockInv'
      BY <1>1, <2>1, <2>7, <2>11 DEF LockInv
    <2>13. CallInv'
      BY <1>1, <2>1 DEF CallInv, Contexts, Threads
    <2> QED BY <2>5, <2>6, <2>9, <2>12, <2>13
  <1> QED BY <1>3, <1>4

(* It gives the console back with interrupts still off.                    *)
LEMMA PrintedInv == ASSUME NEW c \in Contexts PROVE IInv /\ Printed(c) => IInv'
  <1> SUFFICES ASSUME IInv, Printed(c) PROVE IInv'
    OBVIOUS
  <1> USE SpinAssumption DEF IInv
  <1> DEFINE g == guards[c]
             h == SubSeq(g, 1, Len(g) - 1)
  <1>1. /\ running = c /\ running' = c /\ step[c] = "printing"
        /\ g \in Seq(Guard) /\ Distinct(c)
        /\ UNCHANGED <<want, keep, cur, inIsr, calling>>
    BY DEF Printed, At, running, TypeInv, LockInv
  <1>2. Len(g) # 0 /\ ~ie /\ ~Innermost(c).restore /\ Innermost(c).lock = Console
    BY <1>1 DEF FlagInv
  <1>3. h \in Seq(Guard) /\ DOMAIN h = 1..(Len(g) - 1) /\ DOMAIN g = 1..Len(g)
        /\ \A i \in 1..(Len(g) - 1) : h[i] = g[i]
    BY <1>1, <1>2, PopFacts
  <1>4. /\ ~ie' /\ ie' \in BOOLEAN
        /\ \A l \in Locks : locked'[l] = IF l = Console THEN FALSE ELSE locked[l]
        /\ \A d \in Contexts :
              /\ step'[d] = IF d = c THEN "halted" ELSE step[d]
              /\ guards'[d] = IF d = c THEN h ELSE guards[d]
    BY <1>2 DEF Printed, Goto, TypeInv
  <1>5. TypeInv'
    BY <1>3, <1>4 DEF TypeInv, Printed, Goto, Steps
  <1>6. Idle'
    BY <1>1, <1>4, IdleStep
  <1>7. FlagInv'
    BY <1>1, <1>4 DEF FlagInv
  <1>8. \A l : Holds(c, l)' <=> (Holds(c, l) /\ l # Console)
    BY <1>1, <1>2, <1>4, DropLock
  <1>9. Distinct(c)'
    <2>1. \A i \in DOMAIN h : i \in DOMAIN g /\ h[i] = g[i]
      BY <1>1, <1>3
    <2> HIDE DEF h
    <2> QED BY <2>1, <1>1, <1>4 DEF Distinct
  <1>10. LockInv'
    BY <1>1, <1>4, <1>8, <1>9 DEF LockInv
  <1>11. CallInv'
    BY <1>1, <1>4 DEF CallInv, Contexts, Threads
  <1> QED BY <1>5, <1>6, <1>7, <1>10, <1>11

-----------------------------------------------------------------------------
(* Every step keeps the invariant.                                         *)
LEMMA InvStep == IInv /\ [LockNext]_spinVars => IInv'
  <1> SUFFICES ASSUME IInv, [LockNext]_spinVars PROVE IInv'
    OBVIOUS
  <1>1. CASE Interrupt
    BY <1>1, InterruptInv
  <1>2. ASSUME NEW t \in Threads, Return(t) \/ Syscall(t) \/ Sysret(t)
        PROVE  IInv'
    BY <1>2, ReturnInv, SyscallInv, SysretInv
  <1>3. ASSUME NEW c \in Contexts, NEW l \in Locks, Save(c, l)
        PROVE  IInv'
    BY <1>3, SaveInv
  <1>4. ASSUME NEW c \in Contexts,
               Mask(c) \/ Acquire(c) \/ Release(c) \/ Restore(c)
        PROVE  IInv'
    BY <1>4, MaskInv, AcquireInv, ReleaseInv, RestoreInv
  <1>5. ASSUME NEW c \in Contexts, PanicReport(c) \/ TryLock(c) \/ Printed(c)
        PROVE  IInv'
    BY <1>5, PanicInv, TryLockInv, PrintedInv
  <1>6. CASE UNCHANGED spinVars
    BY <1>6 DEF spinVars, IInv, TypeInv, Idle, FlagInv, LockInv, CallInv, Open,
                Outer, Distinct, Holds, Held, Innermost, running
  <1>7. ASSUME NEW c \in Contexts, Halted(c) PROVE IInv'
    BY <1>6, <1>7 DEF Halted
  <1> QED BY <1>1, <1>2, <1>3, <1>4, <1>5, <1>6, <1>7 DEF LockNext

(* The invariant holds in every reachable state.                           *)
LEMMA InvCorrect == LockSpec => []IInv
  BY InvInit, InvStep, PTL DEF LockSpec

(* sync.rs, lock(): no context reaches the compare_exchange of a lock that *)
(* is taken, whatever interrupts whatever, for any number of threads and   *)
(* locks.                                                                  *)
THEOREM SpinCorrect == LockSpec => []NeverSpins
  <1>1. IInv => NeverSpins
    <2> SUFFICES ASSUME IInv, NEW c \in Contexts, step[c] = "masked"
                 PROVE  ~locked[want[c]]
      BY DEF NeverSpins
    <2>1. c = running
      BY DEF IInv, Idle
    <2>2. want[c] \notin Held(c) /\ want[c] \in Locks
      BY <2>1 DEF IInv, LockInv, TypeInv
    <2>3. ~Holds(c, want[c])
      BY <2>2 DEF Holds, Held
    <2> QED BY <2>1, <2>2, <2>3 DEF IInv, LockInv
  <1> QED BY <1>1, InvCorrect, PTL

(* sync.rs, drop(): interrupts are on exactly outside every guard, call    *)
(* and handler.                                                            *)
THEOREM FlagCorrect == LockSpec => []InterruptsComeBack
  <1>1. IInv => InterruptsComeBack
    <2> SUFFICES ASSUME IInv, step[running] \in {"run", "saved"}
                 PROVE  ie <=> ~inIsr /\ guards[cur] = <<>> /\ cur \notin calling
      BY DEF InterruptsComeBack
    <2>1. ie <=> Open
      BY DEF IInv, FlagInv
    <2>2. CASE inIsr
      BY <2>1, <2>2 DEF Open, Outer
    <2>3. CASE ~inIsr
      <3>1. running = cur /\ guards[cur] \in Seq(Guard)
        BY <2>3 DEF running, IInv, TypeInv, Contexts
      <3>2. (guards[cur] = <<>>) <=> (Len(guards[cur]) = 0)
        BY <3>1, EmptyFacts
      <3>3. ie <=> (cur \notin calling /\ Len(guards[cur]) = 0)
        BY <2>1, <2>3, <3>1 DEF Open, Outer
      <3> QED BY <2>3, <3>2, <3>3, Zenon
    <2> QED BY <2>2, <2>3
  <1> QED BY <1>1, InvCorrect, PTL

-----------------------------------------------------------------------------
(* Refinement.                                                             *)

(* The holder of a lock that is taken is the context that runs.            *)
Taken == [l \in Locks |-> IF locked[l] THEN running ELSE NoOne]

(* The refinement mapping in terms of the flags of the locks.              *)
LEMMA HolderFacts == IInv => holder = Taken
  <1> SUFFICES ASSUME IInv PROVE holder = Taken
    OBVIOUS
  <1>1. running \in Contexts
    BY RunningFacts DEF IInv
  <1>2. \A c \in Contexts : \A l : Holds(c, l) => c = running
    BY NoGuard DEF IInv, Idle
  <1>3. \A l \in Locks : locked[l] <=> Holds(running, l)
    BY DEF IInv, LockInv
  <1>4. ASSUME NEW l \in Locks
        PROVE  (IF \E c \in Contexts : Holds(c, l)
                THEN CHOOSE c \in Contexts : Holds(c, l)
                ELSE NoOne) = IF locked[l] THEN running ELSE NoOne
    <2>1. CASE locked[l]
      <3>1. Holds(running, l)
        BY <1>3, <2>1
      <3>2. (CHOOSE c \in Contexts : Holds(c, l)) = running
        BY <3>1, <1>1, <1>2
      <3> QED BY <3>1, <3>2, <1>1, <2>1
    <2>2. CASE ~locked[l]
      BY <1>2, <1>3, <2>2
    <2> QED BY <2>1, <2>2
  <1> QED BY <1>4 DEF holder, Taken

(* The lock implements Mutex: an exchange that succeeds enters, the store  *)
(* that frees the lock leaves, an interrupt and its return take over a     *)
(* processor that holds nothing, and every other step changes nothing.     *)
LEMMA StepRefines ==
    ASSUME IInv, [LockNext]_spinVars, holder = Taken, holder' = Taken',
           running \in Contexts, running' \in Contexts
    PROVE  [Abstract!Next]_(Abstract!vars)
  <1> USE SpinAssumption
  <1> DEFINE Enters(c, l) ==
                /\ running = c /\ running' = c /\ l \in Locks /\ ~locked[l]
                /\ locked' = [locked EXCEPT ![l] = TRUE]
             Leaves(c, l) ==
                /\ running = c /\ running' = c /\ l \in Locks /\ locked[l]
                /\ locked' = [locked EXCEPT ![l] = FALSE]
             Moves == locked' = locked /\ \A l \in Locks : ~locked[l]
             Stays == running' = running /\ locked' = locked
  <1>1. locked \in [Locks -> BOOLEAN] /\ running # NoOne
    BY DEF IInv, TypeInv
  <1>2. ASSUME NEW c \in Contexts, NEW l, Enters(c, l)
        PROVE  Abstract!Enter(c, l)
    <2>1. holder[l] = NoOne
      BY <1>2 DEF Taken
    <2>2. holder' = [holder EXCEPT ![l] = c]
      BY <1>1, <1>2 DEF Taken
    <2> QED BY <2>1, <2>2, <1>2 DEF Abstract!Enter
  <1>3. ASSUME NEW c \in Contexts, NEW l, Leaves(c, l)
        PROVE  Abstract!Leave(c, l)
    <2>1. holder[l] = c
      BY <1>3 DEF Taken
    <2>2. holder' = [holder EXCEPT ![l] = NoOne]
      BY <1>1, <1>3 DEF Taken
    <2> QED BY <2>1, <2>2, <1>3 DEF Abstract!Leave
  <1>4. ASSUME Moves PROVE Abstract!TakeOver(running')
    <2>1. holder' = holder /\ \A l \in Locks : holder[l] = NoOne
      BY <1>4 DEF Taken
    <2> QED BY <2>1, <1>1 DEF Abstract!TakeOver, Abstract!Holding
  <1>5. ASSUME Stays PROVE UNCHANGED Abstract!vars
    BY <1>5 DEF Taken, Abstract!vars
  <1>6. SUFFICES \/ \E c \in Contexts, l \in Locks : Enters(c, l) \/ Leaves(c, l)
                 \/ Moves
                 \/ Stays
    BY <1>2, <1>3, <1>4, <1>5 DEF Abstract!Next
  <1>7. CASE Interrupt
    <2>1. ie /\ running = cur /\ locked' = locked /\ ie \in BOOLEAN
      BY <1>7 DEF Interrupt, running, lockVars, IInv, TypeInv
    <2>2. Len(guards[running]) = 0
      BY <2>1 DEF IInv, FlagInv, Open
    <2>3. \A l : ~Holds(running, l)
      BY <2>2, NoGuard DEF IInv
    <2> QED BY <2>1, <2>3 DEF IInv, LockInv
  <1>8. ASSUME NEW t \in Threads, Return(t) PROVE Moves
    <2>1. running = Isr /\ locked' = locked /\ guards[Isr] = <<>>
      BY <1>8 DEF Return, At, lockVars
    <2>2. guards[Isr] \in Seq(Guard)
      BY <2>1 DEF IInv, TypeInv
    <2>3. Len(guards[running]) = 0
      BY <2>1, <2>2, EmptyFacts
    <2>4. \A l : ~Holds(running, l)
      BY <2>3, NoGuard DEF IInv
    <2> QED BY <2>1, <2>4 DEF IInv, LockInv
  <1>9. ASSUME NEW t \in Threads, Syscall(t) \/ Sysret(t) PROVE Stays
    BY <1>9 DEF Syscall, Sysret, lockVars, running
  <1>10. ASSUME NEW c \in Contexts, NEW l \in Locks, Save(c, l) PROVE Stays
    BY <1>10 DEF Save, running
  <1>11. ASSUME NEW c \in Contexts, Mask(c) \/ Restore(c) \/ PanicReport(c) \/ Halted(c)
         PROVE  Stays
    BY <1>11 DEF Mask, Restore, PanicReport, Halted, running, spinVars
  <1>12. ASSUME NEW c \in Contexts, Acquire(c) PROVE Enters(c, want[c])
    BY <1>12 DEF Acquire, At, running, IInv, TypeInv
  <1>13. ASSUME NEW c \in Contexts, Release(c) PROVE Leaves(c, Innermost(c).lock)
    <2>1. /\ running = c /\ running' = c /\ step[c] = "run"
          /\ guards[c] # <<>> /\ guards[c] \in Seq(Guard)
          /\ locked' = [locked EXCEPT ![Innermost(c).lock] = FALSE]
      BY <1>13 DEF Release, At, running, IInv, TypeInv
    <2>2. Len(guards[c]) # 0
      BY <2>1, EmptyFacts
    <2>3. Innermost(c) \in Guard /\ Holds(c, Innermost(c).lock)
      BY <2>1, <2>2, DropLock DEF IInv, LockInv
    <2>4. Innermost(c).lock \in Locks
      BY <2>3 DEF Guard
    <2> QED BY <2>1, <2>3, <2>4 DEF IInv, LockInv
  <1>14. ASSUME NEW c \in Contexts, TryLock(c)
         PROVE  Enters(c, Console) \/ Stays
    BY <1>14 DEF TryLock, At, running
  <1>15. ASSUME NEW c \in Contexts, Printed(c) PROVE Leaves(c, Console)
    <2>1. /\ running = c /\ running' = c /\ step[c] = "printing"
          /\ locked' = [locked EXCEPT ![Console] = FALSE]
      BY <1>15 DEF Printed, At, running
    <2>2. Len(guards[c]) # 0 /\ Innermost(c).lock = Console
      BY <2>1 DEF IInv, FlagInv
    <2>3. Holds(c, Console)
      BY <2>1, <2>2, DropLock DEF IInv, LockInv
    <2> QED BY <2>1, <2>3 DEF IInv, LockInv
  <1>16. CASE UNCHANGED spinVars
    BY <1>16 DEF spinVars, running
  <1>17. \A c \in Contexts : want[c] \in Locks
    BY DEF IInv, TypeInv
  <1>18. ASSUME NEW t \in Threads, Return(t) \/ Syscall(t) \/ Sysret(t)
         PROVE  Moves \/ Stays
    BY <1>8, <1>9, <1>18
  <1>19. ASSUME NEW c \in Contexts,
                \/ \E l \in Locks : Save(c, l)
                \/ Mask(c) \/ Acquire(c) \/ Release(c) \/ Restore(c)
                \/ PanicReport(c) \/ TryLock(c) \/ Printed(c) \/ Halted(c)
         PROVE  (\E l \in Locks : Enters(c, l) \/ Leaves(c, l)) \/ Stays
    <2>1. CASE Acquire(c)
      BY <2>1, <1>12, <1>17
    <2>2. CASE Release(c)
      BY <2>2, <1>13
    <2>3. CASE TryLock(c)
      BY <2>3, <1>14
    <2>4. CASE Printed(c)
      BY <2>4, <1>15
    <2>5. CASE (\E l \in Locks : Save(c, l))
               \/ Mask(c) \/ Restore(c) \/ PanicReport(c) \/ Halted(c)
      BY <2>5, <1>10, <1>11
    <2> QED BY <2>1, <2>2, <2>3, <2>4, <2>5, <1>19
  <1> QED BY <1>7, <1>16, <1>18, <1>19 DEF LockNext

(* sync.rs, SpinLock: "lock() garantiza que solo un hilo tiene la          *)
(* referencia interior a la vez", and nobody else runs until the guard is  *)
(* gone, for any number of threads and locks.                              *)
THEOREM MutexCorrect == LockSpec => ImplementsMutex
  <1>1. LockInit => Abstract!Init
    <2> SUFFICES ASSUME LockInit PROVE Abstract!Init
      OBVIOUS
    <2>1. holder = Taken /\ running \in Contexts
      BY InvInit, HolderFacts, RunningFacts DEF IInv
    <2>2. Taken = [l \in Locks |-> NoOne]
      BY DEF LockInit, Taken
    <2> QED BY <2>1, <2>2 DEF Abstract!Init
  <1>2. (IInv => holder = Taken /\ running \in Contexts)'
    <2>1. IInv => holder = Taken /\ running \in Contexts
      BY HolderFacts, RunningFacts DEF IInv
    <2> QED BY <2>1, PTL
  <1>3. IInv /\ IInv' /\ [LockNext]_spinVars => [Abstract!Next]_(Abstract!vars)
    <2> SUFFICES ASSUME IInv, IInv', [LockNext]_spinVars
                 PROVE  [Abstract!Next]_(Abstract!vars)
      OBVIOUS
    <2>1. holder = Taken /\ running \in Contexts
      BY HolderFacts, RunningFacts DEF IInv
    <2>2. holder' = Taken' /\ running' \in Contexts
      BY <1>2
    <2> QED BY <2>1, <2>2, StepRefines
  <1> QED BY <1>1, <1>3, InvCorrect, PTL DEF LockSpec, ImplementsMutex, Abstract!Spec
=============================================================================
