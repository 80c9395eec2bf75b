----------------------------- MODULE EnvProofs -----------------------------
(***************************************************************************)
(* Proofs about environments, for any number of entries.                   *)
(*                                                                         *)
(* Every action hands an array es and a free list l to the end of trap or  *)
(* to sched_yield.  Consistent(es, l) is what they need of the two, and    *)
(* the lemmas on the scheduler turn it into IndInv of the next state.      *)
(***************************************************************************)
EXTENDS Env, TLAPS

Entries == [status : Statuses, gen : Nat, parent : Ids, recving : BOOLEAN, dstva : VAs,
            from : Ids, perm : BOOLEAN, asked : VAs \cup {NoVa, NoCall}, poked : BOOLEAN]

Listed(l, e) == \E i \in DOMAIN l : l[i] = e

(* The IPC fields of one entry agree with its status.                       *)
Waits(env) ==
  /\ env.asked # NoCall /\ env.recving /\ ~env.poked => env.status = "NOT_RUNNABLE"
  /\ env.status # "FREE" /\ env.recving /\ ~env.poked => env.asked # NoCall

Exact(es, l) ==
  /\ \A e \in Slots : es[e].status = "FREE" <=> Listed(l, e)
  /\ \A i, j \in DOMAIN l : l[i] = l[j] => i = j

Consistent(es, l) ==
  /\ es \in [Slots -> Entries] /\ l \in Seq(Slots)
  /\ Exact(es, l)
  /\ \A e \in Slots : Waits(es[e])
  /\ \A e \in Slots : es[e].status = "RUNNING" => e = curenv

(* A message still unread in the next state is the one es has.              *)
Unread(es, d) ==
  envs'[d].asked # NoCall =>
    es[d].asked # NoCall /\ envs'[d].from = es[d].from /\ envs'[d].perm = es[d].perm

(* The invariant says that the kernel's own array and list are consistent.  *)
LEMMA IndInvParts ==
  ASSUME IndInv
  PROVE  /\ envs \in [Slots -> Entries] /\ env_free_list \in Seq(Slots)
         /\ curenv \in Slots \cup {NoEnv}
         /\ Exact(envs, env_free_list)
         /\ \A e \in Slots : Waits(envs[e])
BY DEF IndInv, TypeOK, Entries, FreeListExact, Exact, Listed, Waits, RecvReturnsMessage,
       RecvingMeansBlocked

LEMMA UserConsistent ==
  ASSUME IndInv, User
  PROVE  /\ Consistent(envs, env_free_list) /\ curenv \in Slots
         /\ envs[curenv].status = "RUNNING" /\ curenv # NoEnv
<1>1. curenv \in Slots /\ curenv # NoEnv
  BY NENVAssumption DEF IndInv, User, Slots, NoEnv
<1>2. \A e \in Slots : envs[e].status = "RUNNING" <=> e = curenv
  BY DEF IndInv, User, OneRunning
<1>. QED
  BY <1>1, <1>2, IndInvParts DEF Consistent

(* env_run leaves exactly one environment running, and takes only from it   *)
(* the message it was given.                                                *)
LEMMA RunEffect ==
  ASSUME NEW es, NEW l, NEW e \in Slots, Consistent(es, l), curenv \in Slots \cup {NoEnv},
         es[e].status \in {"RUNNABLE", "RUNNING"}, env_run(es, e)
  PROVE  /\ envs' \in [Slots -> Entries]
         /\ \A d \in Slots : envs'[d].status = "RUNNING" <=> d = e
         /\ \A d \in Slots : envs'[d].status = "FREE" <=> es[d].status = "FREE"
         /\ \A d \in Slots : Waits(envs'[d])
         /\ \A d \in Slots : Unread(es, d)
<1>1. es \in [Slots -> Entries] /\ \A d \in Slots : Waits(es[d])
  BY DEF Consistent
<1>2. /\ Stopped(es) \in [Slots -> Entries]
      /\ \A d \in Slots :
           \/ Stopped(es)[d] = es[d] /\ (es[d].status # "RUNNING")
           \/ /\ Stopped(es)[d] = [es[d] EXCEPT !.status = "RUNNABLE"]
              /\ es[d].status = "RUNNING"
  <2>1. CASE curenv # NoEnv /\ es[curenv].status = "RUNNING"
    <3>1. curenv \in Slots /\ Stopped(es) = [es EXCEPT ![curenv].status = "RUNNABLE"]
      BY <2>1 DEF Stopped
    <3>2. \A d \in Slots : es[d].status = "RUNNING" => d = curenv
      BY DEF Consistent
    <3>. QED
      BY <1>1, <2>1, <3>1, <3>2 DEF Entries, Statuses
  <2>2. CASE ~(curenv # NoEnv /\ es[curenv].status = "RUNNING")
    <3>1. Stopped(es) = es
      BY <2>2 DEF Stopped
    <3>2. \A d \in Slots : es[d].status # "RUNNING"
      BY <2>2, NENVAssumption DEF Consistent, Slots, NoEnv
    <3>. QED
      BY <1>1, <3>1, <3>2
  <2>. QED
    BY <2>1, <2>2
<1>3. envs' = [Stopped(es) EXCEPT ![e] = [Read(Stopped(es)[e]) EXCEPT !.status = "RUNNING"]]
  BY DEF env_run
<1>4. NoId \in Ids
  BY NENVAssumption DEF NoId, Ids, Slots
<1>5. \A r \in Entries : /\ [Read(r) EXCEPT !.status = "RUNNING"] \in Entries
                         /\ [Read(r) EXCEPT !.status = "RUNNING"].status = "RUNNING"
                         /\ [Read(r) EXCEPT !.status = "RUNNING"].asked = NoCall
                         /\ [Read(r) EXCEPT !.status = "RUNNING"].recving = r.recving
                         /\ [Read(r) EXCEPT !.status = "RUNNING"].poked = r.poked
  BY <1>4, Zenon DEF Entries, Read, Statuses
<1>6. /\ envs' \in [Slots -> Entries]
      /\ envs'[e] = [Read(Stopped(es)[e]) EXCEPT !.status = "RUNNING"]
      /\ \A d \in Slots : d # e => envs'[d] = Stopped(es)[d]
  BY <1>2, <1>3, <1>5
<1>7. \A d \in Slots : /\ Stopped(es)[d].status # "RUNNING"
                       /\ Stopped(es)[d].status = "FREE" <=> es[d].status = "FREE"
                       /\ Waits(Stopped(es)[d])
                       /\ Stopped(es)[d].from = es[d].from /\ Stopped(es)[d].perm = es[d].perm
                       /\ Stopped(es)[d].recving = es[d].recving
                       /\ Stopped(es)[d].poked = es[d].poked
                       /\ Stopped(es)[d].asked = es[d].asked
  <2>. TAKE d \in Slots
  <2>1. CASE Stopped(es)[d] = es[d] /\ es[d].status # "RUNNING"
    BY <1>1, <2>1
  <2>2. CASE Stopped(es)[d] = [es[d] EXCEPT !.status = "RUNNABLE"] /\ es[d].status = "RUNNING"
    <3>. DEFINE r == es[d]
                t == [r EXCEPT !.status = "RUNNABLE"]
    <3>1. r \in Entries /\ Waits(r) /\ r.status = "RUNNING"
      BY <1>1, <2>2
    <3>2. /\ t.status = "RUNNABLE" /\ t.from = r.from /\ t.perm = r.perm
          /\ t.recving = r.recving /\ t.poked = r.poked /\ t.asked = r.asked
      BY <3>1 DEF Entries
    <3>3. Waits(t)
      BY <3>1, <3>2 DEF Waits
    <3>. QED
      BY <2>2, <3>1, <3>2, <3>3
  <2>. QED
    BY <1>2, <2>1, <2>2
<1>8. es[e].recving => es[e].poked
  BY <1>1 DEF Waits, Entries
<1>9. Waits(envs'[e]) /\ envs'[e].status = "RUNNING" /\ envs'[e].asked = NoCall
  BY <1>2, <1>5, <1>6, <1>7, <1>8 DEF Waits
<1>10. ASSUME NEW d \in Slots
       PROVE  /\ envs'[d].status = "RUNNING" <=> d = e
              /\ envs'[d].status = "FREE" <=> es[d].status = "FREE"
              /\ Waits(envs'[d])
              /\ Unread(es, d)
  <2>1. CASE d = e
    BY <1>9, <2>1 DEF Unread
  <2>2. CASE d # e
    <3>1. envs'[d] = Stopped(es)[d]
      BY <1>6, <2>2
    <3>. QED
      BY <1>7, <2>2, <3>1 DEF Unread
  <2>. QED
    BY <2>1, <2>2
<1>. QED
  BY <1>6, <1>10

(* So a run of a consistent array is a state that satisfies the invariant.  *)
LEMMA RunKeeps ==
  ASSUME NEW es, NEW e \in Slots, Consistent(es, env_free_list'),
         curenv \in Slots \cup {NoEnv},
         es[e].status \in {"RUNNABLE", "RUNNING"}, env_run(es, e), kernel' = "run"
  PROVE  /\ IndInv'
         /\ \A d \in Slots : Unread(es, d)
<1>. DEFINE l == env_free_list'
<1>1. /\ envs' \in [Slots -> Entries]
      /\ \A d \in Slots : envs'[d].status = "RUNNING" <=> d = e
      /\ \A d \in Slots : envs'[d].status = "FREE" <=> es[d].status = "FREE"
      /\ \A d \in Slots : Waits(envs'[d])
      /\ \A d \in Slots : Unread(es, d)
  BY RunEffect
<1>2. curenv' = e
  BY DEF env_run
<1>3. Exact(envs', l) /\ l \in Seq(Slots)
  BY <1>1 DEF Consistent, Exact
<1>4. OneRunning'
  BY <1>1, <1>2 DEF OneRunning
<1>5. TypeOK'
  BY <1>1, <1>2, <1>3 DEF TypeOK, Entries
<1>6. FreeListExact'
  BY <1>3 DEF FreeListExact, Exact, Listed
<1>7. RecvReturnsMessage' /\ RecvingMeansBlocked'
  BY <1>1 DEF RecvReturnsMessage, RecvingMeansBlocked, Waits
<1>. QED
  BY <1>1, <1>2, <1>4, <1>5, <1>6, <1>7 DEF IndInv

(* The scheduler, and the end of trap, turn a consistent array into a state *)
(* that satisfies the invariant.                                            *)
LEMMA YieldKeeps ==
  ASSUME NEW es, Consistent(es, env_free_list'), curenv \in Slots, kernel = "run",
         sched_yield(es)
  PROVE  /\ IndInv'
         /\ \A d \in Slots : Unread(es, d)
<1>1. Start = curenv /\ curenv # NoEnv
  BY NENVAssumption DEF Start, Slots, NoEnv
<1>2. CASE NoneRunnable(es) /\ es[Start].status # "RUNNING" /\ sched_halt(es)
  <2>1. envs' = es /\ curenv' = curenv /\ kernel' = "monitor"
    BY <1>2 DEF sched_halt
  <2>2. \A d \in Slots : es[d].status \notin {"RUNNING", "RUNNABLE"}
    BY <1>1, <1>2 DEF NoneRunnable, Consistent
  <2>3. TypeOK'
    BY <2>1 DEF TypeOK, Consistent, Entries
  <2>4. FreeListExact'
    BY <2>1 DEF FreeListExact, Consistent, Exact, Listed
  <2>5. RecvReturnsMessage' /\ RecvingMeansBlocked'
    BY <2>1 DEF RecvReturnsMessage, RecvingMeansBlocked, Waits, Consistent
  <2>. QED
    BY <2>1, <2>2, <2>3, <2>4, <2>5 DEF IndInv, OneRunning, Unread
<1>3. CASE \E e \in Slots : IsNext(es, e) /\ env_run(es, e) /\ UNCHANGED kernel
  BY <1>3, RunKeeps DEF IsNext
<1>4. CASE NoneRunnable(es) /\ es[Start].status = "RUNNING" /\ env_run(es, Start)
             /\ UNCHANGED kernel
  BY <1>1, <1>4, RunKeeps
<1>. QED
  BY <1>2, <1>3, <1>4 DEF sched_yield

LEMMA TrapEndKeeps ==
  ASSUME NEW es, Consistent(es, env_free_list'), curenv \in Slots, kernel = "run", TrapEnd(es)
  PROVE  /\ IndInv'
         /\ \A d \in Slots : Unread(es, d)
<1>1. CASE es[curenv].status = "RUNNING" /\ env_run(es, curenv) /\ UNCHANGED kernel
  BY <1>1, RunKeeps
<1>2. CASE es[curenv].status # "RUNNING" /\ sched_yield(es)
  BY <1>2, YieldKeeps
<1>. QED
  BY <1>1, <1>2 DEF TrapEnd

-----------------------------------------------------------------------------
(* A change to one entry that is in use and stays in use.                   *)
LEMMA ChangeKeeps ==
  ASSUME NEW es, NEW l, Consistent(es, l), NEW e \in Slots, NEW r \in Entries, Waits(r),
         es[e].status # "FREE", r.status # "FREE", r.status = "RUNNING" => e = curenv
  PROVE  Consistent([es EXCEPT ![e] = r], l)
BY DEF Consistent, Exact

(* env_free: the entry goes to the head of the list.                        *)
LEMMA FreeKeeps ==
  ASSUME NEW es, NEW l, Consistent(es, l), NEW e \in Slots, es[e].status # "FREE"
  PROVE  Consistent(Freed(es, e), <<e>> \o l)
<1>. DEFINE r == [Read(es[e]) EXCEPT !.status = "FREE", !.poked = FALSE]
            fs == [es EXCEPT ![e] = r]
            m == <<e>> \o l
<1>1. NoId \in Ids
  BY NENVAssumption DEF NoId, Ids, Slots
<1>2. es \in [Slots -> Entries] /\ l \in Seq(Slots)
  BY DEF Consistent
<1>3. r \in Entries /\ r.status = "FREE" /\ r.asked = NoCall
  BY <1>1, <1>2, Zenon DEF Entries, Statuses, Read
<1>4. fs \in [Slots -> Entries] /\ fs[e] = r /\ \A d \in Slots : d # e => fs[d] = es[d]
  BY <1>2, <1>3
<1>5. Waits(r)
  BY <1>3 DEF Waits
<1>6. /\ m \in Seq(Slots) /\ Len(m) = Len(l) + 1 /\ m[1] = e
      /\ \A i \in 1 .. Len(l) : m[i + 1] = l[i]
      /\ \A i \in 2 .. Len(m) : m[i] = l[i - 1] /\ i - 1 \in 1 .. Len(l)
  BY <1>2
<1>7. DOMAIN l = 1 .. Len(l) /\ DOMAIN m = 1 .. Len(m) /\ Len(l) \in Nat
  BY <1>2, <1>6
<1>8. ~Listed(l, e)
  BY DEF Consistent, Exact
<1>9. \A d \in Slots : Listed(m, d) <=> d = e \/ Listed(l, d)
  <2>. TAKE d \in Slots
  <2>1. ASSUME Listed(m, d), d # e PROVE Listed(l, d)
    <3>1. PICK i \in 1 .. Len(m) : m[i] = d
      BY <1>7, <2>1 DEF Listed
    <3>2. i \in 2 .. Len(m)
      BY <1>6, <1>7, <2>1, <3>1
    <3>. QED
      BY <1>6, <1>7, <3>1, <3>2 DEF Listed
  <2>2. ASSUME Listed(l, d) PROVE Listed(m, d)
    <3>1. PICK i \in 1 .. Len(l) : l[i] = d
      BY <1>7, <2>2 DEF Listed
    <3>2. i + 1 \in 1 .. Len(m) /\ m[i + 1] = d
      BY <1>6, <1>7, <3>1
    <3>. QED
      BY <1>7, <3>2, Zenon DEF Listed
  <2>3. Listed(m, e)
    BY <1>6, <1>7 DEF Listed
  <2>. QED
    BY <2>1, <2>2, <2>3
<1>10. \A i, j \in DOMAIN m : m[i] = m[j] => i = j
  <2>. SUFFICES ASSUME NEW i \in 1 .. Len(m), NEW j \in 1 .. Len(m), m[i] = m[j] PROVE i = j
    BY <1>7
  <2>1. \A k \in 2 .. Len(m) : m[k] # e
    BY <1>6, <1>7, <1>8 DEF Listed
  <2>2. CASE i = 1 \/ j = 1
    BY <1>6, <1>7, <2>1, <2>2
  <2>3. CASE i # 1 /\ j # 1
    <3>1. i \in 2 .. Len(m) /\ j \in 2 .. Len(m)
      BY <2>3, <1>7, <1>6
    <3>2. l[i - 1] = l[j - 1] /\ i - 1 \in DOMAIN l /\ j - 1 \in DOMAIN l
      BY <1>6, <1>7, <3>1
    <3>3. i - 1 = j - 1
      BY <3>2 DEF Consistent, Exact
    <3>. QED
      BY <3>1, <3>3
  <2>. QED
    BY <2>2, <2>3
<1>11. Exact(fs, m)
  BY <1>3, <1>4, <1>9, <1>10 DEF Consistent, Exact
<1>12. Freed(es, e) = fs
  BY DEF Freed
<1>. HIDE DEF fs, m, r
<1>13. \A d \in Slots : Waits(fs[d]) /\ (fs[d].status = "RUNNING" => d = curenv)
  BY <1>3, <1>4, <1>5 DEF Consistent
<1>14. Consistent(fs, m)
  BY <1>4, <1>6, <1>11, <1>13 DEF Consistent
<1>. QED
  BY <1>12, <1>14 DEF m

(* env_alloc: the head of the list is in use from now on.                   *)
LEMMA AllocKeeps ==
  ASSUME NEW es, NEW l, Consistent(es, l), l # <<>>, NEW r \in Entries, Waits(r),
         r.status \notin {"FREE", "RUNNING"}
  PROVE  Consistent([es EXCEPT ![Head(l)] = r], Tail(l))
<1>. DEFINE e == l[1]
            as == [es EXCEPT ![e] = r]
            m == Tail(l)
<1>1. es \in [Slots -> Entries] /\ l \in Seq(Slots) /\ Head(l) = e
  BY DEF Consistent
<1>2. /\ m \in Seq(Slots) /\ e \in Slots /\ Len(m) = Len(l) - 1 /\ Len(l) \in Nat \ {0}
      /\ \A i \in 1 .. Len(m) : m[i] = l[i + 1] /\ i + 1 \in 1 .. Len(l)
      /\ DOMAIN l = 1 .. Len(l) /\ DOMAIN m = 1 .. Len(m)
  BY <1>1
<1>3. \A i, j \in DOMAIN l : l[i] = l[j] => i = j
  BY DEF Consistent, Exact
<1>4. \A i, j \in DOMAIN m : m[i] = m[j] => i = j
  BY <1>2, <1>3
<1>5. ~Listed(m, e)
  BY <1>2, <1>3 DEF Listed
<1>6. \A d \in Slots : d # e => (Listed(m, d) <=> Listed(l, d))
  <2>. TAKE d \in Slots
  <2>1. ASSUME Listed(l, d), d # e PROVE Listed(m, d)
    <3>1. PICK i \in 1 .. Len(l) : l[i] = d
      BY <1>2, <2>1 DEF Listed
    <3>2. i # 1 /\ i - 1 \in 1 .. Len(m) /\ (i - 1) + 1 = i
      BY <1>2, <2>1, <3>1
    <3>3. m[i - 1] = d
      BY <1>2, <3>1, <3>2
    <3>. QED
      BY <1>2, <3>2, <3>3, Zenon DEF Listed
  <2>2. ASSUME Listed(m, d) PROVE Listed(l, d)
    BY <1>2, <2>2 DEF Listed
  <2>. QED
    BY <2>1, <2>2
<1>7. as \in [Slots -> Entries] /\ as[e] = r /\ \A d \in Slots : d # e => as[d] = es[d]
  BY <1>1, <1>2
<1>. HIDE DEF as, m, e
<1>8. Consistent(as, m)
  <2>1. \A d \in Slots : as[d].status = "FREE" <=> Listed(m, d)
    BY <1>5, <1>6, <1>7, Zenon DEF Consistent, Exact
  <2>2. \A d \in Slots : Waits(as[d]) /\ (as[d].status = "RUNNING" => d = curenv)
    BY <1>7, Zenon DEF Consistent
  <2>. QED
    BY <1>2, <1>4, <1>7, <2>1, <2>2, Zenon DEF Consistent, Exact
<1>. QED
  BY <1>1, <1>8 DEF as, m, e

-----------------------------------------------------------------------------
(* Each action keeps the invariant and, of the messages that are in but not *)
(* read, the sender and the permission.                                     *)
Kept(e) ==
  envs[e].asked # NoCall /\ ~envs[e].recving /\ envs'[e].asked # NoCall
    => envs'[e].from = envs[e].from /\ envs'[e].perm = envs[e].perm

LEMMA DestroyKeeps ==
  ASSUME IndInv, User, NEW e \in Slots, envs[e].status # "FREE", env_destroy(e)
  PROVE  IndInv' /\ \A d \in Slots : Kept(d)
<1>1. /\ Consistent(envs, env_free_list) /\ curenv \in Slots /\ kernel = "run"
  BY UserConsistent DEF User
<1>2. Consistent(Freed(envs, e), env_free_list')
  BY <1>1, FreeKeeps DEF env_destroy
<1>3. /\ IndInv'
      /\ \A d \in Slots : Unread(Freed(envs, e), d)
  <2>1. CASE sched_yield(Freed(envs, e))
    BY <1>1, <1>2, <2>1, YieldKeeps
  <2>2. CASE TrapEnd(Freed(envs, e))
    BY <1>1, <1>2, <2>2, TrapEndKeeps
  <2>. QED
    BY <2>1, <2>2 DEF env_destroy
<1>4. envs \in [Slots -> Entries]
  BY <1>1 DEF Consistent
<1>5. Freed(envs, e)[e].asked = NoCall /\ \A d \in Slots : d # e => Freed(envs, e)[d] = envs[d]
  BY <1>4 DEF Freed, Read, Entries
<1>. QED
  BY <1>3, <1>5 DEF Unread, Kept

(* A trap that changes one entry in use, and not its unread message.        *)
LEMMA TrapKeeps ==
  ASSUME IndInv, User, NEW e \in Slots, NEW r \in Entries, Waits(r),
         envs[e].status # "FREE", r.status # "FREE", r.status = "RUNNING" => e = curenv,
         envs[e].asked # NoCall /\ ~envs[e].recving => r.from = envs[e].from /\ r.perm = envs[e].perm,
         UNCHANGED env_free_list,
         TrapEnd([envs EXCEPT ![e] = r]) \/ sched_yield([envs EXCEPT ![e] = r])
  PROVE  IndInv' /\ \A d \in Slots : Kept(d)
<1>. DEFINE es == [envs EXCEPT ![e] = r]
<1>1. /\ Consistent(envs, env_free_list) /\ curenv \in Slots /\ kernel = "run"
  BY UserConsistent DEF User
<1>2. Consistent(es, env_free_list)
  BY <1>1, ChangeKeeps
<1>3. envs \in [Slots -> Entries] /\ es[e] = r /\ \A d \in Slots : d # e => es[d] = envs[d]
  BY <1>1 DEF Consistent
<1>. HIDE DEF es
<1>4. Consistent(es, env_free_list')
  BY <1>2
<1>5. TrapEnd(es) \/ sched_yield(es)
  BY DEF es
<1>6. IndInv' /\ \A d \in Slots : Unread(es, d)
  BY <1>1, <1>4, <1>5, TrapEndKeeps, YieldKeeps
<1>. QED
  BY <1>3, <1>6 DEF Unread, Kept

(* What env_alloc makes of an entry.                                        *)
LEMMA AllocatedEntry ==
  ASSUME NEW r \in Entries, NEW p \in Ids, NEW st \in Statuses
  PROVE  /\ Allocated(r, p, st) \in Entries
         /\ Allocated(r, p, st).status = st /\ Allocated(r, p, st).recving = FALSE
         /\ Allocated(r, p, st).from = r.from /\ Allocated(r, p, st).perm = r.perm
         /\ Allocated(r, p, st).asked = r.asked
<1>1. r.gen + 1 \in Nat
  BY DEF Entries
<1>. DEFINE g == r.gen + 1
            a == [r EXCEPT !.status = st, !.gen = g, !.parent = p, !.recving = FALSE,
                           !.poked = FALSE]
<1>2. Allocated(r, p, st) = a
  BY DEF Allocated
<1>3. g \in Nat
  BY <1>1
<1>. HIDE DEF g
<1>4. a \in Entries
  BY <1>3, Zenon DEF Entries
<1>5. /\ a.status = st /\ a.recving = FALSE
      /\ a.from = r.from /\ a.perm = r.perm /\ a.asked = r.asked
  BY DEF Entries
<1>. QED
  BY <1>2, <1>4, <1>5

LEMMA InitHolds == Init => IndInv
<1>. SUFFICES ASSUME Init PROVE IndInv
  OBVIOUS
<1>. DEFINE l == env_free_list
<1>1. NoId \in Ids /\ 0 \in Slots
  BY NENVAssumption DEF NoId, Ids, Slots
<1>2. Blank \in Entries /\ Blank.status = "FREE" /\ Blank.asked = NoCall
  BY <1>1, VaAssumption DEF Blank, Entries, Statuses
<1>. DEFINE b == Allocated(Blank, NoId, "RUNNABLE")
<1>4. b \in Entries /\ b.status = "RUNNABLE" /\ b.asked = NoCall /\ b.recving = FALSE
  <2>1. Blank.asked = NoCall /\ "RUNNABLE" \in Statuses
    BY DEF Blank, Statuses
  <2>. QED
    BY <1>1, <1>2, <2>1, AllocatedEntry, Zenon
<1>5. envs = [e \in Slots |-> IF e < NBoot THEN b ELSE Blank]
  BY DEF Init
<1>. HIDE DEF b
<1>6. /\ envs \in [Slots -> Entries]
      /\ \A e \in Slots : envs[e].asked = NoCall /\ envs[e].status # "RUNNING"
      /\ \A e \in Slots : envs[e].status = "FREE" <=> NBoot <= e
      /\ \A e \in Slots : envs[e].status # "FREE" => envs[e].recving = FALSE
  BY <1>2, <1>4, <1>5, NENVAssumption, NBootAssumption DEF Slots
<1>7. /\ l = [i \in 1 .. NENV - NBoot |-> NBoot + i - 1]
      /\ NENV - NBoot \in Nat
      /\ \A i \in 1 .. NENV - NBoot : NBoot + i - 1 \in Slots
  BY NENVAssumption, NBootAssumption DEF Init, Slots
<1>8. l \in Seq(Slots) /\ DOMAIN l = 1 .. NENV - NBoot
  BY <1>7
<1>9. FreeListExact
  <2>1. \A i, j \in DOMAIN l : l[i] = l[j] => i = j
    BY <1>7, <1>8, NENVAssumption, NBootAssumption
  <2>2. ASSUME NEW e \in Slots, NBoot <= e PROVE \E i \in DOMAIN l : l[i] = e
    <3>1. e - NBoot + 1 \in 1 .. NENV - NBoot /\ NBoot + (e - NBoot + 1) - 1 = e
      BY <2>2, NENVAssumption, NBootAssumption DEF Slots
    <3>. QED
      BY <1>7, <1>8, <3>1
  <2>3. ASSUME NEW i \in DOMAIN l PROVE NBoot <= l[i]
    BY <1>7, <1>8, <2>3, NENVAssumption, NBootAssumption
  <2>. QED
    BY <1>6, <2>1, <2>2, <2>3 DEF FreeListExact
<1>10. TypeOK
  BY <1>6, <1>8 DEF Init, TypeOK, Entries
<1>. QED
  BY <1>6, <1>9, <1>10 DEF Init, IndInv, OneRunning, RecvReturnsMessage, RecvingMeansBlocked

-----------------------------------------------------------------------------
LEMMA StartUpKeeps ==
  ASSUME IndInv, StartUp
  PROVE  IndInv' /\ \A d \in Slots : Kept(d)
<1>1. Consistent(envs, env_free_list) /\ curenv \in Slots \cup {NoEnv}
  BY IndInvParts DEF IndInv, StartUp, Consistent
<1>2. Consistent(envs, env_free_list')
  BY <1>1 DEF StartUp
<1>3. PICK e \in Slots : envs[e].status = "RUNNABLE" /\ env_run(envs, e)
  BY DEF StartUp, IsNext
<1>4. IndInv' /\ \A d \in Slots : Unread(envs, d)
  BY <1>1, <1>2, <1>3, RunKeeps DEF StartUp
<1>. QED
  BY <1>4 DEF Unread, Kept

LEMMA YieldActionKeeps ==
  ASSUME IndInv, Yield
  PROVE  IndInv' /\ \A d \in Slots : Kept(d)
<1>1. Consistent(envs, env_free_list') /\ curenv \in Slots /\ kernel = "run"
  BY UserConsistent DEF Yield, User
<1>2. IndInv' /\ \A d \in Slots : Unread(envs, d)
  BY <1>1, YieldKeeps DEF Yield
<1>. QED
  BY <1>2 DEF Unread, Kept

LEMMA PanicKeeps ==
  ASSUME IndInv, Panic
  PROVE  IndInv' /\ \A d \in Slots : Kept(d)
BY DEF IndInv, Panic, TypeOK, FreeListExact, OneRunning, RecvReturnsMessage,
       RecvingMeansBlocked, Kept

LEMMA ExoforkKeeps ==
  ASSUME IndInv, sys_exofork
  PROVE  IndInv' /\ \A d \in Slots : Kept(d)
<1>. DEFINE e == Head(env_free_list)
            r == Allocated(envs[e], Id(envs, curenv), "NOT_RUNNABLE")
            es == [envs EXCEPT ![e] = r]
<1>1. /\ Consistent(envs, env_free_list) /\ curenv \in Slots /\ kernel = "run"
      /\ env_free_list # <<>> /\ env_free_list' = Tail(env_free_list)
  BY UserConsistent DEF User, sys_exofork
<1>2. envs \in [Slots -> Entries] /\ env_free_list \in Seq(Slots) /\ e \in Slots
  BY <1>1 DEF Consistent
<1>3. Id(envs, curenv) \in Ids
  BY <1>1, <1>2 DEF Id, Ids, Entries
<1>4. /\ r \in Entries /\ r.status = "NOT_RUNNABLE" /\ r.recving = FALSE
      /\ r.from = envs[e].from /\ r.perm = envs[e].perm /\ r.asked = envs[e].asked
  <2>1. envs[e] \in Entries /\ "NOT_RUNNABLE" \in Statuses
    BY <1>2 DEF Statuses
  <2>. QED
    BY <1>3, <2>1, AllocatedEntry, ZenonT(30)
<1>5. TrapEnd(es)
  BY DEF sys_exofork
<1>6. es[e] = r /\ \A d \in Slots : d # e => es[d] = envs[d]
  BY <1>2
<1>. HIDE DEF r
<1>7. Waits(r)
  BY <1>4 DEF Waits
<1>8. Consistent(es, env_free_list')
  BY <1>1, <1>4, <1>7, AllocKeeps
<1>. HIDE DEF es
<1>9. IndInv' /\ \A d \in Slots : Unread(es, d)
  BY <1>1, <1>5, <1>8, TrapEndKeeps
<1>. QED
  BY <1>2, <1>4, <1>6, <1>9 DEF Unread, Kept

LEMMA ExoforkFullKeeps ==
  ASSUME IndInv, ExoforkFull
  PROVE  IndInv' /\ \A d \in Slots : Kept(d)
<1>1. PICK e \in Slots : TrapEnd([envs EXCEPT ![e] = [envs[e] EXCEPT !.status = "NOT_RUNNABLE"]])
  BY Zenon DEF ExoforkFull
<1>. DEFINE r == [envs[e] EXCEPT !.status = "NOT_RUNNABLE"]
<1>2. envs[e] \in Entries /\ Waits(envs[e]) /\ envs[e].status # "FREE"
  BY IndInvParts DEF ExoforkFull, Exact, Listed
<1>3. /\ r \in Entries /\ r.status = "NOT_RUNNABLE" /\ r.recving = envs[e].recving
      /\ r.poked = envs[e].poked /\ r.asked = envs[e].asked
      /\ r.from = envs[e].from /\ r.perm = envs[e].perm
  BY <1>2 DEF Entries, Statuses
<1>. HIDE DEF r
<1>4. Waits(r)
  BY <1>2, <1>3 DEF Waits
<1>. QED
  BY <1>1, <1>2, <1>3, <1>4, TrapKeeps, Zenon DEF ExoforkFull, r

LEMMA SetStatusKeeps ==
  ASSUME IndInv, NEW id \in {Id(envs, e) : e \in Slots},
         NEW status \in {"RUNNABLE", "NOT_RUNNABLE"}, sys_env_set_status(id, status)
  PROVE  IndInv' /\ \A d \in Slots : Kept(d)
<1>. DEFINE e == id[1]
            r == WithStatus(envs[e], status)
<1>1. e \in Slots
  BY DEF Id
<1>2. envs[e] \in Entries /\ envs[e].status # "FREE"
  BY <1>1, IndInvParts DEF sys_env_set_status, Found
<1>3. /\ r \in Entries /\ r.status = status /\ r.recving = envs[e].recving
      /\ r.poked = envs[e].recving
      /\ r.from = envs[e].from /\ r.perm = envs[e].perm
  BY <1>2, Zenon DEF WithStatus, Entries, Statuses
<1>4. TrapEnd([envs EXCEPT ![e] = r])
  BY DEF sys_env_set_status
<1>. HIDE DEF r, e
<1>5. Waits(r)
  BY <1>3 DEF Waits
<1>. QED
  BY <1>1, <1>2, <1>3, <1>4, <1>5, TrapKeeps DEF sys_env_set_status

LEMMA SendKeeps ==
  ASSUME IndInv, NEW id \in {Id(envs, e) : e \in Slots}, NEW page \in BOOLEAN,
         sys_ipc_try_send(id, page)
  PROVE  IndInv' /\ \A d \in Slots : Kept(d)
<1>. DEFINE e == id[1]
            mapped == page /\ envs[e].dstva \in VAs
            r == Delivered(envs[e], Id(envs, curenv), mapped)
<1>1. e \in Slots
  BY DEF Id
<1>2. envs[e] \in Entries /\ envs[e].status # "FREE" /\ envs[e].recving
  BY <1>1, IndInvParts DEF sys_ipc_try_send, Found, CanSend
<1>3. Id(envs, curenv) \in Ids
  <2>1. curenv \in Slots /\ envs \in [Slots -> Entries]
    BY UserConsistent, IndInvParts DEF sys_ipc_try_send
  <2>. QED
    BY <2>1 DEF Id, Ids, Entries
<1>4. TrapEnd([envs EXCEPT ![e] = r])
  BY DEF sys_ipc_try_send
<1>5. mapped \in BOOLEAN
  OBVIOUS
<1>. HIDE DEF mapped
<1>6. r \in Entries /\ r.status = "RUNNABLE" /\ r.recving = FALSE
  BY <1>2, <1>3, <1>5, Zenon DEF Delivered, Entries, Statuses
<1>. HIDE DEF r, e
<1>7. Waits(r)
  BY <1>6 DEF Waits
<1>. QED
  BY <1>1, <1>2, <1>4, <1>6, <1>7, TrapKeeps DEF sys_ipc_try_send

LEMMA RecvKeeps ==
  ASSUME IndInv, NEW va \in VAs \cup {NoVa}, sys_ipc_recv(va)
  PROVE  IndInv' /\ \A d \in Slots : Kept(d)
<1>. DEFINE r == Receiving(envs[curenv], va)
<1>1. curenv \in Slots /\ envs[curenv].status = "RUNNING"
  BY UserConsistent DEF sys_ipc_recv
<1>2. envs[curenv] \in Entries
  BY <1>1, IndInvParts
<1>3. Address(envs[curenv].dstva, va) \in VAs
  BY <1>2 DEF Address, Entries
<1>4. /\ r \in Entries /\ r.status = "NOT_RUNNABLE" /\ r.asked = va
      /\ r.from = envs[curenv].from /\ r.perm = envs[curenv].perm
  BY <1>2, <1>3, Zenon DEF Receiving, Entries, Statuses
<1>5. sched_yield([envs EXCEPT ![curenv] = r])
  BY DEF sys_ipc_recv
<1>. HIDE DEF r
<1>6. Waits(r)
  BY <1>4, VaAssumption DEF Waits
<1>. QED
  BY <1>1, <1>2, <1>4, <1>5, <1>6, TrapKeeps DEF sys_ipc_recv

-----------------------------------------------------------------------------
LEMMA NextKeeps ==
  ASSUME IndInv, [Next]_vars
  PROVE  IndInv' /\ \A d \in Slots : Kept(d)
<1>1. CASE UNCHANGED vars
  BY <1>1 DEF vars, IndInv, TypeOK, FreeListExact, OneRunning, RecvReturnsMessage,
              RecvingMeansBlocked, Kept
<1>2. CASE StartUp
  BY <1>2, StartUpKeeps
<1>3. CASE Yield
  BY <1>3, YieldActionKeeps
<1>4. CASE Killed
  <2>1. User /\ curenv \in Slots /\ envs[curenv].status # "FREE" /\ env_destroy(curenv)
    BY <1>4, UserConsistent DEF Killed
  <2>. QED
    BY <2>1, DestroyKeeps
<1>5. CASE Panic
  BY <1>5, PanicKeeps
<1>6. CASE Syscall
  <2>1. CASE sys_exofork
    BY <2>1, ExoforkKeeps
  <2>2. CASE ExoforkFull
    BY <2>2, ExoforkFullKeeps
  <2>3. ASSUME NEW id \in {Id(envs, e) : e \in Slots},
               sys_env_destroy(id) \/ sys_env_set_trapframe(id)
        PROVE  IndInv' /\ \A d \in Slots : Kept(d)
    <3>1. User /\ id[1] \in Slots /\ envs[id[1]].status # "FREE" /\ env_destroy(id[1])
      BY <2>3 DEF sys_env_destroy, sys_env_set_trapframe, Found, Id
    <3>. QED
      BY <3>1, DestroyKeeps
  <2>4. ASSUME NEW id \in {Id(envs, e) : e \in Slots},
               NEW status \in {"RUNNABLE", "NOT_RUNNABLE"}, sys_env_set_status(id, status)
        PROVE  IndInv' /\ \A d \in Slots : Kept(d)
    BY <2>4, SetStatusKeeps
  <2>5. ASSUME NEW id \in {Id(envs, e) : e \in Slots}, NEW page \in BOOLEAN,
               sys_ipc_try_send(id, page)
        PROVE  IndInv' /\ \A d \in Slots : Kept(d)
    BY <2>5, SendKeeps
  <2>6. ASSUME NEW va \in VAs \cup {NoVa}, sys_ipc_recv(va)
        PROVE  IndInv' /\ \A d \in Slots : Kept(d)
    BY <2>6, RecvKeeps
  <2>. QED
    BY <1>6, <2>1, <2>2, <2>3, <2>4, <2>5, <2>6 DEF Syscall
<1>. QED
  BY <1>1, <1>2, <1>3, <1>4, <1>5, <1>6 DEF Next

(* Whatever the programs do, in user mode exactly the current environment   *)
(* is ENV_RUNNING, the free list is exactly the free entries, and the IPC   *)
(* fields agree with the statuses.                                          *)
THEOREM EnvironmentsConsistent == Spec => []IndInv
<1>1. Init => IndInv
  BY InitHolds
<1>2. IndInv /\ [Next]_vars => IndInv'
  BY NextKeeps
<1>. QED
  BY <1>1, <1>2, PTL DEF Spec

(* env_alloc and env_free never lose an entry nor hand one out twice.       *)
THEOREM FreeListCorrect == Spec => []FreeListExact
<1>1. IndInv => FreeListExact
  BY DEF IndInv
<1>. QED
  BY <1>1, EnvironmentsConsistent, PTL

(* One environment has the CPU; sched_halt is entered only with none left.  *)
THEOREM ExactlyOneRuns == Spec => []OneRunning
<1>1. IndInv => OneRunning
  BY DEF IndInv
<1>. QED
  BY <1>1, EnvironmentsConsistent, PTL

(* Only a message or a parent ends sys_ipc_recv.                            *)
THEOREM ReceiveReturnsMessage == Spec => []RecvReturnsMessage
<1>1. IndInv => RecvReturnsMessage
  BY DEF IndInv
<1>. QED
  BY <1>1, EnvironmentsConsistent, PTL

(* A delivered message is not overwritten before its receiver runs.         *)
THEOREM MessagesKept == Spec => MessageKept
<1>1. IndInv /\ [Next]_vars =>
        [\A e \in Slots :
           envs[e].asked # NoCall /\ ~envs[e].recving /\ envs[e]'.asked # NoCall
             => envs[e]'.from = envs[e].from /\ envs[e]'.perm = envs[e].perm]_vars
  BY NextKeeps DEF Kept
<1>. QED
  BY <1>1, EnvironmentsConsistent, PTL DEF Spec, MessageKept
====
