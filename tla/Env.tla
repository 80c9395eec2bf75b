-------------------------------- MODULE Env --------------------------------
(***************************************************************************)
(* Environments, scheduling and IPC of the kernel (kern/env.c,             *)
(* kern/sched.c, kern/trap.c, kern/syscall.c).                             *)
(*                                                                         *)
(* There is one CPU and the kernel runs with interrupts off, so an action  *)
(* is one trap of the current environment, from the trap to the iretq of   *)
(* env_pop_tf.  Programs are arbitrary: the running environment may make   *)
(* any system call, fault or be interrupted.  Registers and the contents   *)
(* of memory are left out; whether a mapping succeeds is an input.  What a *)
(* page fault does to in_page_fault is the subject of PageFault.           *)
(*                                                                         *)
(* An id <<slot, generation>> stands for env_id; <<0, 0>> is no            *)
(* environment.  Slot e is used MaxGen[e] times at most.                   *)
(***************************************************************************)
EXTENDS Integers, Sequences

CONSTANTS NENV,    \* size of envs
          NBoot,   \* environments env_create makes before the first runs
          MaxGen,  \* bound: times each slot is used (2^19 in the code)
          VAs,     \* page addresses below MAX_USER_ADDRESS
          ZeroVa,  \* address 0
          NoVa,    \* any address from MAX_USER_ADDRESS on
          NoCall   \* no receive is under way

ASSUME NENVAssumption == NENV \in Nat \ {0}
ASSUME NBootAssumption == NBoot \in 1 .. NENV
ASSUME MaxGenAssumption == MaxGen \in [0 .. NENV - 1 -> Nat \ {0}]
ASSUME VaAssumption == ZeroVa \in VAs /\ NoVa \notin VAs /\ NoCall \notin VAs \cup {NoVa}

Slots == 0 .. NENV - 1
NoEnv == NENV
NoId == <<0, 0>>
Ids == Slots \X Nat
Statuses == {"FREE", "RUNNABLE", "RUNNING", "NOT_RUNNABLE"}

VARIABLES
  envs,           \* the array of struct Env
  env_free_list,  \* the list through env_link
  curenv,         \* a slot, NoEnv for NULL
  kernel          \* "boot", "run", "monitor" (nothing left to run) or
                  \* "panic"

vars == <<envs, env_free_list, curenv, kernel>>

Id(es, e) == <<e, es[e].gen>>

(* What env_init leaves in an entry.  Of a message, from (env_ipc_from) and  *)
(* perm (env_ipc_perm) are kept until its receiver runs and reads them.      *)
(* asked and poked are history: the address given to the sys_ipc_recv that   *)
(* has not returned yet, and whether a parent set the status of one that     *)
(* waits.                                                                    *)
Blank == [status |-> "FREE", gen |-> 0, parent |-> NoId, recving |-> FALSE, dstva |-> ZeroVa,
          from |-> NoId, perm |-> FALSE, asked |-> NoCall, poked |-> FALSE]

(* env_alloc: the entry keeps its dstva.                                     *)
Allocated(env, parent, status) ==
  [env EXCEPT !.status = status, !.gen = @ + 1, !.parent = parent, !.recving = FALSE,
              !.poked = FALSE]

(* i386_init: env_init, and env_create for the first NBoot entries.         *)
Init ==
  /\ envs = [e \in Slots |-> IF e < NBoot THEN Allocated(Blank, NoId, "RUNNABLE") ELSE Blank]
  /\ env_free_list = [i \in 1 .. NENV - NBoot |-> NBoot + i - 1]
  /\ curenv = NoEnv
  /\ kernel = "boot"

-----------------------------------------------------------------------------
(* sched_yield on the array es: the first runnable entry from the current   *)
(* one on, around the array.                                                *)
Dist(s, e) == IF e >= s THEN e - s ELSE e + NENV - s

(* Variant: the search begins with the first entry every time.              *)
StartFirst == 0

Start == IF curenv = NoEnv THEN 0 ELSE curenv

IsNext(es, e) ==
  /\ es[e].status = "RUNNABLE"
  /\ \A d \in Slots : es[d].status = "RUNNABLE" => Dist(Start, e) <= Dist(Start, d)

NoneRunnable(es) == \A e \in Slots : es[e].status # "RUNNABLE"

(* env_run(e): the environment that was running goes back in line.          *)
Stopped(es) ==
  IF curenv # NoEnv /\ es[curenv].status = "RUNNING"
    THEN [es EXCEPT ![curenv].status = "RUNNABLE"] ELSE es

Read(env) == [env EXCEPT !.from = NoId, !.perm = FALSE, !.asked = NoCall]

env_run(es, e) ==
  /\ envs' = [Stopped(es) EXCEPT ![e] = [Read(@) EXCEPT !.status = "RUNNING"]]
  /\ curenv' = e

(* No entry is runnable or running: sched_halt stays in the monitor.        *)
sched_halt(es) ==
  /\ envs' = es
  /\ kernel' = "monitor"
  /\ UNCHANGED curenv

sched_yield(es) ==
  \/ \E e \in Slots : IsNext(es, e) /\ env_run(es, e) /\ UNCHANGED kernel
  \/ NoneRunnable(es) /\ es[Start].status = "RUNNING" /\ env_run(es, Start) /\ UNCHANGED kernel
  \/ NoneRunnable(es) /\ es[Start].status # "RUNNING" /\ sched_halt(es)

(* The end of i386_init: the first environment is chosen.                   *)
StartUp ==
  /\ kernel = "boot"
  /\ \E e \in Slots : IsNext(envs, e) /\ env_run(envs, e)
  /\ kernel' = "run"
  /\ UNCHANGED env_free_list

-----------------------------------------------------------------------------
(* The end of trap: back to the current environment if it still runs.       *)
TrapEnd(es) ==
  \/ es[curenv].status = "RUNNING" /\ env_run(es, curenv) /\ UNCHANGED kernel
  \/ es[curenv].status # "RUNNING" /\ sched_yield(es)

User == kernel = "run"

(* Timer, keyboard and serial interrupts, and sys_yield.                    *)
Yield ==
  /\ User
  /\ sched_yield(envs)
  /\ UNCHANGED env_free_list

(* A variant of env_free that leaves the status alone.                      *)
FreedKept(es, e) == [es EXCEPT ![e] = [Read(@) EXCEPT !.poked = FALSE]]

(* env_destroy and env_free.                                                *)
Freed(es, e) == [es EXCEPT ![e] = [Read(@) EXCEPT !.status = "FREE", !.poked = FALSE]]

env_destroy(e) ==
  /\ env_free_list' = <<e>> \o env_free_list
  /\ \/ e = curenv /\ sched_yield(Freed(envs, e))
     \/ e # curenv /\ TrapEnd(Freed(envs, e))

(* An unhandled exception, a page fault without an upcall or an exception   *)
(* stack, and every failed user_mem_assert in a system call.                *)
Killed == User /\ env_destroy(curenv)

(* A fault or a failed assertion in the kernel.                             *)
Panic ==
  /\ User
  /\ kernel' = "panic"
  /\ UNCHANGED <<envs, env_free_list, curenv>>

-----------------------------------------------------------------------------
(* System calls.  envid2env: id names an environment that is still there,   *)
(* and the caller may change it if it is itself or its child.               *)
Found(id) == envs[id[1]].status # "FREE" /\ envs[id[1]].gen = id[2]

Permitted(id) == id[1] = curenv \/ envs[id[1]].parent = Id(envs, curenv)

sys_env_destroy(id) == User /\ Found(id) /\ Permitted(id) /\ env_destroy(id[1])

sys_exofork ==
  /\ User /\ env_free_list # <<>>
  /\ envs[Head(env_free_list)].gen < MaxGen[Head(env_free_list)]
  /\ env_free_list' = Tail(env_free_list)
  /\ TrapEnd([envs EXCEPT ![Head(env_free_list)] =
                 Allocated(@, Id(envs, curenv), "NOT_RUNNABLE")])

(* The result of env_alloc is not looked at.  Without a free entry the      *)
(* pointer is what an earlier call left on the stack: an environment, or an *)
(* address whose use is a page fault in the kernel (Panic).                 *)
ExoforkFull ==
  /\ User /\ env_free_list = <<>>
  /\ \E e \in Slots : TrapEnd([envs EXCEPT ![e] = [@ EXCEPT !.status = "NOT_RUNNABLE"]])
  /\ UNCHANGED env_free_list

WithStatus(env, status) == [env EXCEPT !.status = status, !.poked = env.recving]

sys_env_set_status(id, status) ==
  /\ User /\ Found(id) /\ Permitted(id)
  /\ TrapEnd([envs EXCEPT ![id[1]] = WithStatus(@, status)])
  /\ UNCHANGED env_free_list

(* sys_env_set_trapframe checks the pointer in the space of the target and  *)
(* destroys the target, whoever it is, when the check fails.                *)
sys_env_set_trapframe(id) == User /\ Found(id) /\ env_destroy(id[1])

-----------------------------------------------------------------------------
(* IPC.  page: the sender names a page and it can be mapped in the receiver. *)
(* The receiver asks for one when its env_ipc_dstva is a user address.       *)
Delivered(env, from, page) ==
  [env EXCEPT !.recving = FALSE, !.from = from, !.perm = page, !.status = "RUNNABLE",
              !.poked = FALSE]

(* Variant: the status is taken for the flag.                                *)
CanSendStopped(e) == envs[e].status = "NOT_RUNNABLE"

CanSend(e) == envs[e].recving

(* A page that cannot be mapped leaves the receiver as it was.               *)
sys_ipc_try_send(id, page) ==
  /\ User /\ Found(id) /\ CanSend(id[1])
  /\ TrapEnd([envs EXCEPT ![id[1]] =
       Delivered(@, Id(envs, curenv), page /\ envs[id[1]].dstva \in VAs)])
  /\ UNCHANGED env_free_list

(* The address is kept from an earlier receive when this one gives none.     *)
Address(old, va) == IF va \in VAs THEN va ELSE old

Receiving(env, va) ==
  [env EXCEPT !.recving = TRUE, !.status = "NOT_RUNNABLE", !.dstva = Address(@, va),
              !.asked = va, !.poked = FALSE]

sys_ipc_recv(va) ==
  /\ User
  /\ sched_yield([envs EXCEPT ![curenv] = Receiving(@, va)])
  /\ UNCHANGED env_free_list

(* An id that envid2env does not know changes nothing, so the ids tried are  *)
(* those the entries have.                                                   *)
Syscall ==
  \/ sys_exofork \/ ExoforkFull
  \/ \E id \in {Id(envs, e) : e \in Slots} :
       \/ sys_env_destroy(id)
       \/ \E status \in {"RUNNABLE", "NOT_RUNNABLE"} : sys_env_set_status(id, status)
       \/ sys_env_set_trapframe(id)
       \/ \E page \in BOOLEAN : sys_ipc_try_send(id, page)
  \/ \E va \in VAs \cup {NoVa} : sys_ipc_recv(va)

Next == StartUp \/ Yield \/ Killed \/ Panic \/ Syscall

(* User code runs with interrupts on and the timer keeps ticking.            *)
Fairness == WF_vars(StartUp) /\ WF_vars(Yield)

Spec == Init /\ [][Next]_vars /\ Fairness

-----------------------------------------------------------------------------
(* The shape of envs, the free list and the kernel's variables; ENV_DYING is *)
(* never seen between two traps.                                             *)
TypeOK ==
  /\ envs \in [Slots -> [status : Statuses, gen : Nat, parent : Ids, recving : BOOLEAN,
                         dstva : VAs, from : Ids, perm : BOOLEAN,
                         asked : VAs \cup {NoVa, NoCall}, poked : BOOLEAN]]
  /\ env_free_list \in Seq(Slots)
  /\ curenv \in Slots \cup {NoEnv}
  /\ kernel \in {"boot", "run", "monitor", "panic"}

(* The list env_alloc takes from and env_free pushes on holds every ENV_FREE *)
(* entry once and no other, whoever was destroyed by whom in which order.    *)
FreeListExact ==
  /\ \A e \in Slots : envs[e].status = "FREE" <=> \E i \in DOMAIN env_free_list : env_free_list[i] = e
  /\ \A i, j \in DOMAIN env_free_list : env_free_list[i] = env_free_list[j] => i = j

(* In user mode the current environment is ENV_RUNNING and no other is: the  *)
(* line sched_yield looks for at the end is the caller, and the loop of      *)
(* sched_halt always ends in the monitor.                                    *)
OneRunning ==
  /\ kernel = "run" => \A e \in Slots : envs[e].status = "RUNNING" <=> e = curenv
  /\ kernel = "monitor" => \A e \in Slots : envs[e].status \notin {"RUNNING", "RUNNABLE"}

(* Only a message, or a parent through sys_env_set_status, ends a            *)
(* sys_ipc_recv: an environment in one is not runnable while it still waits. *)
RecvReturnsMessage ==
  \A e \in Slots : envs[e].asked # NoCall /\ envs[e].recving /\ ~envs[e].poked
                     => envs[e].status = "NOT_RUNNABLE"

(* A sender finds env_ipc_recving up only while the environment is blocked   *)
(* in sys_ipc_recv, again unless a parent woke it: a new environment does    *)
(* not inherit the wait of the one before it in the entry.                   *)
RecvingMeansBlocked ==
  \A e \in Slots : envs[e].status # "FREE" /\ envs[e].recving /\ ~envs[e].poked
                     => envs[e].asked # NoCall

(* A message that was delivered is not overwritten by a later sender before  *)
(* the receiver has run.                                                     *)
MessageKept ==
  [][\A e \in Slots :
       envs[e].asked # NoCall /\ ~envs[e].recving /\ envs[e]'.asked # NoCall
         => envs[e]'.from = envs[e].from /\ envs[e]'.perm = envs[e].perm]_vars

(* sched_yield starves nobody: a runnable environment gets the CPU, or is    *)
(* destroyed or stopped by another, or the kernel itself stops.              *)
RunnableRuns ==
  \A e \in Slots : envs[e].status = "RUNNABLE" ~> envs[e].status # "RUNNABLE" \/ kernel = "panic"

(* What every trap keeps: the facts above, and that the current environment  *)
(* is an entry and none is RUNNING before the first one is chosen.           *)
IndInv ==
  /\ TypeOK /\ FreeListExact /\ OneRunning /\ RecvReturnsMessage /\ RecvingMeansBlocked
  /\ kernel = "run" => curenv \in Slots
  /\ kernel = "boot" => curenv = NoEnv /\ \A e \in Slots : envs[e].status # "RUNNING"

(* "If the sender wants to send a page but the receiver isn't asking for     *)
(* one, then no page mapping is transferred": sys_ipc_try_send.  Does not    *)
(* hold: the address of an earlier receive is still there.                   *)
PageOnlyIfAsked ==
  \A e \in Slots : envs[e].asked = NoVa /\ ~envs[e].recving => ~envs[e].perm
============================================================================
