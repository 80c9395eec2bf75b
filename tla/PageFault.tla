----------------------------- MODULE PageFault -----------------------------
(***************************************************************************)
(* The flag in_page_fault, from the page fault of a program (trap and      *)
(* page_fault_handler of kern/trap.c) to the next one.  It is set on entry *)
(* and must be down again when a program runs.                             *)
(*                                                                         *)
(* Which environment runs next is left open here; Env has the scheduler.   *)
(* Of the frames, kept is whether tf_trapno of the first entry of envs is  *)
(* T_PGFLT: the test before the reset reads envs->env_tf.                  *)
(***************************************************************************)
EXTENDS Integers

CONSTANT NENV  \* size of envs

Slots == 0 .. NENV - 1

VARIABLES
  live,           \* entries in use
  curenv,
  upcall,         \* entries whose env_pgfault_upcall is set
  first_pgflt,    \* envs->env_tf.tf_trapno == T_PGFLT
  in_page_fault,
  panicked

vars == <<live, curenv, upcall, first_pgflt, in_page_fault, panicked>>

Init ==
  /\ live \in {0 .. n : n \in Slots} /\ curenv \in live
  /\ upcall = {}
  /\ first_pgflt = FALSE
  /\ in_page_fault = FALSE
  /\ panicked = FALSE

(* curenv->env_tf = *tf in trap.                                            *)
Frame(pgflt) == IF curenv = 0 THEN pgflt ELSE first_pgflt

(* Any trap but a page fault, after which any environment may run.          *)
Trap ==
  /\ ~panicked
  /\ curenv' \in live
  /\ first_pgflt' = Frame(FALSE)
  /\ UNCHANGED <<live, upcall, in_page_fault, panicked>>

sys_env_set_pgfault_upcall(e) ==
  /\ ~panicked /\ e \in live
  /\ upcall' \in {upcall \cup {e}, upcall \ {e}}
  /\ first_pgflt' = Frame(FALSE)
  /\ UNCHANGED <<live, curenv, in_page_fault, panicked>>

(* sys_exofork: env_alloc clears the upcall, the frame is the caller's.     *)
sys_exofork(e) ==
  /\ ~panicked /\ e \notin live
  /\ live' = live \cup {e}
  /\ upcall' = upcall \ {e}
  /\ first_pgflt' = (Frame(FALSE) /\ e # 0)
  /\ UNCHANGED <<curenv, in_page_fault, panicked>>

(* sys_env_set_trapframe copies the caller's tf_trapno, to any environment. *)
sys_env_set_trapframe(e, pgflt) ==
  /\ ~panicked /\ e \in live
  /\ first_pgflt' = IF e = 0 THEN pgflt ELSE Frame(FALSE)
  /\ UNCHANGED <<live, curenv, upcall, in_page_fault, panicked>>

(* env_destroy(curenv) ends in sched_yield, before the reset.               *)
DestroySelf ==
  /\ live' = live \ {curenv}
  /\ curenv' \in live'
  /\ UNCHANGED <<upcall, panicked>>

Exits ==
  /\ ~panicked
  /\ DestroySelf
  /\ first_pgflt' = Frame(FALSE)
  /\ UNCHANGED in_page_fault

(* env_destroy of another environment reaches it.                           *)
Destroys(e) ==
  /\ ~panicked /\ e \in live \ {curenv}
  /\ live' = live \ {e}
  /\ first_pgflt' = Frame(FALSE)
  /\ in_page_fault' = FALSE
  /\ UNCHANGED <<curenv, upcall, panicked>>

-----------------------------------------------------------------------------
(* The fault goes to the upcall.  (One that force_alloc_page resolves is    *)
(* back in the program with the flag down and no frame saved.)              *)
Upcall ==
  /\ ~panicked /\ ~in_page_fault /\ curenv \in upcall
  /\ first_pgflt' = Frame(TRUE)
  /\ in_page_fault' = ~first_pgflt'
  /\ UNCHANGED <<live, curenv, upcall, panicked>>

(* No upcall, or no exception stack.                                        *)
FaultKills ==
  /\ ~panicked /\ ~in_page_fault
  /\ in_page_fault' = TRUE
  /\ first_pgflt' = Frame(TRUE)
  /\ DestroySelf

(* assert(!in_page_fault), before the fault is looked at.                   *)
AssertFails ==
  /\ ~panicked /\ in_page_fault
  /\ panicked' = TRUE
  /\ UNCHANGED <<live, curenv, upcall, first_pgflt, in_page_fault>>

Next ==
  \/ Trap \/ Exits \/ Upcall \/ FaultKills \/ AssertFails
  \/ \E e \in Slots :
       \/ sys_env_set_pgfault_upcall(e) \/ sys_exofork(e) \/ Destroys(e)
       \/ \E pgflt \in BOOLEAN : sys_env_set_trapframe(e, pgflt)

Spec == Init /\ [][Next]_vars

-----------------------------------------------------------------------------
(* assert(!in_page_fault) of trap holds: the page fault of a program,        *)
(* handled or fatal, is over when the next one comes.                        *)
AssertHolds == ~panicked
============================================================================
