------------------------------- MODULE MCKernel -------------------------------
(***************************************************************************)
(* Small instances of Kernel: the priorities of the tasks and what each of *)
(* them may call.                                                          *)
(***************************************************************************)
EXTENDS Kernel

CONSTANTS lo, mid, hi

\* One task per priority.
MCBase == [t \in Tasks \cup {Idle} |->
              CASE t = lo -> 1 [] t = mid -> 2 [] t = hi -> 3 [] OTHER -> 0]

\* The high task and an interrupt post, the low task fetches.
MCMailboxOps == [t \in Tasks |-> IF t = lo THEN {"fetchT", "tryfetch"}
                                 ELSE {"post", "trypost", "delay"}]

\* Every task locks; the upper two sleep, so that the others get to run.
MCMutexOps == [t \in Tasks |-> {"lock", "unlock"} \cup (IF t = lo THEN {} ELSE {"delay"})]
===============================================================================
