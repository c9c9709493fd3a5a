------------------------------ MODULE SystemLock ------------------------------
(***************************************************************************)
(* The system lock (system.c): the main loop and the interrupt handlers    *)
(* call system_mutex_lock, which disables interrupts and counts, and       *)
(* system_mutex_unlock, which counts down and enables interrupts at zero.  *)
(* The functions are not atomic; a handler may preempt the main loop       *)
(* wherever interrupts are enabled, but no handler preempts another.       *)
(***************************************************************************)
EXTENDS Naturals

CONSTANT MaxDepth    \* locked sections a context nests

ASSUME DepthAssumption == MaxDepth \in Nat

Contexts == {"main", "handler"}

VARIABLES
  primask,        \* interrupts are disabled (CPSID I)
  lockCounter,    \* g_lockCounter
  active,         \* a handler has preempted the main loop
  at,             \* where each context is in a function of the lock
  reg,            \* the processor register of a count that is under way
  depth           \* locked sections each context has entered and not left

lockVars == <<primask, lockCounter, active, at, reg, depth>>

Places == {"run", "lockLoad", "lockStore", "unlockTest",
           "unlockLoad", "unlockStore", "unlockCheck"}

LockTypeOK ==
  /\ primask \in BOOLEAN
  /\ lockCounter \in 0..MaxDepth
  /\ active \in BOOLEAN
  /\ at \in [Contexts -> Places]
  /\ reg \in [Contexts -> 0..MaxDepth]
  /\ depth \in [Contexts -> 0..MaxDepth]

(* system_init: it runs before anything that locks. *)
LockInit ==
  /\ primask = FALSE
  /\ lockCounter = 0
  /\ active = FALSE
  /\ at = [c \in Contexts |-> "run"]
  /\ reg = [c \in Contexts |-> 0]
  /\ depth = [c \in Contexts |-> 0]

-------------------------------------------------------------------------------
Running(c) == c = IF active THEN "handler" ELSE "main"

Goes(c, from, to) ==
  /\ Running(c)
  /\ at[c] = from
  /\ at' = [at EXCEPT ![c] = to]
  /\ UNCHANGED active

(* A mistake system_mutex_unlock could make: to enable interrupts whatever   *)
(* the counter says.  It stands in for UnlockCheck in no action.             *)
Mistake_UnlockCheck(c) ==
  /\ Goes(c, "unlockCheck", "run")
  /\ primask' = FALSE
  /\ UNCHANGED <<lockCounter, reg, depth>>

-------------------------------------------------------------------------------
(* system_mutex_lock *)
Disable(c) ==
  /\ Goes(c, "run", "lockLoad")
  /\ depth[c] < MaxDepth
  /\ primask' = TRUE
  /\ UNCHANGED <<lockCounter, reg, depth>>

LockLoad(c) ==
  /\ Goes(c, "lockLoad", "lockStore")
  /\ reg' = [reg EXCEPT ![c] = lockCounter]
  /\ UNCHANGED <<primask, lockCounter, depth>>

LockStore(c) ==
  /\ Goes(c, "lockStore", "run")
  /\ lockCounter' = reg[c] + 1
  /\ depth' = [depth EXCEPT ![c] = @ + 1]
  /\ UNCHANGED <<primask, reg>>

(* system_mutex_unlock; every caller locked before. *)
Unlock(c) ==
  /\ Goes(c, "run", "unlockTest")
  /\ depth[c] > 0
  /\ UNCHANGED <<primask, lockCounter, reg, depth>>

UnlockTest(c) ==
  /\ Goes(c, "unlockTest", IF lockCounter > 0 THEN "unlockLoad" ELSE "unlockCheck")
  /\ UNCHANGED <<primask, lockCounter, reg, depth>>

UnlockLoad(c) ==
  /\ Goes(c, "unlockLoad", "unlockStore")
  /\ reg' = [reg EXCEPT ![c] = lockCounter]
  /\ UNCHANGED <<primask, lockCounter, depth>>

UnlockStore(c) ==
  /\ Goes(c, "unlockStore", "unlockCheck")
  /\ lockCounter' = reg[c] - 1
  /\ depth' = [depth EXCEPT ![c] = @ - 1]
  /\ UNCHANGED <<primask, reg>>

UnlockCheck(c) ==
  /\ Goes(c, "unlockCheck", "run")
  /\ primask' = IF lockCounter = 0 THEN FALSE ELSE primask
  /\ UNCHANGED <<lockCounter, reg, depth>>

(* What a call of either function does once it has begun. *)
Completes(c) == \/ LockLoad(c) \/ LockStore(c)
                \/ UnlockTest(c) \/ UnlockLoad(c) \/ UnlockStore(c) \/ UnlockCheck(c)

Locking(c) == Disable(c) \/ Unlock(c) \/ Completes(c)

(* A handler begins where interrupts are enabled, and ends outside sections.  *)
HandlerEnter ==
  /\ ~primask /\ ~active
  /\ active' = TRUE
  /\ UNCHANGED <<primask, lockCounter, at, reg, depth>>

HandlerReturn ==
  /\ active
  /\ at["handler"] = "run" /\ depth["handler"] = 0
  /\ active' = FALSE
  /\ UNCHANGED <<primask, lockCounter, at, reg, depth>>

LockNext == (\E c \in Contexts : Locking(c)) \/ HandlerEnter \/ HandlerReturn

LockSpec == LockInit /\ [][LockNext]_lockVars

-------------------------------------------------------------------------------
(* A context is inside from the moment system_mutex_lock has disabled         *)
(* interrupts until the unlock that matches it is done.                       *)
Inside(c) == depth[c] > 0 \/ at[c] # "run"

(* Property Exclusive: while a context is inside a locked section no other    *)
(* one runs, however the sections nest and wherever handlers come in between; *)
(* and interrupts are disabled nowhere else, so a section that ended does not *)
(* keep them disabled.  Every other module takes a locked section as one step *)
(* because of this.                                                           *)
Exclusive ==
  /\ \A c \in Contexts : Inside(c) => Running(c)
  /\ primask <=> \E c \in Contexts : Inside(c)

(* The inductive invariant behind it: the counter is the number of sections   *)
(* of the context that runs, and a register that will be stored is current.   *)
CounterInv ==
  \A c \in Contexts :
    /\ Running(c) => lockCounter = depth[c]
    /\ at[c] \in {"lockStore", "unlockStore"} => reg[c] = lockCounter
    /\ at[c] \in {"lockLoad", "lockStore"} => depth[c] < MaxDepth
    /\ at[c] \in {"unlockTest", "unlockLoad", "unlockStore"} => depth[c] > 0

LockInv == LockTypeOK /\ Exclusive /\ CounterInv
===============================================================================
