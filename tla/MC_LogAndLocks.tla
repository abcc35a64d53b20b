----------------------------- MODULE MC_LogAndLocks ---------------------------
(***************************************************************************)
(* Two parts that share no state, side by side: the log of the file system *)
(* with its crashes, and the spin locks.  A behaviour is one of them, by   *)
(* topic; the variables of the other stay as they are initially.           *)
(***************************************************************************)
EXTENDS Log, SpinLock

\* What SpinLockProofs assumes of the constants holds of the instance.
ASSUME LockAssumption

VARIABLE topic

allVars == <<topic, vars, spinVars>>

MCInit ==
  /\ topic \in {"log", "lock"}
  /\ Init
  /\ LockInit /\ (topic # "lock" => kernel = "lottery")

MCNext ==
  /\ UNCHANGED topic
  /\ \/ topic = "log"  /\ Next     /\ UNCHANGED spinVars
     \/ topic = "lock" /\ LockNext /\ UNCHANGED vars

\* The fairness that each part states; that of the log asks for nothing while it stands still.
MCFairness ==
  /\ Fairness
  /\ \A c \in CPUs :
       WF_allVars(topic = "lock" /\ lockpanic = "none" /\ KernelStep(c) /\ UNCHANGED <<topic, vars>>)

MCSpec == MCInit /\ [][MCNext]_allVars /\ MCFairness

-------------------------------------------------------------------------------
(* LogIsConsistent and RefinesAtomicDisk are in Log, LocksAreSafe is in SpinLock. *)

\* A process asleep in begin_op() is woken again, and a CPU lets interrupts in again and again,
\* unless it spins for one lock for ever.
NobodyIsShutOut == SleeperIsWoken /\ (topic = "lock" => InterruptsAreServed)
===============================================================================
