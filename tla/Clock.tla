-------------------------------- MODULE Clock ---------------------------------
(***************************************************************************)
(* The tick counter and the processes that sleep on it (sysproc.c:         *)
(* sys_sleep, sys_uptime; trap.c: the timer interrupt of CPU 0).           *)
(*                                                                         *)
(* ticks is an unsigned word that wraps round; the argument of sleep() is  *)
(* signed, and the comparison with it unsigned.  tickslock makes the test  *)
(* and the falling asleep one step for the timer, but not for kill(),      *)
(* which takes ptable.lock only.  A process that has been woken may wait   *)
(* for a CPU for some ticks before it tests again.                         *)
(***************************************************************************)
EXTENDS Integers, FiniteSets

CONSTANTS Sleepers, \* processes
          WORD,     \* 2^w, for words of w bits
          Naps,     \* arguments of sleep(), as signed words
          MaxLag    \* ticks that a process may wait for a CPU

VARIABLES
  ticks,
  tickslock, \* who has it: a process, "timer" or "free"
  pc,        \* where a process is in sys_sleep()
  ticks0, n, \* its local variables
  killed,    \* p->killed
  elapsed,   \* the ticks since the call, uncounted beyond Horizon
  lag        \* the ticks since the process became runnable

clockVars == <<ticks, tickslock>>
callVars  == <<pc, ticks0, n, killed>>
vars == <<clockVars, callVars, elapsed, lag>>

Nobody  == "free"
Horizon == WORD + MaxLag + 1

TypeOK ==
  /\ ticks \in 0 .. (WORD - 1)
  /\ tickslock \in Sleepers \cup {"timer", Nobody}
  /\ \A p \in Sleepers :
       /\ pc[p] \in {"user", "called", "test", "sleep", "asleep", "woken", "exited"}
       /\ ticks0[p] \in 0 .. (WORD - 1) /\ n[p] \in 0 .. (WORD - 1)
       /\ pc[p] \in {"test", "sleep"} <=> tickslock = p
       /\ killed[p] \in BOOLEAN
       /\ elapsed[p] \in 0 .. Horizon
       /\ lag[p] \in 0 .. MaxLag

Init ==
  /\ ticks = 0 /\ tickslock = Nobody
  /\ pc = [p \in Sleepers |-> "user"]
  /\ ticks0 = [p \in Sleepers |-> 0] /\ n = ticks0
  /\ killed = [p \in Sleepers |-> FALSE]
  /\ elapsed = ticks0 /\ lag = ticks0

-------------------------------------------------------------------------------

\* sleep(k) is called; trap() does not let a killed process get that far.
call(p, k) ==
  /\ pc[p] = "user" /\ ~killed[p]
  /\ pc' = [pc EXCEPT ![p] = "called"]
  /\ n' = [n EXCEPT ![p] = k % WORD]
  /\ UNCHANGED <<clockVars, ticks0, killed, elapsed, lag>>

\* sys_sleep() notes the time.
begin(p) ==
  /\ pc[p] = "called" /\ tickslock = Nobody
  /\ tickslock' = p
  /\ pc' = [pc EXCEPT ![p] = "test"]
  /\ ticks0' = [ticks0 EXCEPT ![p] = ticks]
  /\ elapsed' = [elapsed EXCEPT ![p] = 0]
  /\ UNCHANGED <<ticks, n, killed, lag>>

\* ticks < ticks0 + n, which is something else when the clock wraps round.
Waits_sum(p) == ticks < (ticks0[p] + n[p]) % WORD

\* ticks - ticks0 < n, between unsigned words.
Waits(p) == (ticks - ticks0[p]) % WORD < n[p]

\* sys_sleep() returns; its variables are gone.
Returns(p) ==
  /\ pc' = [pc EXCEPT ![p] = "user"]
  /\ ticks0' = [ticks0 EXCEPT ![p] = 0] /\ n' = [n EXCEPT ![p] = 0]
  /\ elapsed' = [elapsed EXCEPT ![p] = 0]
  /\ tickslock' = Nobody

\* The loop does not look at killed.
test_deaf(p) ==
  /\ pc[p] = "test"
  /\ IF Waits(p)
     THEN pc' = [pc EXCEPT ![p] = "sleep"] /\ UNCHANGED <<ticks0, n, elapsed, tickslock>>
     ELSE Returns(p)
  /\ UNCHANGED <<ticks, killed, lag>>

\* The loop of sys_sleep(): the test, and the look at killed.
test(p) ==
  /\ pc[p] = "test"
  /\ IF Waits(p) /\ ~killed[p]
     THEN pc' = [pc EXCEPT ![p] = "sleep"] /\ UNCHANGED <<ticks0, n, elapsed, tickslock>>
     ELSE Returns(p)
  /\ UNCHANGED <<ticks, killed, lag>>

\* sleep() takes ptable.lock, releases tickslock and gives up the CPU.
sleep(p) ==
  /\ pc[p] = "sleep"
  /\ pc' = [pc EXCEPT ![p] = "asleep"]
  /\ tickslock' = Nobody
  /\ UNCHANGED <<ticks, ticks0, n, killed, elapsed, lag>>

\* The process has a CPU again: sleep() takes tickslock back.
resume(p) ==
  /\ pc[p] = "woken" /\ tickslock = Nobody
  /\ tickslock' = p
  /\ pc' = [pc EXCEPT ![p] = "test"]
  /\ lag' = [lag EXCEPT ![p] = 0]
  /\ UNCHANGED <<ticks, ticks0, n, killed, elapsed>>

Wake(S) == [p \in Sleepers |-> IF p \in S /\ pc[p] = "asleep" THEN "woken" ELSE pc[p]]

\* wakeup(&ticks) wakes everybody who sleeps on the clock.
wakeup == Wake(Sleepers)

InCall(p) == pc[p] \in {"test", "sleep", "asleep", "woken"}

\* The timer interrupt counts ...
tick ==
  /\ tickslock = Nobody
  /\ \A p \in Sleepers : pc[p] = "woken" => lag[p] < MaxLag
  /\ tickslock' = "timer"
  /\ ticks' = (ticks + 1) % WORD
  /\ elapsed' = [p \in Sleepers |->
       IF InCall(p) /\ elapsed[p] < Horizon THEN elapsed[p] + 1 ELSE elapsed[p]]
  /\ lag' = [p \in Sleepers |-> IF pc[p] = "woken" THEN lag[p] + 1 ELSE 0]
  /\ UNCHANGED callVars

\* ... and wakes.
tickWakes ==
  /\ tickslock = "timer"
  /\ pc' = wakeup
  /\ tickslock' = Nobody
  /\ UNCHANGED <<ticks, ticks0, n, killed, elapsed, lag>>

\* kill(), under ptable.lock only.
kill(p) ==
  /\ ~killed[p] /\ pc[p] # "exited"
  /\ killed' = [killed EXCEPT ![p] = TRUE]
  /\ pc' = Wake({p})
  /\ UNCHANGED <<clockVars, ticks0, n, elapsed, lag>>

\* trap() lets a killed process exit on its way to user mode.
exit(p) ==
  /\ killed[p] /\ pc[p] = "user"
  /\ pc' = [pc EXCEPT ![p] = "exited"]
  /\ UNCHANGED <<clockVars, ticks0, n, killed, elapsed, lag>>

Proceed(p) == begin(p) \/ test(p) \/ sleep(p) \/ resume(p) \/ exit(p)

Next ==
  \/ tick \/ tickWakes
  \/ \E p \in Sleepers : Proceed(p) \/ kill(p) \/ \E k \in Naps : call(p, k)

Spec == Init /\ [][Next]_vars

\* The timer goes on, a process that can run runs, and neither loses every race for the
\* lock.
Fairness ==
  /\ SF_vars(tick) /\ WF_vars(tickWakes)
  /\ \A p \in Sleepers : SF_vars(Proceed(p))

FairSpec == Spec /\ Fairness

-------------------------------------------------------------------------------
(* Properties. *)

\* sleep() returns 0 only when at least as many ticks have passed as were asked for, and
\* no call lasts longer than that and the wait for a CPU, wherever the clock wraps round.
SleepsAsAsked ==
  \A p \in Sleepers :
    n[p] + MaxLag < WORD /\ InCall(p) =>
      /\ elapsed[p] <= n[p] + MaxLag
      /\ pc[p] = "test" /\ ~Waits(p) => elapsed[p] >= n[p]

\* Nobody sleeps through a tick that he did not see: whoever is asleep while the lock is
\* free has tested the present time, also one who was killed after he looked at killed.
NobodyOversleepsTick ==
  \A p \in Sleepers :
    pc[p] = "asleep" /\ tickslock # "timer" => (ticks - ticks0[p]) % WORD < n[p]

\* sleep() ends neither early nor late.
SleepsEndInTime == TypeOK /\ SleepsAsAsked /\ NobodyOversleepsTick

\* A killed process that sleeps gets out of sleep(), however long it meant to, and exits.
KilledEnds == \A p \in Sleepers : killed[p] ~> pc[p] = "exited"
===============================================================================
