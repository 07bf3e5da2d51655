------------------------------- MODULE MCBoot -------------------------------
(* What the Main thread goes through, for TLC: the page tables, the         *)
(* scheduler's promise of a turn, the self-tests, and the start of the      *)
(* session, examined one at a time: the one the boot is `on`; the others    *)
(* stay as they begin.                                                      *)
EXTENDS VirtualMemory

\* Tables of two entries.  Processes map three addresses of their own, two of them in
\* one table, and one under a huge page.
Mapped == {<<0, 1, 0, 0>>, <<0, 1, 0, 1>>, <<0, 1, 1, 0>>, <<0, 0, 1, 0>>}

Kva == <<1, 0, 0, 0>>

Kuser == <<0, 0, 0, 1>>

CONSTANTS Main, w1, w2, w3      \* the threads of the scheduler

VARIABLES
  on,
  current, state, priority, link, quantum, sleepers, sleepLeft, waiters, pc, waking, isr, struck,
  at, started, raised, s_cmds, s_cmd_idx, todo, did, saved, panic,
  k, ready, active, halted

\* Three workers of one priority and the idle loop, under fairness.
L == INSTANCE Scheduler WITH
  Thread <- {Main, w1, w2, w3}, Quantum <- 2, SleepTicks <- {2}, PriorityChoices <- {}

\* Every program is on the disk; all may be late but the shells of M19 and M20.
Programs == INSTANCE MCSelfTests WITH OnDisk <- {}, Slow <- {}

T == INSTANCE SelfTests WITH
  OnDisk <- {"hello3", "winapp", "consumer"}, Slow <- Programs!Prog \ {"shell3", "shell4"}

\* Memory may be too short for any of the programs that the session launches.
Steps == INSTANCE Session WITH Scarce <- {}

N == INSTANCE Session WITH
  Scarce <- {Steps!LaunchShell[i][1] : i \in 1 .. Len(Steps!LaunchShell)}

lVars == <<current, state, priority, link, quantum, sleepers, sleepLeft, waiters, pc, waking,
           isr, struck>>

tVars == <<at, started, raised, s_cmds, s_cmd_idx, todo, did, saved, panic>>

nVars == <<k, ready, active, halted>>

all == <<on, vars, lVars, tVars, nVars>>

BootInit ==
  /\ on \in {"tables", "turns", "tests", "session"}
  /\ Init /\ L!Init /\ T!Init /\ N!Init
  /\ on # "session" => "framebuffer" \in ready

BootNext ==
  /\ UNCHANGED on
  /\ \/ on = "tables" /\ Next /\ UNCHANGED <<lVars, tVars, nVars>>
     \/ on = "turns" /\ L!Next /\ UNCHANGED <<vars, tVars, nVars>>
     \/ on = "tests" /\ T!Next /\ UNCHANGED <<vars, lVars, nVars>>
     \/ on = "session" /\ N!Next /\ UNCHANGED <<vars, lVars, tVars>>

\* The fairness of Scheduler and of SelfTests, each for its own behaviours.
BootFairness ==
  /\ WF_lVars(on = "turns" /\ L!TimerHandler)
  /\ WF_lVars(on = "turns" /\ \E i \in 1 .. Len(sleepers) : L!WakeSleeper(i))
  /\ WF_lVars(on = "turns" /\ L!Tick)
  /\ SF_lVars(on = "turns" /\ L!SwitchAway)
  /\ SF_lVars(on = "turns" /\ L!UnblockThread)
  /\ SF_lVars(on = "turns" /\ current = Main /\ L!Yield)
  /\ WF_tVars(on = "tests" /\ T!KernelMain)
  /\ \A p \in T!Prog : WF_tVars(on = "tests" /\ T!RunProgram(p))

BootSpec == BootInit /\ [][BootNext]_all /\ BootFairness

-----------------------------------------------------------------------------
(* What Scheduler, SelfTests and Session promise, by the same names.       *)

\* A sleeping thread runs again.
SleeperReturns == L!SleeperReturns

\* A thread in a ready queue gets its turn, when all have one priority.
RoundRobin == L!RoundRobin

\* A test past which the boot has gone was passed by its own program.
TestsSeen == T!TestsSeen

\* The boot reaches the session.
BootReachesSession == on = "tests" => T!BootReachesSession

\* Unless memory runs out, every part of the session comes up.
SessionComesUp == N!SessionComesUp
=============================================================================
