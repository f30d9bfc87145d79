------------------------------- MODULE DailyJobs -------------------------------
(***************************************************************************)
(* The daily and weekly jobs of the server (index.ts): the dividend and    *)
(* the reconciliation run every twenty-four hours after the process was    *)
(* started, each time for the day before, and the digest of the dividends  *)
(* every seven days, for the days since.                                   *)
(*                                                                         *)
(* A day is Day ticks long.  Every job has a timer of its own, set at the  *)
(* same moment, and skips a date that it has done before; a run is         *)
(* abstracted to one step.                                                 *)
(***************************************************************************)
EXTENDS ServerLoad, Integers

CONSTANTS
  Jobs,         \* the jobs
  Period,       \* the days between two runs of a job
  Day           \* bound: how finely the day is divided

ASSUME JobsAssumption ==
  /\ Day \in Nat \ {0}
  /\ Period \in [Jobs -> Nat \ {0}]

VARIABLES
  now,          \* ticks since the first day began
  due,          \* when each job is run next
  covered,      \* the days each has been run for
  uncertain     \* days on which the process was started or ended, was not
                \* up, or a job failed (history)

jobVars == <<now, due, covered, uncertain>>

JobsInit ==
  /\ now = 0
  /\ due = [j \in Jobs |-> Period[j] * Day]
  /\ covered = [j \in Jobs |-> {}]
  /\ uncertain = [j \in Jobs |-> {0}]

JobsTypeOK ==
  /\ now \in Nat
  /\ due \in [Jobs -> Nat]
  /\ covered \in [Jobs -> SUBSET Int]
  /\ uncertain \in [Jobs -> SUBSET Nat]

Today == now \div Day

-----------------------------------------------------------------------------
\* Mutant: the run is for the day that is not over.
TargetToday == Today

\* setDate(getDate() - 1)
TargetDate == Today - 1

\* A job is for the days of one period: the dividend for the day before, the
\* digest, which is dated today, for the week before.
Spanned(j) == (TargetDate - Period[j] + 1)..TargetDate

\* The interval is over: the job succeeds, or it fails, which is logged.
RunJob(j) ==
  /\ due[j] = now
  /\ due' = [due EXCEPT ![j] = now + Period[j] * Day]
  /\ \/ /\ covered' = [covered EXCEPT ![j] = @ \cup Spanned(j)]
        /\ UNCHANGED uncertain
     \/ /\ uncertain' = [uncertain EXCEPT ![j] = @ \cup {Today}]
        /\ UNCHANGED covered
  /\ UNCHANGED now

Doubt(days) == uncertain' = [j \in Jobs |-> uncertain[j] \cup days]

\* Time passes; a timer that is due is not late.
Tick(running) ==
  /\ running => \A j \in Jobs : due[j] # now
  /\ Begin("tick")
  /\ now' = now + 1
  /\ IF running THEN UNCHANGED uncertain ELSE Doubt({Today, (now + 1) \div Day})
  /\ UNCHANGED <<due, covered>>

\* The timers are cleared, or are gone with the process.
JobsCutOff ==
  /\ Doubt({Today})
  /\ UNCHANGED <<now, due, covered>>

\* The process is started, and sets them anew.
JobsStart ==
  /\ due' = [j \in Jobs |-> now + Period[j] * Day]
  /\ Doubt({Today})
  /\ UNCHANGED <<now, covered>>

-----------------------------------------------------------------------------
(* Properties.                                                             *)

\* Every day is covered within the next period of the job, unless in that period
\* the process was started, ended or not there, or the job failed.  (Nothing makes up for a day: a process
\* that is started anew every day pays no dividend, and one that is started anew
\* every week sends no digest.)
DayIsCovered ==
  \A j \in Jobs : \A d \in 0..(Today - Period[j] - 1) :
    d \in covered[j] \/ \E e \in uncertain[j] : d < e /\ e <= d + Period[j]
=============================================================================
