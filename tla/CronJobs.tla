----------------------------- MODULE CronJobs -----------------------------
(***************************************************************************)
(* The jobs of Scheduler, which numbers their moments, over the moments of *)
(* cron expressions that CronSchedule finds.                               *)
(***************************************************************************)
EXTENDS Scheduler, CronSchedule

\* The numbers of moments that every expression comes to.
Continued == {n \in 0..(MaxTime + 1) : GoesOn(n)}

\* The n-th moment of a job, as the engine counts them, is the n-th moment its
\* cron expression names.  The search gives up only on days that not every year
\* has: such a job is accepted up to a year before its day, and once its run is
\* due the engine's cycle fails at it (computeNextSchedule), again and again,
\* with the runs of all other jobs.
ScheduleGoesOn == \A j \in Jobs : job[j].next \in Continued
=============================================================================
