-------------------------- MODULE MCCronSchedule --------------------------
(* Scheduler's instances over the moments of cron expressions, in a small   *)
(* calendar: years of two months, of which the second has a leap day every *)
(* fourth year.                                                            *)
EXTENDS MCScheduler, CronJobs

MCCommonYear == << <<1, 1>>, <<1, 2>>, <<1, 3>>, <<2, 1>>, <<2, 2>> >>
LeapYear == Append(MCCommonYear, <<2, 3>>)
MCCalendar ==
    MCCommonYear \o LeapYear \o MCCommonYear \o MCCommonYear \o MCCommonYear \o LeapYear
=============================================================================
