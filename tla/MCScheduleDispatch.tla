-------------------------- MODULE MCScheduleDispatch --------------------------
(* Instances of ScheduleDispatch: one or two schedules, two crons. *)
EXTENDS ScheduleDispatch

CONSTANTS s1, s2

OneSchedule == {s1}
TwoSchedules == {s1, s2}
MCCrons == {"often", "seldom"}
(* "seldom" runs dry while the clock still moves. *)
MCTriggers == [c \in MCCrons |-> IF c = "often" THEN 1..9 ELSE {2}]
OneCron == {"often"}
OneTrigger == [c \in OneCron |-> {1, 2}]
=============================================================================
