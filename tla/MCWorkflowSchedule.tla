--------------------------- MODULE MCWorkflowSchedule ---------------------------
(* WorkflowSchedule on a clock of a few units.                             *)
EXTENDS WorkflowSchedule

CONSTANTS tick1, tick2, caller1, operator1, operator2, often, seldom, onhand

(* One fires at every unit, one at every other and then never again, one   *)
(* has no cron.                                                            *)
ThreeDefs == {often, seldom, onhand}
Calendar ==
  [d \in ThreeDefs |->
     [t \in 0..MaxTime |->
        IF d = often THEN t + 1
        ELSE IF d = onhand THEN Manual
        ELSE IF t >= MaxTime THEN CronError ELSE 2 * (t \div 2) + 2]]

TwoTicks == {tick1, tick2}
OneTick == {tick1}
OneCaller == {caller1}
OneOperator == {operator1}
TwoOperators == {operator1, operator2}
LaunchFaults == {"launch_error"}
=============================================================================
