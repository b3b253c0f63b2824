----------------------------- MODULE MCScheduler -----------------------------
EXTENDS SchedulerProps

\* A graph with 3 and without 1 is not closed.
MCJob == 1 .. 4
MCDependsOn == <<{}, {}, {1}, {}>>
MCClass == <<"build", "test", "test", "build">>
MCWeight == [build |-> 1, test |-> 2]

\* The host's CPU does not admit 1 and 4 together, the class "test" one job.
MCBudget == {"cpu", "test", "all"}
MCCost == [cpu  |-> <<2, 1, 1, 2>>,
           test |-> <<0, 1, 1, 0>>,
           all  |-> <<1, 1, 1, 1>>]
MCLimit == [cpu |-> 3, test |-> 1, all |-> 2]
=============================================================================
