------------------------------ MODULE MCUpkeep ------------------------------
(***************************************************************************)
(* The life of the pool, for TLC: its start (PoolInit), its upkeep by the  *)
(* health monitor and the refills (PoolUpkeep), and the command channel of *)
(* one of its writers (WriterChannel).  In each behaviour one of the three *)
(* moves; the others are at rest.                                          *)
(***************************************************************************)
EXTENDS PoolUpkeep, PoolInit, WriterChannel, TLC

CONSTANTS d1, a, b, s1, s2

VARIABLE part   \* the part that moves

\* A DC with one endpoint, or with two.
OneEndpoint == d1 :> {a}
TwoEndpoints == d1 :> {a, b}
TheMaps == {OneEndpoint, TwoEndpoints}
TheBudgets ==
    { [map |-> OneEndpoint, losses |-> 2, clients |-> 1, changes |-> 0, flips |-> 0],
      [map |-> OneEndpoint, losses |-> 1, clients |-> 0, changes |-> 0, flips |-> 1],
      [map |-> TwoEndpoints, losses |-> 2, clients |-> 0, changes |-> 0, flips |-> 0],
      [map |-> TwoEndpoints, losses |-> 1, clients |-> 0, changes |-> 1, flips |-> 0] }

\* One family, or two of which the first one decides.
TheInitMaps ==
    { [families |-> <<"v4">>, groups |-> [v4 |-> <<{"a", "b", "c"}, {"d", "e"}>>],
       multipath |-> FALSE, size |-> 3] }
    \cup
    { [families |-> <<"v6", "v4">>, groups |-> [v4 |-> <<{"a"}, {"b"}>>, v6 |-> <<{"x", "y"}>>],
       multipath |-> mp, size |-> 3] : mp \in BOOLEAN }
    \cup
    { [families |-> <<"v6", "v4">>, groups |-> [v4 |-> <<{"a"}>>, v6 |-> <<>>],
       multipath |-> FALSE, size |-> 2] }

mcVars == <<part, upkeepVars, initVars, chanVars>>

\* A pool whose init has failed, since there was nothing to connect to.
InitOver ==
    /\ conf = [families |-> <<"v4">>, groups |-> [v4 |-> <<>>], multipath |-> FALSE, size |-> 1]
    /\ silent = {} /\ ipc = "err" /\ fi = 1 /\ job = << >> /\ count = << >>
    /\ warm = [v4 |-> WarmOff] /\ warmed = 0 /\ deaths = 0

MCInit ==
    /\ UpkeepInit /\ ChannelInit
    /\ \/ part = "upkeep" /\ InitOver
       \/ part = "init" /\ PoolInitInit /\ budget.flips = 1
       \/ part = "channel" /\ InitOver /\ budget.flips = 1

MCNext ==
    \/ part = "upkeep" /\ UpkeepNext /\ UNCHANGED <<part, initVars, chanVars>>
    \/ part = "init" /\ PoolInitNext /\ UNCHANGED <<part, upkeepVars, chanVars>>
    \/ part = "channel" /\ ChannelNext /\ UNCHANGED <<part, upkeepVars, initVars>>

\* The fairness of each part, for the behaviours in which it moves.
MCFairness ==
    /\ WF_upkeepVars(part = "upkeep" /\ HealthStep)
    /\ \A t \in Refills : WF_upkeepVars(part = "upkeep" /\ RefillMoves(t))
    /\ \A d \in Dcs : /\ WF_upkeepVars(part = "upkeep" /\ reconnect_due(d))
                      /\ WF_upkeepVars(part = "upkeep" /\ outage_due(d))
    /\ WF_upkeepVars(part = "upkeep" /\ quarantine_ends)
    /\ WF_initVars(part = "init" /\ InitStep)
    /\ WF_chanVars(part = "channel" /\ (task_recv \/ task_written))
    /\ WF_chanVars(part = "channel" /\ slot_granted)
    /\ WF_chanVars(part = "channel" /\ (ping_tick \/ ping_cancelled))
    /\ \A t \in Tasks : /\ WF_chanVars(part = "channel" /\ send_refused(t))
                        /\ WF_chanVars(part = "channel" /\ RemovalStep(t))

MCSpec == MCInit /\ [][MCNext]_mcVars /\ MCFairness

\* The type invariants of the three parts: pool_init, health and refill, channel.
UpkeepTypesOK == UpkeepTypeOK /\ PoolInitTypeOK /\ ChannelTypeOK
=============================================================================
