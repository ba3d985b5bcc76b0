------------------------------ MODULE PoolInit ------------------------------
(***************************************************************************)
(* The start of the Middle-End pool (pool_init.rs): MePool::init connects, *)
(* family by family, one writer per DC group, racing two endpoints of a    *)
(* group at a time; then a background task per family warms reserve        *)
(* writers up to pool_size.  Writers may die meanwhile.                    *)
(*                                                                         *)
(* connect_one is seen from here as: connecting, then the writer is        *)
(* registered, then the call returns; an abort may fall in between.        *)
(***************************************************************************)
EXTENDS Naturals, FiniteSets, FiniteSetsExt, Sequences, SequencesExt

CONSTANTS
    InitMaps,           \* configurations: [families, groups, multipath, size]
    MaxDeaths       \* bound: writers that die

VARIABLES
    conf,       \* the configuration; groups[f] is a sequence of sets of endpoints
    silent,     \* endpoints that do not answer
    ipc,        \* init: "group", "join", "ok" or "err"
    fi,         \* index of the family in hand
    job,        \* per group of the family: the connect_primary_for_dc task
    count,      \* per endpoint: live writers
    warm,       \* per family: the background task [todo, at, trying] or off
    warmed,     \* reserve writers registered
    deaths      \* writers that died

initVars == <<conf, silent, ipc, fi, job, count, warm, warmed, deaths>>

Family == conf.families[fi]
GroupsOf(f) == conf.groups[f]
AllEndpoints(c) == UNION {UNION {c.groups[f][g] : g \in DOMAIN c.groups[f]} : f \in DOMAIN c.groups}
connection_count == MapThenSumSet(LAMBDA e : count[e], DOMAIN count)
active_writer_count(group) == MapThenSumSet(LAMBDA e : count[e], group)

NoJob == [state |-> "off", left |-> {}, trying |-> {}, up |-> {}]
WarmOff == [todo |-> <<>>, trying |-> FALSE]

----------------------------------------------------------------------------
\* init: a task for every group without a live writer, then wait for all of them.
init_family ==
    /\ ipc = "group"
    /\ job' = [g \in DOMAIN GroupsOf(Family) |->
                 IF active_writer_count(GroupsOf(Family)[g]) > 0 THEN NoJob
                 ELSE [NoJob EXCEPT !.state = "run", !.left = GroupsOf(Family)[g]]]
    /\ ipc' = "join"
    /\ UNCHANGED <<conf, silent, fi, count, warm, warmed, deaths>>

\* connect_primary_for_dc keeps up to two attempts going, in a random order.
job_spawn(g) ==
    /\ job[g].state = "run" /\ Cardinality(job[g].trying \cup job[g].up) < 2
    /\ \E e \in job[g].left :
        job' = [job EXCEPT ![g].left = @ \ {e}, ![g].trying = @ \cup {e}]
    /\ UNCHANGED <<conf, silent, ipc, fi, count, warm, warmed, deaths>>

\* connect_one registered the writer.
job_register(g) ==
    /\ \E e \in job[g].trying \ silent :
        /\ job' = [job EXCEPT ![g].trying = @ \ {e}, ![g].up = @ \cup {e}]
        /\ count' = [count EXCEPT ![e] = @ + 1]
    /\ UNCHANGED <<conf, silent, ipc, fi, warm, warmed, deaths>>

\* The first attempt to return Ok aborts the other one, registered or not.
job_done(g) ==
    /\ job[g].state = "run" /\ job[g].up # {}
    /\ job' = [job EXCEPT ![g] = [NoJob EXCEPT !.state = "done"]]
    /\ UNCHANGED <<conf, silent, ipc, fi, count, warm, warmed, deaths>>

\* A slip: the first failure ends the task.
job_failed_first(g) ==
    /\ \E e \in job[g].trying \cap silent :
        job' = [job EXCEPT ![g] = [NoJob EXCEPT !.state = "done"]]
    /\ UNCHANGED <<conf, silent, ipc, fi, count, warm, warmed, deaths>>

\* An attempt failed; the task gives up when nothing is left to try.
job_failed(g) ==
    /\ \E e \in job[g].trying \cap silent :
        job' = [job EXCEPT ![g] =
                  IF job[g].left = {} /\ job[g].trying = {e} /\ job[g].up = {}
                  THEN [NoJob EXCEPT !.state = "done"]
                  ELSE [@ EXCEPT !.trying = @ \ {e}]]
    /\ UNCHANGED <<conf, silent, ipc, fi, count, warm, warmed, deaths>>

Joined == \A g \in DOMAIN job : job[g].state # "run"
Missing == {g \in DOMAIN GroupsOf(Family) : active_writer_count(GroupsOf(Family)[g]) = 0}

\* The endpoints a background task goes through, group by group.
WarmList(f) ==
    FlattenSeq([g \in DOMAIN GroupsOf(f) |->
                  LET list == SetToSeq(GroupsOf(f)[g])
                  IN [i \in DOMAIN list |-> [e |-> list[i], g |-> g]]])

\* Another family follows if both are used, or if this one gave no writer.
MoreFamilies ==
    fi < Len(conf.families) /\ (conf.multipath \/ connection_count = 0)

\* All groups were tried: fail, or start the warmup and go on.
init_joined ==
    /\ ipc = "join" /\ Joined
    /\ job' = [g \in {} |-> NoJob]
    /\ IF Missing # {}
       THEN ipc' = "err" /\ UNCHANGED <<fi, warm>>
       ELSE /\ warm' = [warm EXCEPT ![Family].todo = WarmList(Family)]
            /\ fi' = IF MoreFamilies THEN fi + 1 ELSE fi
            /\ ipc' = IF MoreFamilies THEN "group"
                      ELSE IF connection_count = 0 THEN "err" ELSE "ok"
    /\ UNCHANGED <<conf, silent, count, warmed, deaths>>

----------------------------------------------------------------------------
\* The background warmup.

SkipGroup(f) == SelectSeq(warm[f].todo, LAMBDA t : t.g # Head(warm[f].todo).g)

\* Before every connect: a full pool ends the group; the next one looks again (the
\* unstaggered loop leaves the groups by the same test).  A staggered connect waits
\* between the test and the connect.
warm_check(f) ==
    /\ warm[f].todo # <<>> /\ ~warm[f].trying
    /\ warm' = IF connection_count >= conf.size
               THEN [warm EXCEPT ![f].todo = SkipGroup(f)]
               ELSE [warm EXCEPT ![f].trying = TRUE]
    /\ UNCHANGED <<conf, silent, ipc, fi, job, count, warmed, deaths>>

warm_connect(f) ==
    /\ warm[f].trying
    /\ LET e == Head(warm[f].todo).e
           ok == e \notin silent
       IN /\ count' = [count EXCEPT ![e] = IF ok THEN @ + 1 ELSE @]
          /\ warmed' = warmed + (IF ok THEN 1 ELSE 0)
    /\ warm' = [warm EXCEPT ![f].todo = Tail(@), ![f].trying = FALSE]
    /\ UNCHANGED <<conf, silent, ipc, fi, job, deaths>>

dialed_writer_dies ==
    /\ deaths < MaxDeaths
    /\ \E e \in DOMAIN count : count[e] > 0 /\ count' = [count EXCEPT ![e] = @ - 1]
    /\ deaths' = deaths + 1
    /\ UNCHANGED <<conf, silent, ipc, fi, job, warm, warmed>>

----------------------------------------------------------------------------
PoolInitInit ==
    /\ conf \in InitMaps
    /\ silent \in SUBSET AllEndpoints(conf)
    /\ ipc = "group" /\ fi = 1
    /\ job = [g \in {} |-> NoJob]
    /\ count = [e \in AllEndpoints(conf) |-> 0]
    /\ warm = [f \in DOMAIN conf.groups |-> WarmOff]
    /\ warmed = 0 /\ deaths = 0

InitStep ==
    \/ init_family \/ init_joined
    \/ \E g \in DOMAIN job : job_spawn(g) \/ job_done(g)

PoolInitNext ==
    \/ InitStep
    \/ \E g \in DOMAIN job : job_register(g) \/ job_failed(g)
    \/ \E f \in DOMAIN warm : warm_check(f) \/ warm_connect(f)
    \/ dialed_writer_dies

\* The tasks run.  Writers need not die, and an attempt need not return: nothing
\* puts a timeout on connect_one here, and the request for the public address
\* it may make has none of its own (pool_nat.rs:190).
PoolInitSpec ==
    PoolInitInit /\ [][PoolInitNext]_initVars /\ WF_initVars(InitStep)

----------------------------------------------------------------------------
\* Properties.

\* The state is well formed: at most two attempts of a group at a time.
PoolInitTypeOK ==
    /\ ipc \in {"group", "join", "ok", "err"} /\ fi \in DOMAIN conf.families
    /\ \A g \in DOMAIN job : /\ Cardinality(job[g].trying \cup job[g].up) <= 2
                             /\ job[g].state # "run" => job[g] = [NoJob EXCEPT !.state = job[g].state]

\* init succeeds only with a live writer for every DC group of the family it
\* stopped at, unless writers died since; and it fails only if some group has no
\* endpoint that answers, if a writer died, or if there is nothing to connect to.
InitVerdictRight ==
    /\ (ipc = "ok" /\ deaths = 0) => Missing = {}
    /\ (ipc = "err" /\ deaths = 0) =>
          \/ \E g \in DOMAIN GroupsOf(Family) : GroupsOf(Family)[g] \subseteq silent
          \/ AllEndpoints(conf) = {}

\* The warmup stops at pool_size: with one family the pool never outgrows it
\* through the warmup, with two the tasks overshoot by at most one writer.
WarmupBounded ==
    /\ warmed <= conf.size + Len(conf.families) - 1 + deaths
    /\ (Len(conf.families) = 1 /\ deaths = 0 /\ warmed > 0) => connection_count <= conf.size

\* init returns if its attempts do, whatever does not answer and whenever
\* writers die; an attempt that another one of the group overtakes may hang.
InitReturns ==
    []<>(\A g \in DOMAIN job : job[g].trying = {}) => []<>(ipc \in {"ok", "err"})

\* The start of the pool: init returns if its attempts do, its verdict is right, and the warm-up
\* tasks of both families together do not run past the pool size by more than
\* their race allows.
StartRight == [](InitVerdictRight /\ WarmupBounded) /\ InitReturns
=============================================================================
