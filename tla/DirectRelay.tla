---------------------------- MODULE DirectRelay -----------------------------
(***************************************************************************)
(* A session that goes straight to a Telegram data centre: the connect and *)
(* the nonce of proxy/direct_relay.rs, then relay_bidirectional of         *)
(* proxy/relay.rs, which copies both directions until both are finished,   *)
(* one fails, or the watchdog sees no activity on the client's side.       *)
(*                                                                         *)
(* Chunks are counted.  A chunk that was read goes to the CryptoWriter of  *)
(* the other side, which may hold it back while that side does not read.   *)
(***************************************************************************)
EXTENDS Integers, FiniteSets, FiniteSetsExt

CONSTANTS ActivityTimeout,   \* ACTIVITY_TIMEOUT, in units of time
          WatchdogInterval,  \* WATCHDOG_INTERVAL
          MaxChunks          \* bound: chunks read from each side

Sides == {"client", "server"}
Other(s) == IF s = "client" THEN "server" ELSE "client"

ASSUME DirectRelayAssumption ==
    /\ {ActivityTimeout, WatchdogInterval} \subseteq Nat \ {0}
    /\ MaxChunks \in Nat

VARIABLES
    dpc,           \* where handle_via_direct is
    outcome,       \* copy_result
    idleFor,       \* the time since last_activity_ms
    wakeIn,        \* the time until the watchdog's sleep ends
    copying,       \* per side it reads from: "copy", "flush", "done"
    pulled,           \* chunks read from a side
    inHand,        \* chunks read and not yet accepted by the other side's writer
    held,          \* chunks a side's CryptoWriter holds
    given,         \* chunks that have left for a side
    shut,          \* sides whose write half was shut down
    ended,         \* sides that have closed their sending direction
    stuck,         \* sides that do not read at present
    quietFor       \* history: the time since the last read from or write to the client

copyVars == <<copying, pulled, inHand, held, given>>
peerVars == <<ended, stuck>>
timeVars == <<idleFor, wakeIn, quietFor>>
directVars == <<dpc, outcome, timeVars, copyVars, shut, peerVars>>

Longest == ActivityTimeout + WatchdogInterval + 1   \* longer times are not told apart

(* The variables have their types.                                         *)
DirectTypeOK ==
    /\ dpc \in {"connect", "handshake", "relay", "shutdown", "done"}
    /\ outcome \in {"none", "finished", "error", "timeout", "refused"}
    /\ {idleFor, quietFor} \subseteq 0..Longest /\ wakeIn \in 0..WatchdogInterval
    /\ copying \in [Sides -> {"copy", "flush", "done"}]
    /\ {pulled[s] : s \in Sides} \cup {given[s] : s \in Sides} \subseteq 0..MaxChunks
    /\ inHand \in [Sides -> 0..1] /\ held \in [Sides -> 0..1]
    /\ {shut, ended, stuck} \subseteq SUBSET Sides

DirectInit ==
    /\ dpc = "connect" /\ outcome = "none" /\ idleFor = 0 /\ wakeIn = 0 /\ quietFor = 0
    /\ copying = [s \in Sides |-> "copy"] /\ pulled = [s \in Sides |-> 0]
    /\ inHand = [s \in Sides |-> 0] /\ held = [s \in Sides |-> 0] /\ given = [s \in Sides |-> 0]
    /\ shut = {} /\ ended = {} /\ stuck = {}

-----------------------------------------------------------------------------
(* The data centre is dialled and sent the nonce; both can fail.           *)
connect_dc ==
    /\ dpc = "connect"
    /\ \/ dpc' = "handshake" /\ UNCHANGED outcome
       \/ dpc' = "done" /\ outcome' = "refused"
    /\ UNCHANGED <<timeVars, copyVars, shut, peerVars>>

(* StatsIo::new marks initial activity, the watchdog starts to sleep.      *)
do_tg_handshake ==
    /\ dpc = "handshake"
    /\ \/ /\ dpc' = "relay" /\ idleFor' = 0 /\ quietFor' = 0
          /\ wakeIn' = WatchdogInterval /\ UNCHANGED outcome
       \/ dpc' = "done" /\ outcome' = "refused" /\ UNCHANGED timeVars
    /\ UNCHANGED <<copyVars, shut, peerVars>>

-----------------------------------------------------------------------------
(* The copy, and StatsIo around the client's stream                        *)

(* poll_read and poll_write on the client note the time; the server's      *)
(* stream is not wrapped.                                                  *)
touch(s) ==
    /\ quietFor' = IF s = "client" THEN 0 ELSE quietFor
    /\ idleFor' = IF s = "client" THEN 0 ELSE idleFor

Copying == dpc = "relay" /\ outcome = "none"

read_chunk(s) ==
    /\ Copying /\ copying[s] = "copy" /\ inHand[s] = 0
    /\ s \notin ended /\ pulled[s] < MaxChunks
    /\ pulled' = [pulled EXCEPT ![s] = @ + 1] /\ inHand' = [inHand EXCEPT ![s] = 1]
    /\ touch(s)
    /\ UNCHANGED <<dpc, outcome, wakeIn, copying, held, given, shut, peerVars>>

(* The writer of the other side passes the chunk on or keeps it.           *)
write_chunk(s) ==
    /\ Copying /\ inHand[s] = 1 /\ inHand' = [inHand EXCEPT ![s] = 0]
    /\ \/ /\ Other(s) \notin stuck /\ held[Other(s)] = 0
          /\ given' = [given EXCEPT ![Other(s)] = @ + 1] /\ UNCHANGED held
       \/ /\ Other(s) \in stuck /\ held[Other(s)] = 0
          /\ held' = [held EXCEPT ![Other(s)] = 1] /\ UNCHANGED given
    /\ touch(Other(s))
    /\ UNCHANGED <<dpc, outcome, wakeIn, copying, pulled, shut, peerVars>>

(* A poll of the writer sends what it has held back.                       *)
flush_held(s) ==
    /\ Copying /\ s \notin stuck /\ held[s] = 1
    /\ held' = [held EXCEPT ![s] = 0] /\ given' = [given EXCEPT ![s] = @ + 1]
    /\ UNCHANGED <<dpc, outcome, timeVars, copying, pulled, inHand, shut, peerVars>>

(* The end of a side's stream: the direction is flushed and the other      *)
(* side's write half is shut down; the opposite direction goes on.         *)
read_end(s) ==
    /\ Copying /\ copying[s] = "copy" /\ inHand[s] = 0 /\ s \in ended
    /\ copying' = [copying EXCEPT ![s] = "flush"]
    /\ UNCHANGED <<dpc, outcome, timeVars, pulled, inHand, held, given, shut, peerVars>>

direction_ends_unflushed(s) ==
    /\ Copying /\ copying[s] = "flush"
    /\ copying' = [copying EXCEPT ![s] = "done"] /\ shut' = shut \cup {Other(s)}
    /\ UNCHANGED <<dpc, outcome, timeVars, pulled, inHand, held, given, peerVars>>

(* poll_flush comes before poll_shutdown, and waits for the writer's       *)
(* pending ciphertext to leave.                                            *)
direction_ends(s) ==
    /\ Copying /\ copying[s] = "flush" /\ held[Other(s)] = 0
    /\ copying' = [copying EXCEPT ![s] = "done"] /\ shut' = shut \cup {Other(s)}
    /\ UNCHANGED <<dpc, outcome, timeVars, pulled, inHand, held, given, peerVars>>

LeaveCopy(result) ==
    /\ outcome' = result /\ dpc' = "shutdown"
    /\ UNCHANGED <<timeVars, copyVars, shut, peerVars>>

copy_ends == Copying /\ (\A s \in Sides : copying[s] = "done") /\ LeaveCopy("finished")
copy_fails == Copying /\ LeaveCopy("error")

-----------------------------------------------------------------------------
(* The watchdog                                                            *)

(* It looks at the time since the last activity whenever its sleep ends.   *)
watchdog ==
    /\ Copying /\ wakeIn = 0
    /\ IF idleFor >= ActivityTimeout
       THEN outcome' = "timeout" /\ dpc' = "shutdown" /\ UNCHANGED wakeIn
       ELSE wakeIn' = WatchdogInterval /\ UNCHANGED <<outcome, dpc>>
    /\ UNCHANGED <<idleFor, quietFor, copyVars, shut, peerVars>>

-----------------------------------------------------------------------------
(* Both write halves are shut down.  poll_shutdown tries to send what is   *)
(* held and goes on when it cannot, so it waits for nobody.                *)
shutdown ==
    /\ dpc = "shutdown" /\ dpc' = "done" /\ shut' = Sides
    /\ given' = [s \in Sides |-> IF s \in stuck THEN given[s] ELSE given[s] + held[s]]
    /\ held' = [s \in Sides |-> 0]
    /\ UNCHANGED <<outcome, timeVars, copying, pulled, inHand, peerVars>>

-----------------------------------------------------------------------------
(* The peers and the clock                                                 *)

peer_ends(s) ==
    /\ s \notin ended /\ ended' = ended \cup {s}
    /\ UNCHANGED <<dpc, outcome, timeVars, copyVars, shut, stuck>>

peer_stops_reading(s) ==
    /\ s \notin stuck /\ stuck' = stuck \cup {s}
    /\ UNCHANGED <<dpc, outcome, timeVars, copyVars, shut, ended>>

(* A slow reader makes room again.                                         *)
peer_reads_again(s) ==
    /\ s \in stuck /\ stuck' = stuck \ {s}
    /\ UNCHANGED <<dpc, outcome, timeVars, copyVars, shut, ended>>

(* The sleep of the watchdog does not outlast its time.                    *)
time_passes ==
    /\ Copying /\ wakeIn > 0 /\ wakeIn' = wakeIn - 1
    /\ idleFor' = Min({idleFor + 1, Longest}) /\ quietFor' = Min({quietFor + 1, Longest})
    /\ UNCHANGED <<dpc, outcome, copyVars, shut, peerVars>>

DirectNext ==
    \/ connect_dc \/ do_tg_handshake
    \/ \E s \in Sides : \/ read_chunk(s) \/ write_chunk(s) \/ flush_held(s) \/ read_end(s)
                        \/ direction_ends(s) \/ peer_ends(s) \/ peer_stops_reading(s)
                        \/ peer_reads_again(s)
    \/ copy_ends \/ copy_fails \/ watchdog \/ shutdown \/ time_passes

(* The relay's task and the clock run.                                     *)
DirectFairness ==
    /\ WF_directVars(time_passes) /\ WF_directVars(watchdog)
    /\ WF_directVars(copy_ends) /\ WF_directVars(shutdown)
    /\ \A s \in Sides : WF_directVars(read_end(s)) /\ WF_directVars(direction_ends(s))

DirectSpec == DirectInit /\ [][DirectNext]_directVars /\ DirectFairness

-----------------------------------------------------------------------------
(* ActiveNotCut: the watchdog never cuts a relay with I/O on the client's  *)
(* side, in either direction, within the activity timeout.                 *)
ActiveNotCut == outcome = "timeout" => quietFor >= ActivityTimeout

(* IdleBounded: a relay without I/O on the client's side is cut within one *)
(* watchdog interval after the timeout (relay.rs: "±10s accuracy").        *)
IdleBounded == Copying => quietFor <= ActivityTimeout + WatchdogInterval

(* TailDelivered: a relay that finishes because both sides have ended has  *)
(* passed on everything it read, although one side ended first and a       *)
(* writer held data back for a slow reader: the direction is flushed       *)
(* before it is shut down (relay.rs:43).                                   *)
TailDelivered ==
    outcome = "finished" => \A s \in Sides : given[Other(s)] = pulled[s]

(* RelayEnds: a relay whose peers have fallen silent returns, also with a  *)
(* peer that does not read and data held back for it.                      *)
RelayEnds == []<>(dpc \notin {"relay", "shutdown"})

(* DirectRight: the watchdog ends an idle relay in time and no active one, *)
(* a relay that finished has delivered everything, and every relay of      *)
(* silent peers ends.                                                      *)
DirectRight == [](ActiveNotCut /\ IdleBounded /\ TailDelivered) /\ RelayEnds
=============================================================================
