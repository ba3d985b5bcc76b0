------------------------------ MODULE MCSafety ------------------------------
(***************************************************************************)
(* The parts of the proxy whose properties say only what never happens,    *)
(* for TLC: the limits of users (UserLimits), a shard of the replay cache  *)
(* (ReplayCache), the records of suspicious clients (Forensics) and the    *)
(* framing of the transports (FrameCodec).  In each behaviour one of them  *)
(* moves; the others stay in an initial state.                             *)
(***************************************************************************)
EXTENDS UserLimits, ReplayCache, Forensics, FrameCodec, TLC

CONSTANTS alice, bob

VARIABLE part   \* the part that moves

\* alice is limited, bob is not.
OneForAlice == alice :> 1
TwoForAlice == alice :> 2

\* With three words as the mark of a long length, eight as the first too long for
\* it, MaxFrame 15 and MAX_MSG_LEN 40: both sides of every boundary.
TheLengths == {0, 3, 5, 8, 12, 16, 28, 32}
TheEnds == {<<p, w, r>> \in {"abridged", "intermediate", "secure"} \X {"relay", "codec", "stream"}
                              \X {"relay", "codec", "stream"} : (w = "codec") # (r = "codec")}
           \cup {<<"full", "stream", "stream">>}

mcVars == <<part, vars, replayVars, forensicVars, frameVars>>

MCInit ==
    /\ part \in {"limits", "replay", "forensics", "frames"}
    /\ Init /\ ReplayInit /\ ForensicsInit /\ FrameInit
    /\ part # "forensics" => ttl = 1 /\ observing
    /\ part # "frames" => tag = "full"

MCNext ==
    \/ /\ part = "limits" /\ Next
       /\ UNCHANGED <<part, replayVars, forensicVars, frameVars>>
    \/ /\ part = "replay" /\ ReplayNext
       /\ UNCHANGED <<part, vars, forensicVars, frameVars>>
    \/ /\ part = "forensics" /\ ForensicsNext
       /\ UNCHANGED <<part, vars, replayVars, frameVars>>
    \/ /\ part = "frames" /\ FrameNext
       /\ UNCHANGED <<part, vars, replayVars, forensicVars>>

MCSpec == MCInit /\ [][MCNext]_mcVars

\* Sessions and addresses are interchangeable: nothing orders them.
Symmetry == Permutations(Sessions) \cup Permutations(Ips)

\* The type invariants of the four parts: user limits, replay checker, forensics,
\* frames.
SafetyTypesOK == LimitsTypeOK /\ ReplayTypeOK /\ ForensicsTypeOK /\ FrameTypeOK
=============================================================================
