---------------------------- MODULE ConnBinding ----------------------------
(***************************************************************************)
(* What the ME side promises a client connection, without the tasks and    *)
(* tables that implement it: a connection is opened once, is owned by at   *)
(* most one writer at a time, passes from one owner to another only        *)
(* through being unowned, loses its owner only when that very owner is     *)
(* lost or the connection is dropped, and holds nothing once it is over.   *)
(***************************************************************************)
CONSTANTS Conns, Writers, None

VARIABLES
    phase,  \* connection -> "new", "live" or "over"
    open,   \* connections that can still receive answers
    owner   \* connection -> writer or None

Init ==
    /\ phase = [c \in Conns |-> "new"]
    /\ open = {}
    /\ owner = [c \in Conns |-> None]

Open(c) ==
    /\ phase[c] = "new"
    /\ phase' = [phase EXCEPT ![c] = "live"]
    /\ open' = open \cup {c}
    /\ UNCHANGED owner

Bind(c, w) ==
    /\ phase[c] = "live"
    /\ owner[c] = None
    /\ owner' = [owner EXCEPT ![c] = w]
    /\ UNCHANGED <<phase, open>>

Lose(w) ==
    /\ owner' = [c \in Conns |-> IF owner[c] = w THEN None ELSE owner[c]]
    /\ UNCHANGED <<phase, open>>

Drop(c) ==
    /\ open' = open \ {c}
    /\ owner' = [owner EXCEPT ![c] = None]
    /\ UNCHANGED phase

End(c) ==
    /\ phase[c] = "live"
    /\ phase' = [phase EXCEPT ![c] = "over"]
    /\ open' = open \ {c}
    /\ owner' = [owner EXCEPT ![c] = None]

Next ==
    \/ \E c \in Conns : Open(c) \/ Drop(c) \/ End(c)
    \/ \E c \in Conns, w \in Writers : Bind(c, w)
    \/ \E w \in Writers : Lose(w)

Spec == Init /\ [][Next]_<<phase, open, owner>>
=============================================================================
