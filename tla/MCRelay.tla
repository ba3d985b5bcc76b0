------------------------------ MODULE MCRelay -------------------------------
(***************************************************************************)
(* The way of the bytes, for TLC: the relay over a middle proxy            *)
(* (MiddleRelay) and the direct one (DirectRelay), the encrypted streams   *)
(* towards the client (StreamReader, StreamWriter) and the link to the     *)
(* middle proxy (MeLink).  In each behaviour one of them moves; the others *)
(* stay in an initial state.                                               *)
(***************************************************************************)
EXTENDS MiddleRelay, DirectRelay, StreamReader, StreamWriter, MeLink

VARIABLE part   \* the part that moves

Load(f, n, l, s) == [frames |-> f, answers |-> n, lost |-> l, fin |-> s]
TheWorkloads ==
    {Load(1, 2, FALSE, TRUE), Load(2, 0, FALSE, TRUE), Load(0, 3, FALSE, FALSE), Load(0, 2, TRUE, TRUE)}

TheRecords == {<<"app", 2>>, <<"app", 0>>, <<"app", 3>>, <<"ccs", 1>>, <<"alert", 1>>,
               <<"handshake", 1>>, <<"badversion", 1>>}
TheReadSizes == {1, 3}
TheOffers == {1, 2, 4}

Setup(route, local, bound, stun, nat, policy, atomic) ==
    [route |-> route, local |-> local, bound |-> bound, stun |-> stun, nat |-> nat,
     probe |-> TRUE, policy |-> policy, atomic |-> atomic]
TheSetups ==
    { Setup("direct", "ourIp", "none", "none", "none", "Strict", TRUE),
      Setup("direct", "private", "none", "ourIp", "none", "Strict", FALSE),
      Setup("direct", "private", "none", "none", "none", "Strict", TRUE),
      Setup("direct", "private", "none", "none", "ourIp", "Strict", TRUE),
      Setup("socks", "private", "socksIp", "ourIp", "none", "Strict", TRUE),
      Setup("socks", "private", "bogon", "ourIp", "none", "Strict", TRUE),
      Setup("socks", "private", "bogon", "ourIp", "none", "Compat", TRUE),
      Setup("socks", "ourIp", "socksIp", "none", "none", "Strict", TRUE) }

mcVars == <<part, middleVars, directVars, readerVars, outVars, linkVars>>

\* A link whose handshake has failed before it began.
LinkAtRest ==
    /\ setup = Setup("direct", "private", "none", "none", "none", "Strict", TRUE)
    /\ hpc = "failed" /\ mepc = "closed" /\ detected = "none"
    /\ poolSecret = 1 /\ selector = 0 /\ secret = 0 /\ kdfIp = "none"
    /\ meCrc = "crc32" /\ linkCrc = "crc32" /\ meBlocks = 0 /\ answers = 0
    /\ cipher = <<>> /\ raw = <<>> /\ dec = <<>> /\ iv = 0
    /\ overRead = FALSE /\ got = <<>> /\ reader = "runs" /\ faulty = FALSE

MCInit ==
    /\ part \in {"middle", "direct", "reader", "writer", "link"}
    /\ MiddleInit /\ DirectInit /\ ReaderInit /\ WriterInit
    /\ IF part = "link" THEN LinkInit ELSE LinkAtRest
    /\ part # "middle" => load.frames = 2
    /\ part # "writer" => overTls

MCNext ==
    \/ part = "middle" /\ MiddleNext /\ UNCHANGED <<part, directVars, readerVars, outVars, linkVars>>
    \/ part = "direct" /\ DirectNext /\ UNCHANGED <<part, middleVars, readerVars, outVars, linkVars>>
    \/ part = "reader" /\ ReaderNext /\ UNCHANGED <<part, middleVars, directVars, outVars, linkVars>>
    \/ part = "writer" /\ WriterNext /\ UNCHANGED <<part, middleVars, directVars, readerVars, linkVars>>
    \/ part = "link" /\ LinkNext /\ UNCHANGED <<part, middleVars, directVars, readerVars, outVars>>

\* The fairness of each part, for the behaviours in which it moves.
MCFairness ==
    /\ WF_middleVars(part = "middle" /\ MainStep) /\ WF_middleVars(part = "middle" /\ SenderStep)
    /\ SF_middleVars(part = "middle" /\ WriterStep)
    /\ \A r \in Routers : WF_middleVars(part = "middle" /\ RouterStep(r))
    /\ WF_middleVars(part = "middle" /\ client_follows_fin)
    /\ WF_directVars(part = "direct" /\ time_passes) /\ WF_directVars(part = "direct" /\ watchdog)
    /\ WF_directVars(part = "direct" /\ copy_ends) /\ WF_directVars(part = "direct" /\ shutdown)
    /\ \A s \in Sides : /\ WF_directVars(part = "direct" /\ read_end(s))
                        /\ WF_directVars(part = "direct" /\ direction_ends(s))
    /\ WF_readerVars(part = "reader" /\ ReaderStep)
    /\ WF_linkVars(part = "link" /\ LinkStep) /\ WF_linkVars(part = "link" /\ handshake_deadline)

MCSpec == MCInit /\ [][MCNext]_mcVars /\ MCFairness

\* The type invariants of the five parts: both relays, both stream directions, ME
\* link.
RelayTypesOK == MiddleTypeOK /\ DirectTypeOK /\ ReaderTypeOK /\ WriterTypeOK /\ LinkTypeOK
=============================================================================
