----------------------------- MODULE MCPolicies -----------------------------
(***************************************************************************)
(* Two tiles that share a line under each policy of coherence.scala, no    *)
(* host.  With MESI, which the chip is built with, the agent has two       *)
(* acquire trackers and tile 0 also reserves, prefetches and evicts; the   *)
(* others run with one tracker.  The policy is picked at the start.        *)
(***************************************************************************)
EXTENDS CoherencePolicy, Naturals

CONSTANTS a, b

VARIABLES acquire, probe, release, grant, grant_ack, latest, voluntary, tracker, mem, outer,
          line, mshr, ackq, wb, prober, lrsc, htif, seen, policy

nTiles == 2
Addrs == {a, b}
Values == {0, 1}
rpqEntries == 1
AckStalls == FALSE
MetaStalls == FALSE
HostAcquires == {}
ShareOps == {0} \X {"load", "store"} \X {a, b} \cup {1} \X {"load", "store"} \X {a}
ReserveOps ==
    {0} \X {"load", "lr", "sc", "pfr"} \X {a} \cup {0} \X {"store"} \X {b}
    \cup {1} \X {"load", "store"} \X {a}

MI   == INSTANCE CoherentSystem WITH co <- MICoherence,   CoreOps <- ShareOps,   nAcquireTransactions <- 1
MEI  == INSTANCE CoherentSystem WITH co <- MEICoherence,  CoreOps <- ShareOps,   nAcquireTransactions <- 1
MSI  == INSTANCE CoherentSystem WITH co <- MSICoherence,  CoreOps <- ShareOps,   nAcquireTransactions <- 1
MESI == INSTANCE CoherentSystem WITH co <- MESICoherence, CoreOps <- ReserveOps, nAcquireTransactions <- 2

Init ==
    \/ policy \in {"MI", "MEI", "MSI"} /\ MSI!Init
    \/ policy = "MESI" /\ MESI!Init
Next ==
    /\ UNCHANGED policy
    /\ \/ policy = "MI" /\ MI!Next
       \/ policy = "MEI" /\ MEI!Next
       \/ policy = "MSI" /\ MSI!Next
       \/ policy = "MESI" /\ MESI!Next
Spec == Init /\ [][Next]_<< MI!vars, policy >>

\* With each policy, while one tile can store to a line no other can read it:
\* its probe types take every permission away that its grants rely on.
SingleWriter ==
    /\ policy = "MI" => MI!SingleWriter
    /\ policy = "MEI" => MEI!SingleWriter
    /\ policy = "MSI" => MSI!SingleWriter
    /\ policy = "MESI" => MESI!SingleWriter

\* With each policy, the last value written is in memory, on its way there,
\* or in a cache that knows it must write it back.
NothingLost ==
    /\ policy = "MI" => MI!NothingLost
    /\ policy = "MEI" => MEI!NothingLost
    /\ policy = "MSI" => MSI!NothingLost
    /\ policy = "MESI" => MESI!NothingLost

\* While tile 0 holds a reservation tile 1 does not write the reserved line:
\* the probe waits for the reservation to run out (lr is in MESI's programs).
ReservationRespected == MESI!ReservationRespected
============================================================================
