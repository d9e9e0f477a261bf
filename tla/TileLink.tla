------------------------------ MODULE TileLink ------------------------------
(***************************************************************************)
(* The five TileLink channels between the clients and the coherence agent, *)
(* with the queues that ReferenceChip.scala puts at the clients' ends.     *)
(* Every channel of a client is a FIFO; different channels and different   *)
(* clients are not ordered with respect to each other.  The crossbar holds *)
(* nothing, so a message leaves a sender's queue for the receiver in one   *)
(* step, and which client's head is taken is the round-robin arbiter's     *)
(* choice.                                                                 *)
(***************************************************************************)
EXTENDS CoherencePolicy, Naturals, Sequences, FiniteSets

CONSTANTS
    co,       \* the policy object, Top.co
    nTiles,   \* NTILES
    Addrs,    \* cache-line addresses; all map to the one set of each D$
    Values    \* contents of a line

\* The configuration the model is meant for.
ASSUME TileLinkAssumption ==
    /\ nTiles \in Nat \ {0}
    /\ Addrs # {} /\ Values # {}
    /\ co \in {MICoherence, MEICoherence, MSICoherence, MESICoherence}

Tiles == 0 .. nTiles - 1
HTIF == nTiles             \* "By convention HTIF is the client with the largest id"
Clients == 0 .. nTiles
nClients == nTiles + 1

VARIABLES
    acquire,    \* [Clients -> Seq], client to agent
    probe,      \* [Clients -> Seq], agent to client
    release,    \* [Clients -> Seq], client to agent
    grant,      \* [Clients -> Seq], agent to client
    grant_ack,  \* [Clients -> Seq of tracker ids], client to agent
    latest      \* [Addrs -> Values], history: the last value written to a line

channels == << acquire, probe, release, grant, grant_ack >>

\* Queue(...) has two entries unless told otherwise; the grant queue has one.
QueueEntries == 2
GrantEntries == 1

HasRoom(ch, c) == Len(ch[c]) < QueueEntries
GrantRoom(c) == Len(grant[c]) < GrantEntries
Send(ch, c, m) == [ch EXCEPT ![c] = Append(@, m)]
Receive(ch, c) == [ch EXCEPT ![c] = Tail(@)]

\* The messages.  A client has one acquire outstanding, so client_xact_id
\* carries no information and is left out.
AcquireMsg == [a_type : AcquireTypes, addr : Addrs, data : Values]
ProbeMsg(ids) == [p_type : ProbeTypes, addr : Addrs, master_xact_id : ids]
ReleaseMsg(ids) == [r_type : ReleaseTypes, addr : Addrs, master_xact_id : ids, data : Values]
GrantMsg(ids) == [g_type : GrantTypes, master_xact_id : ids, data : Values]

ChannelsTypeOK(ids) ==
    /\ acquire \in [Clients -> Seq(AcquireMsg)]
    /\ probe \in [Clients -> Seq(ProbeMsg(ids))]
    /\ release \in [Clients -> Seq(ReleaseMsg(ids))]
    /\ grant \in [Clients -> Seq(GrantMsg(ids))]
    /\ grant_ack \in [Clients -> Seq(ids)]
    /\ latest \in [Addrs -> Values]

ChannelsInit ==
    /\ acquire = [c \in Clients |-> << >>]
    /\ probe = [c \in Clients |-> << >>]
    /\ release = [c \in Clients |-> << >>]
    /\ grant = [c \in Clients |-> << >>]
    /\ grant_ack = [c \in Clients |-> << >>]
============================================================================
