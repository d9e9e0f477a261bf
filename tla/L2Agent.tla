------------------------------- MODULE L2Agent -------------------------------
(***************************************************************************)
(* L2CoherenceAgent of uncore/src/main/scala/uncore.scala with its one     *)
(* VoluntaryReleaseTracker (id 0) and its AcquireTrackers (ids 1 ..), the  *)
(* broadcast protocol they run, and the memory behind the agent's one      *)
(* uncached port.  One action is one handshake of a tracker; handshakes    *)
(* of different trackers in one clock appear in some order.  The registers *)
(* of an idle tracker are never read and are kept at fixed values.         *)
(***************************************************************************)
EXTENDS TileLink, FiniteSetsExt

CONSTANT nAcquireTransactions   \* NL2_ACQ_XACTS

ASSUME L2AgentAssumption == nAcquireTransactions \in Nat \ {0}

VARIABLES
    voluntary,  \* the VoluntaryReleaseTracker
    tracker,    \* [AcquireIds -> AcquireTracker]
    mem,        \* [Addrs -> Values], what a read accepted now returns
    outer       \* reads accepted by memory and not answered yet

l2vars == << voluntary, tracker, mem, outer >>

AcquireIds == 1 .. nAcquireTransactions
TrackerIds == 0 .. nAcquireTransactions

\* 2 ^ log2Up(nClients): the range of init_sharer_cnt and release_count.
CountRange == Max({m \in 1 .. 2 * nClients - 1 : \E k \in 0 .. nClients : m = 2 ^ k})

SomeAddr == CHOOSE a \in Addrs : TRUE
SomeValue == CHOOSE v \in Values : TRUE

IdleVoluntary == [state |-> "s_idle", addr |-> SomeAddr, data |-> SomeValue, init_client_id |-> 0]
IdleTracker == [state |-> "s_idle", a_type |-> "readUncached", addr |-> SomeAddr,
                data |-> SomeValue, init_client_id |-> 0, init_sharer_cnt |-> 0,
                release_count |-> 0, probe_flags |-> {}]

VoluntaryReleaseTracker ==
    [state : {"s_idle", "s_mem", "s_ack"}, addr : Addrs, data : Values, init_client_id : Clients]
AcquireTracker ==
    [state : {"s_idle", "s_probe", "s_mem_read", "s_mem_write", "s_make_grant", "s_busy"},
     a_type : AcquireTypes, addr : Addrs, data : Values, init_client_id : Clients,
     init_sharer_cnt : 0 .. CountRange - 1, release_count : 0 .. CountRange - 1,
     probe_flags : SUBSET Clients]

L2TypeOK ==
    /\ voluntary \in VoluntaryReleaseTracker
    /\ tracker \in [AcquireIds -> AcquireTracker]
    /\ mem \in [Addrs -> Values]
    /\ outer \in SUBSET [id : AcquireIds, data : Values]

L2Init ==
    /\ voluntary = IdleVoluntary
    /\ tracker = [t \in AcquireIds |-> IdleTracker]
    /\ mem = [a \in Addrs |-> SomeValue]
    /\ latest = mem
    /\ outer = {}

----------------------------------------------------------------------------
\* ~(io.tile_incoherent | myflag): the requester is probed too, the HTIF never.
probe_initial_flags == {c \in Clients : c # HTIF}

Idle(t) == tracker[t].state = "s_idle"
has_acquire_conflict(t, addr) == ~Idle(t) /\ isCoherenceConflict(tracker[t].addr, addr)

\* alloc_arb: the idle tracker with the smallest id.
Allocated(t) == Idle(t) /\ \A u \in AcquireIds : Idle(u) => t <= u

grant_type(t) == co.getGrantType[tracker[t].a_type][tracker[t].init_sharer_cnt > 0]

\* What a transaction does once nobody else has to be asked.
AfterProbes(a_type) ==
    IF acquireHasData(a_type) THEN "s_mem_write"
    ELSE IF needsOuterRead(a_type) THEN "s_mem_read" ELSE "s_make_grant"

AfterGrant(t) == IF requiresAckForGrant(grant_type(t)) THEN "s_busy" ELSE "s_idle"

\* Mutant: an uncached read goes to memory without asking the tiles.
AcceptAcquire_read_unprobed(c) ==
    /\ acquire[c] # << >>
    /\ LET acq == Head(acquire[c]) IN
       /\ \A t \in AcquireIds : ~has_acquire_conflict(t, acq.addr)
       /\ \E t \in AcquireIds :
            /\ Allocated(t)
            /\ tracker' = [tracker EXCEPT ![t] =
                 [state |-> IF acq.a_type = "readUncached" THEN "s_mem_read" ELSE "s_probe",
                  a_type |-> acq.a_type, addr |-> acq.addr, data |-> acq.data,
                  init_client_id |-> c,
                  init_sharer_cnt |-> nClients % CountRange,
                  release_count |-> Cardinality(probe_initial_flags) % CountRange,
                  probe_flags |-> IF acq.a_type = "readUncached" THEN {} ELSE probe_initial_flags]]
    /\ acquire' = Receive(acquire, c)
    /\ UNCHANGED << voluntary, mem, outer, probe, release, grant, grant_ack, latest >>

\* Mutant: any_acquire_conflict looks at the tracker it would allocate only.
AcceptAcquire_unblocked(c) ==
    /\ acquire[c] # << >>
    /\ LET acq == Head(acquire[c]) IN
       \E t \in AcquireIds :
            /\ Allocated(t) /\ ~has_acquire_conflict(t, acq.addr)
            /\ tracker' = [tracker EXCEPT ![t] =
                 [state |-> "s_probe", a_type |-> acq.a_type, addr |-> acq.addr,
                  data |-> acq.data, init_client_id |-> c,
                  init_sharer_cnt |-> nClients % CountRange,
                  release_count |-> Cardinality(probe_initial_flags) % CountRange,
                  probe_flags |-> probe_initial_flags]]
    /\ acquire' = Receive(acquire, c)
    /\ UNCHANGED << voluntary, mem, outer, probe, release, grant, grant_ack, latest >>

AcceptAcquire(c) ==
    /\ acquire[c] # << >>
    /\ LET acq == Head(acquire[c]) IN
       /\ \A t \in AcquireIds : ~has_acquire_conflict(t, acq.addr)
       /\ \E t \in AcquireIds :
            /\ Allocated(t)
            /\ tracker' = [tracker EXCEPT ![t] =
                 [state |-> IF probe_initial_flags # {} THEN "s_probe"
                            ELSE AfterProbes(acq.a_type),
                  a_type |-> acq.a_type, addr |-> acq.addr, data |-> acq.data,
                  init_client_id |-> c,
                  init_sharer_cnt |-> nClients % CountRange,
                  release_count |-> Cardinality(probe_initial_flags) % CountRange,
                  probe_flags |-> probe_initial_flags]]
    /\ acquire' = Receive(acquire, c)
    /\ UNCHANGED << voluntary, mem, outer, probe, release, grant, grant_ack, latest >>

\* curr_p_id: the client with the smallest id that is still to be probed.
SendProbe(t) ==
    /\ tracker[t].state = "s_probe"
    /\ \E c \in tracker[t].probe_flags :
         /\ \A d \in tracker[t].probe_flags : c <= d
         /\ HasRoom(probe, c)
         /\ probe' = Send(probe, c, [p_type |-> co.getProbeType[tracker[t].a_type],
                                     addr |-> tracker[t].addr, master_xact_id |-> t])
         /\ tracker' = [tracker EXCEPT ![t].probe_flags = @ \ {c}]
    /\ UNCHANGED << voluntary, mem, outer, acquire, release, grant, grant_ack, latest >>

\* Mutant: the tracker goes on after the first release.
TakeProbeRelease_first(c) ==
    /\ release[c] # << >>
    /\ LET rel == Head(release[c])
           t == rel.master_xact_id
       IN /\ ~isVoluntary(rel.r_type)
          /\ tracker[t].state = "s_probe"
          /\ tracker' = [tracker EXCEPT
               ![t].release_count = (@ + CountRange - 1) % CountRange,
               ![t].state = AfterProbes(tracker[t].a_type)]
          /\ mem' = IF releaseHasData(rel.r_type)
                    THEN [mem EXCEPT ![tracker[t].addr] = rel.data] ELSE mem
    /\ release' = Receive(release, c)
    /\ UNCHANGED << voluntary, outer, acquire, probe, grant, grant_ack, latest >>

\* Mutant: the count of outstanding releases is not kept in its register's range.
TakeProbeRelease_unwrapped(c) ==
    /\ release[c] # << >>
    /\ LET rel == Head(release[c])
           t == rel.master_xact_id
       IN /\ ~isVoluntary(rel.r_type)
          /\ tracker[t].state = "s_probe"
          /\ tracker' = [tracker EXCEPT
               ![t].release_count = @ + CountRange - 1,
               ![t].state = IF tracker[t].release_count = 1
                            THEN AfterProbes(tracker[t].a_type) ELSE @]
          /\ mem' = IF releaseHasData(rel.r_type)
                    THEN [mem EXCEPT ![tracker[t].addr] = rel.data] ELSE mem
    /\ release' = Receive(release, c)
    /\ UNCHANGED << voluntary, outer, acquire, probe, grant, grant_ack, latest >>

\* A release without data, or with data that memory accepts in the same clock.
TakeProbeRelease(c) ==
    /\ release[c] # << >>
    /\ LET rel == Head(release[c])
           t == rel.master_xact_id
           last == tracker[t].release_count = 1
       IN /\ ~isVoluntary(rel.r_type)
          /\ tracker[t].state = "s_probe"
          /\ tracker' = [tracker EXCEPT
               ![t].release_count = (@ + CountRange - 1) % CountRange,
               ![t].state = IF last THEN AfterProbes(tracker[t].a_type) ELSE @]
          /\ mem' = IF releaseHasData(rel.r_type)
                    THEN [mem EXCEPT ![tracker[t].addr] = rel.data] ELSE mem
    /\ release' = Receive(release, c)
    /\ UNCHANGED << voluntary, outer, acquire, probe, grant, grant_ack, latest >>

TakeVoluntaryRelease(c) ==
    /\ release[c] # << >>
    /\ isVoluntary(Head(release[c]).r_type)
    /\ voluntary.state = "s_idle"
    /\ voluntary' = [state |-> IF releaseHasData(Head(release[c]).r_type) THEN "s_mem" ELSE "s_ack",
                     addr |-> Head(release[c]).addr, data |-> Head(release[c]).data,
                     init_client_id |-> c]
    /\ release' = Receive(release, c)
    /\ UNCHANGED << tracker, mem, outer, acquire, probe, grant, grant_ack, latest >>

VoluntaryWrite ==
    /\ voluntary.state = "s_mem"
    /\ mem' = [mem EXCEPT ![voluntary.addr] = voluntary.data]
    /\ voluntary' = [voluntary EXCEPT !.state = "s_ack"]
    /\ UNCHANGED << tracker, outer, channels, latest >>

VoluntaryAck ==
    /\ voluntary.state = "s_ack"
    /\ GrantRoom(voluntary.init_client_id)
    /\ grant' = Send(grant, voluntary.init_client_id,
                     [g_type |-> "voluntaryAck", master_xact_id |-> 0, data |-> SomeValue])
    /\ voluntary' = IdleVoluntary
    /\ UNCHANGED << tracker, mem, outer, acquire, probe, release, grant_ack, latest >>

\* The write of an uncached acquire: the point where the HTIF's value counts.
MemWrite(t) ==
    /\ tracker[t].state = "s_mem_write"
    /\ mem' = [mem EXCEPT ![tracker[t].addr] = tracker[t].data]
    /\ latest' = [latest EXCEPT ![tracker[t].addr] = tracker[t].data]
    /\ tracker' = [tracker EXCEPT ![t].state =
         IF needsOuterRead(tracker[t].a_type) THEN "s_mem_read" ELSE "s_make_grant"]
    /\ UNCHANGED << voluntary, outer, channels >>

MemRead(t) ==
    /\ tracker[t].state = "s_mem_read"
    /\ outer' = outer \cup {[id |-> t, data |-> mem[tracker[t].addr]]}
    /\ tracker' = [tracker EXCEPT ![t].state = AfterGrant(t)]
    /\ UNCHANGED << voluntary, mem, channels, latest >>

\* Memory answers and the tracker forwards the data to the client.
ForwardGrant(t) ==
    /\ tracker[t].state = "s_busy"
    /\ GrantRoom(tracker[t].init_client_id)
    /\ \E r \in outer :
         /\ r.id = t
         /\ outer' = outer \ {r}
         /\ grant' = Send(grant, tracker[t].init_client_id,
                          [g_type |-> grant_type(t), master_xact_id |-> t, data |-> r.data])
    /\ UNCHANGED << voluntary, tracker, mem, acquire, probe, release, grant_ack, latest >>

\* Mutant: the tracker does not wait for the acknowledgement.
MakeGrant_no_wait(t) ==
    /\ tracker[t].state = "s_make_grant"
    /\ GrantRoom(tracker[t].init_client_id)
    /\ grant' = Send(grant, tracker[t].init_client_id,
                     [g_type |-> grant_type(t), master_xact_id |-> t, data |-> SomeValue])
    /\ tracker' = [tracker EXCEPT ![t] = IdleTracker]
    /\ UNCHANGED << voluntary, mem, outer, acquire, probe, release, grant_ack, latest >>

MakeGrant(t) ==
    /\ tracker[t].state = "s_make_grant"
    /\ GrantRoom(tracker[t].init_client_id)
    /\ grant' = Send(grant, tracker[t].init_client_id,
                     [g_type |-> grant_type(t), master_xact_id |-> t, data |-> SomeValue])
    /\ tracker' = [tracker EXCEPT ![t].state = AfterGrant(t)]
    /\ UNCHANGED << voluntary, mem, outer, acquire, probe, release, grant_ack, latest >>

\* ack.ready is always true; only a busy tracker with that id reacts.
TakeGrantAck(c) ==
    /\ grant_ack[c] # << >>
    /\ tracker' = [t \in AcquireIds |->
         IF t = Head(grant_ack[c]) /\ tracker[t].state = "s_busy" THEN IdleTracker ELSE tracker[t]]
    /\ grant_ack' = Receive(grant_ack, c)
    /\ UNCHANGED << voluntary, mem, outer, acquire, probe, release, grant, latest >>
============================================================================
