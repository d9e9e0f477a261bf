--------------------------- MODULE CoherentProofs ---------------------------
(***************************************************************************)
(* The first two layers of the proof of the memory system: types, one      *)
(* transaction per line, what the policies promise, and where the token of *)
(* every transaction and every eviction is; then the machines of a tile    *)
(* and the probes they answer.                                             *)
(***************************************************************************)
EXTENDS CoherentInvariant, IntegerLemmas, TLAPS, WellFoundedInduction, FiniteSetTheorems

(* A counter register of the tracker can hold at least one value.          *)
LEMMA CountRangePositive == CountRange \in Nat \ {0}
<1> DEFINE S == {m \in 1 .. 2 * nClients - 1 : \E k \in 0 .. nClients : m = 2 ^ k}
<1>1. nClients \in Nat /\ nClients >= 2
  BY TileLinkAssumption DEF nClients
<1>2. 2 ^ 0 = 1
  OBVIOUS
<1>3. 1 \in S
  <2>1. 1 \in 1 .. 2 * nClients - 1 /\ 0 \in 0 .. nClients
    BY <1>1
  <2> QED
    BY <1>2, <2>1, Zenon
<1>4. S \in SUBSET (0 .. 2 * nClients - 1) /\ 2 * nClients - 1 \in Nat
  BY <1>1
<1>5. Max(S) \in S
  BY <1>3, <1>4, MaxMember
<1> QED
  BY <1>1, <1>5 DEF CountRange

-----------------------------------------------------------------------------
(* The channels' queues hold messages and nothing else.                    *)
LEMMA SendType ==
    ASSUME NEW D, NEW M, NEW ch \in [D -> Seq(M)], NEW c \in D, NEW m \in M
    PROVE  Send(ch, c, m) \in [D -> Seq(M)]
<1>1. Append(ch[c], m) \in Seq(M)
  OBVIOUS
<1> QED
  BY <1>1 DEF Send

(* Taking the head of a queue leaves a queue of messages.                  *)
LEMMA ReceiveType ==
    ASSUME NEW D, NEW M, NEW ch \in [D -> Seq(M)], NEW c \in D, ch[c] # << >>
    PROVE  Receive(ch, c) \in [D -> Seq(M)] /\ Head(ch[c]) \in M
<1>1. Tail(ch[c]) \in Seq(M) /\ Head(ch[c]) \in M
  OBVIOUS
<1> QED
  BY <1>1 DEF Receive

-----------------------------------------------------------------------------
(* Each of the four policies answers every question with a value of the    *)
(* right kind.                                                             *)
LEMMA PolicyType ==
    /\ co.newStateOnHit \in [Cmds -> [TileStates -> TileStates]]
    /\ co.newStateOnGrant \in [GrantTypes -> [AcquireTypes -> TileStates]]
    /\ co.newStateOnProbe \in [ProbeTypes -> [TileStates -> TileStates]]
    /\ co.acquireOnMiss \in [Cmds -> AcquireTypes]
    /\ co.acquireOnSecondary \in [Cmds -> [AcquireTypes -> AcquireTypes]]
    /\ co.getProbeType \in [AcquireTypes -> ProbeTypes]
    /\ co.getGrantType \in [AcquireTypes -> [BOOLEAN -> GrantTypes]]
<1> USE DEF NewStateOnProbe, UncachedProbe, UncachedGrant,
            TileStates, GrantTypes, AcquireTypes, ProbeTypes
<1>1. CASE co = MICoherence
  BY <1>1 DEF MICoherence
<1>2. CASE co = MEICoherence
  BY <1>2 DEF MEICoherence
<1>3. CASE co = MSICoherence
  BY <1>3 DEF MSICoherence
<1>4. CASE co = MESICoherence
  BY <1>4 DEF MESICoherence
<1> QED
  BY <1>1, <1>2, <1>3, <1>4, TileLinkAssumption

-----------------------------------------------------------------------------
(* The agent's actions keep the types of its own state and the channels'.  *)

(* What the assumptions on the constants say, in the form the steps use.   *)
LEMMA Constants ==
    /\ SomeAddr \in Addrs /\ SomeValue \in Values /\ AnAddr \in Addrs /\ AValue \in Values
    /\ 0 \in Clients /\ 0 \in TrackerIds /\ HTIF \in Clients
    /\ Tiles \subseteq Clients /\ AcquireIds \subseteq TrackerIds
    /\ \A n \in Int : n % CountRange \in 0 .. CountRange - 1
    /\ 0 \in 0 .. CountRange - 1
    /\ IdleTracker \in AcquireTracker /\ IdleVoluntary \in VoluntaryReleaseTracker
<1>1. /\ SomeAddr \in Addrs /\ SomeValue \in Values
      /\ AnAddr \in Addrs /\ AValue \in Values
  BY TileLinkAssumption DEF SomeAddr, SomeValue, AnAddr, AValue
<1>2. /\ 0 \in Clients /\ 0 \in TrackerIds /\ HTIF \in Clients
      /\ Tiles \subseteq Clients /\ AcquireIds \subseteq TrackerIds
  BY TileLinkAssumption, L2AgentAssumption
     DEF Clients, TrackerIds, AcquireIds, Tiles, HTIF
<1>3. /\ \A n \in Int : n % CountRange \in 0 .. CountRange - 1
      /\ 0 \in 0 .. CountRange - 1
  BY CountRangePositive
<1>4. IdleTracker \in AcquireTracker /\ IdleVoluntary \in VoluntaryReleaseTracker
  BY <1>1, <1>2, <1>3
     DEF IdleTracker, AcquireTracker, IdleVoluntary, VoluntaryReleaseTracker, AcquireTypes
<1> QED
  BY <1>1, <1>2, <1>3, <1>4

(* s_idle takes an acquire: the tracker latches a message of a known kind. *)
LEMMA AcceptAcquireType ==
    ASSUME TypeOK, NEW c \in Clients, AcceptAcquire(c)
    PROVE  ChannelsTypeOK(TrackerIds)' /\ L2TypeOK'
<1> DEFINE acq == Head(acquire[c])
<1>1. acquire' \in [Clients -> Seq(AcquireMsg)] /\ acq \in AcquireMsg
  BY ReceiveType DEF TypeOK, ChannelsTypeOK, AcceptAcquire
<1>2. ChannelsTypeOK(TrackerIds)'
  BY <1>1 DEF TypeOK, ChannelsTypeOK, AcceptAcquire
<1>3. PICK t \in AcquireIds :
        tracker' = [tracker EXCEPT ![t] =
             [state |-> IF probe_initial_flags # {} THEN "s_probe" ELSE AfterProbes(acq.a_type),
              a_type |-> acq.a_type, addr |-> acq.addr, data |-> acq.data,
              init_client_id |-> c,
              init_sharer_cnt |-> nClients % CountRange,
              release_count |-> Cardinality(probe_initial_flags) % CountRange,
              probe_flags |-> probe_initial_flags]]
  BY DEF AcceptAcquire
<1>4. nClients \in Int /\ Cardinality(probe_initial_flags) \in Int
  <2>1. IsFiniteSet(Clients) /\ probe_initial_flags \subseteq Clients
    BY FS_Interval, TileLinkAssumption DEF Clients, probe_initial_flags
  <2> QED
    BY <2>1, FS_Subset, FS_CardinalityType, TileLinkAssumption DEF nClients
<1>5. AfterProbes(acq.a_type) \in {"s_mem_write", "s_mem_read", "s_make_grant"}
  BY DEF AfterProbes
<1>6. tracker' \in [AcquireIds -> AcquireTracker]
  BY <1>1, <1>3, <1>4, <1>5, Constants
     DEF TypeOK, L2TypeOK, AcquireTracker, AcquireMsg, probe_initial_flags
<1> QED
  BY <1>2, <1>6 DEF AcceptAcquire, TypeOK, L2TypeOK

(* s_probe sends one probe and clears its flag.                            *)
LEMMA SendProbeType ==
    ASSUME TypeOK, NEW t \in AcquireIds, SendProbe(t)
    PROVE  ChannelsTypeOK(TrackerIds)' /\ L2TypeOK'
<1> DEFINE m == [p_type |-> co.getProbeType[tracker[t].a_type], addr |-> tracker[t].addr,
                 master_xact_id |-> t]
<1>1. tracker[t] \in AcquireTracker
  BY DEF TypeOK, L2TypeOK
<1>2. PICK c \in tracker[t].probe_flags :
        /\ probe' = Send(probe, c, m)
        /\ tracker' = [tracker EXCEPT ![t].probe_flags = @ \ {c}]
  BY DEF SendProbe
<1>3. c \in Clients /\ m \in ProbeMsg(TrackerIds)
  BY <1>1, <1>2, PolicyType, Constants DEF AcquireTracker, ProbeMsg
<1>4. probe' \in [Clients -> Seq(ProbeMsg(TrackerIds))]
  BY <1>2, <1>3, SendType DEF TypeOK, ChannelsTypeOK
<1>5. tracker' \in [AcquireIds -> AcquireTracker]
  BY <1>1, <1>2 DEF TypeOK, L2TypeOK, AcquireTracker
<1> QED
  BY <1>4, <1>5 DEF SendProbe, TypeOK, ChannelsTypeOK, L2TypeOK

(* s_probe takes one answer and decrements its count within the register.  *)
LEMMA TakeProbeReleaseType ==
    ASSUME TypeOK, NEW c \in Clients, TakeProbeRelease(c)
    PROVE  ChannelsTypeOK(TrackerIds)' /\ L2TypeOK'
<1> DEFINE rel == Head(release[c])
           t == rel.master_xact_id
<1>1. release' \in [Clients -> Seq(ReleaseMsg(TrackerIds))] /\ rel \in ReleaseMsg(TrackerIds)
  BY ReceiveType DEF TypeOK, ChannelsTypeOK, TakeProbeRelease
<1>2. mem' \in [Addrs -> Values]
  BY <1>1 DEF TakeProbeRelease, TypeOK, L2TypeOK, ReleaseMsg
<1>3. CASE t \in AcquireIds
  <2>1. tracker[t] \in AcquireTracker
    BY <1>3 DEF TypeOK, L2TypeOK
  <2>2. (tracker[t].release_count + CountRange - 1) % CountRange \in 0 .. CountRange - 1
    BY <2>1, CountRangePositive DEF AcquireTracker
  <2>3. AfterProbes(tracker[t].a_type) \in {"s_mem_write", "s_mem_read", "s_make_grant"}
    BY DEF AfterProbes
  <2>4. tracker' \in [AcquireIds -> AcquireTracker]
    <3> DEFINE n == (tracker[t].release_count + CountRange - 1) % CountRange
               st == IF tracker[t].release_count = 1 THEN AfterProbes(tracker[t].a_type) ELSE tracker[t].state
               new == [tracker[t] EXCEPT !.release_count = n, !.state = st]
    <3>1. tracker' = [tracker EXCEPT ![t] = new]
      BY <1>3, Zenon DEF TakeProbeRelease
    <3>2. st \in {"s_mem_write", "s_mem_read", "s_make_grant"} \/ st = tracker[t].state
      BY <2>3
    <3> HIDE DEF n, st
    <3>3. new \in AcquireTracker
      BY <2>1, <2>2, <3>2 DEF AcquireTracker, n
    <3> HIDE DEF new
    <3> QED
      BY <1>3, <3>1, <3>3 DEF TypeOK, L2TypeOK
  <2> QED
    BY <1>1, <1>2, <2>4 DEF TakeProbeRelease, TypeOK, ChannelsTypeOK, L2TypeOK
<1>4. CASE t \notin AcquireIds
  <2>1. tracker' = tracker
    BY <1>4 DEF TakeProbeRelease, TypeOK, L2TypeOK
  <2> QED
    BY <1>1, <1>2, <2>1 DEF TakeProbeRelease, TypeOK, ChannelsTypeOK, L2TypeOK
<1> QED
  BY <1>3, <1>4

(* The three states of the voluntary-release tracker.                      *)
LEMMA VoluntaryType ==
    ASSUME TypeOK
    PROVE  /\ \A c \in Clients : TakeVoluntaryRelease(c) => ChannelsTypeOK(TrackerIds)' /\ L2TypeOK'
           /\ VoluntaryStep => ChannelsTypeOK(TrackerIds)' /\ L2TypeOK'
<1>1. ASSUME NEW c \in Clients, TakeVoluntaryRelease(c)
      PROVE  ChannelsTypeOK(TrackerIds)' /\ L2TypeOK'
  <2>1. /\ release' \in [Clients -> Seq(ReleaseMsg(TrackerIds))]
        /\ Head(release[c]) \in ReleaseMsg(TrackerIds)
    BY <1>1, ReceiveType DEF TypeOK, ChannelsTypeOK, TakeVoluntaryRelease
  <2>2. voluntary' \in VoluntaryReleaseTracker
    BY <1>1, <2>1 DEF TakeVoluntaryRelease, VoluntaryReleaseTracker, ReleaseMsg
  <2> QED
    BY <1>1, <2>1, <2>2 DEF TakeVoluntaryRelease, TypeOK, ChannelsTypeOK, L2TypeOK
<1>2. ASSUME VoluntaryWrite PROVE ChannelsTypeOK(TrackerIds)' /\ L2TypeOK'
  <2>1. voluntary' \in VoluntaryReleaseTracker /\ mem' \in [Addrs -> Values]
    BY <1>2 DEF VoluntaryWrite, TypeOK, L2TypeOK, VoluntaryReleaseTracker
  <2> QED
    BY <1>2, <2>1 DEF VoluntaryWrite, channels, TypeOK, ChannelsTypeOK, L2TypeOK
<1>3. ASSUME VoluntaryAck PROVE ChannelsTypeOK(TrackerIds)' /\ L2TypeOK'
  <2> DEFINE m == [g_type |-> "voluntaryAck", master_xact_id |-> 0, data |-> SomeValue]
  <2>1. m \in GrantMsg(TrackerIds) /\ voluntary.init_client_id \in Clients
    BY Constants DEF GrantMsg, GrantTypes, TypeOK, L2TypeOK, VoluntaryReleaseTracker
  <2>2. grant' \in [Clients -> Seq(GrantMsg(TrackerIds))]
    BY <1>3, <2>1, SendType DEF VoluntaryAck, TypeOK, ChannelsTypeOK
  <2> QED
    BY <1>3, <2>2, Constants DEF VoluntaryAck, TypeOK, ChannelsTypeOK, L2TypeOK
<1> QED
  BY <1>1, <1>2, <1>3 DEF VoluntaryStep

(* The memory, grant and acknowledgement states of an acquire tracker.     *)
LEMMA TrackerType ==
    ASSUME TypeOK, NEW t \in AcquireIds, MemWrite(t) \/ MemRead(t) \/ ForwardGrant(t) \/ MakeGrant(t)
    PROVE  ChannelsTypeOK(TrackerIds)' /\ L2TypeOK'
<1>1. tracker[t] \in AcquireTracker /\ t \in TrackerIds
  BY Constants DEF TypeOK, L2TypeOK
<1>2. /\ tracker[t].addr \in Addrs /\ tracker[t].data \in Values
      /\ tracker[t].init_client_id \in Clients /\ grant_type(t) \in GrantTypes
  <2> DEFINE sharers == tracker[t].init_sharer_cnt > 0
  <2>1. /\ tracker[t].addr \in Addrs /\ tracker[t].data \in Values
        /\ tracker[t].init_client_id \in Clients /\ tracker[t].a_type \in AcquireTypes
    BY <1>1 DEF AcquireTracker
  <2>2. sharers \in BOOLEAN
    OBVIOUS
  <2>3. grant_type(t) = co.getGrantType[tracker[t].a_type][sharers]
    BY DEF grant_type
  <2> HIDE DEF sharers
  <2>4. co.getGrantType[tracker[t].a_type] \in [BOOLEAN -> GrantTypes]
    BY <2>1, PolicyType
  <2>5. grant_type(t) \in GrantTypes
    BY <2>2, <2>3, <2>4, Zenon
  <2> QED
    BY <2>1, <2>5
<1>3. AfterGrant(t) \in {"s_busy", "s_idle"}
  BY DEF AfterGrant
<1>4. ASSUME NEW st \in {"s_busy", "s_idle", "s_mem_read", "s_make_grant"},
             tracker' = [tracker EXCEPT ![t].state = st]
      PROVE  tracker' \in [AcquireIds -> AcquireTracker]
  BY <1>1, <1>4 DEF TypeOK, L2TypeOK, AcquireTracker
<1>5. ASSUME NEW v \in Values,
             grant' = Send(grant, tracker[t].init_client_id,
                           [g_type |-> grant_type(t), master_xact_id |-> t, data |-> v])
      PROVE  grant' \in [Clients -> Seq(GrantMsg(TrackerIds))]
  <2>1. [g_type |-> grant_type(t), master_xact_id |-> t, data |-> v] \in GrantMsg(TrackerIds)
    BY <1>1, <1>2 DEF GrantMsg
  <2> QED
    BY <1>2, <1>5, <2>1, SendType DEF TypeOK, ChannelsTypeOK
<1>6. CASE MemWrite(t)
  <2>1. tracker' \in [AcquireIds -> AcquireTracker]
    BY <1>4, <1>6 DEF MemWrite
  <2>2. mem' \in [Addrs -> Values] /\ latest' \in [Addrs -> Values]
    BY <1>2, <1>6 DEF MemWrite, TypeOK, ChannelsTypeOK, L2TypeOK
  <2> QED
    BY <1>6, <2>1, <2>2 DEF MemWrite, channels, TypeOK, ChannelsTypeOK, L2TypeOK
<1>7. CASE MemRead(t)
  <2>1. tracker' \in [AcquireIds -> AcquireTracker]
    BY <1>3, <1>4, <1>7 DEF MemRead
  <2>2. outer' \in SUBSET [id : AcquireIds, data : Values]
    BY <1>2, <1>7 DEF MemRead, TypeOK, L2TypeOK
  <2> QED
    BY <1>7, <2>1, <2>2 DEF MemRead, channels, TypeOK, ChannelsTypeOK, L2TypeOK
<1>8. CASE ForwardGrant(t)
  <2>1. PICK r \in outer :
          /\ outer' = outer \ {r}
          /\ grant' = Send(grant, tracker[t].init_client_id,
                           [g_type |-> grant_type(t), master_xact_id |-> t, data |-> r.data])
    BY <1>8 DEF ForwardGrant
  <2>2. r.data \in Values /\ outer' \in SUBSET [id : AcquireIds, data : Values]
    BY <2>1 DEF TypeOK, L2TypeOK
  <2>3. grant' \in [Clients -> Seq(GrantMsg(TrackerIds))]
    BY <1>5, <2>1, <2>2
  <2> QED
    BY <1>8, <2>2, <2>3 DEF ForwardGrant, TypeOK, ChannelsTypeOK, L2TypeOK
<1>9. CASE MakeGrant(t)
  <2>1. tracker' \in [AcquireIds -> AcquireTracker]
    BY <1>3, <1>4, <1>9 DEF MakeGrant
  <2>2. grant' \in [Clients -> Seq(GrantMsg(TrackerIds))]
    BY <1>5, <1>9, Constants DEF MakeGrant
  <2> QED
    BY <1>9, <2>1, <2>2 DEF MakeGrant, TypeOK, ChannelsTypeOK, L2TypeOK
<1> QED
  BY <1>6, <1>7, <1>8, <1>9

(* Every step of the agent.                                                *)
LEMMA L2Type == ASSUME TypeOK, L2Step PROVE ChannelsTypeOK(TrackerIds)' /\ L2TypeOK'
<1>1. ASSUME NEW c \in Clients, TakeGrantAck(c)
      PROVE  ChannelsTypeOK(TrackerIds)' /\ L2TypeOK'
  <2>1. grant_ack' \in [Clients -> Seq(TrackerIds)]
    BY <1>1, ReceiveType DEF TakeGrantAck, TypeOK, ChannelsTypeOK
  <2>2. tracker' \in [AcquireIds -> AcquireTracker]
    BY <1>1, Constants DEF TakeGrantAck, TypeOK, L2TypeOK
  <2> QED
    BY <1>1, <2>1, <2>2 DEF TakeGrantAck, TypeOK, ChannelsTypeOK, L2TypeOK
<1> QED
  BY <1>1, AcceptAcquireType, SendProbeType, TakeProbeReleaseType, VoluntaryType, TrackerType
     DEF L2Step, TakeRelease, TrackerStep

-----------------------------------------------------------------------------
(* The same for the machines of a data cache.                              *)

CacheTypeOK == ChannelsTypeOK(TrackerIds) /\ DCacheTypeOK(TrackerIds)

(* The idle values of the units are values of the units.                   *)
LEMMA IdleTypes ==
    /\ IdleMSHR \in MSHR /\ IdleWb \in WritebackUnit(TrackerIds)
    /\ IdleProber \in ProbeUnit(TrackerIds) /\ NoReservation \in Reservation
<1>1. << >> \in Seq(Replay)
  OBVIOUS
<1>2. IdleMSHR \in MSHR
  BY <1>1, Constants DEF IdleMSHR, MSHR, AcquireTypes, TileStates
<1>3. IdleWb \in WritebackUnit(TrackerIds)
  BY Constants DEF IdleWb, WritebackUnit, ReleaseTypes
<1>4. IdleProber \in ProbeUnit(TrackerIds)
  BY Constants DEF IdleProber, ProbeUnit, ProbeTypes, TileStates
<1>5. NoReservation \in Reservation
  BY Constants DEF NoReservation, Reservation
<1> QED
  BY <1>2, <1>3, <1>4, <1>5

(* A change of an MSHR's state alone.                                      *)
LEMMA MshrStateType ==
    ASSUME mshr \in [Tiles -> MSHR], NEW c \in Tiles,
           NEW st \in {"s_invalid", "s_wb_req", "s_wb_resp", "s_meta_clear", "s_refill_req",
                       "s_refill_resp", "s_meta_write_req", "s_drain_rpq"}
    PROVE  [mshr EXCEPT ![c].state = st] \in [Tiles -> MSHR]
BY DEF MSHR

(* A hit changes the line and the reservation to values of their types.    *)
LEMMA PerformType ==
    ASSUME CacheTypeOK, NEW c \in Tiles, NEW cmd, NEW a \in Addrs, NEW v \in Values,
           Perform(c, cmd, a, v)
    PROVE  /\ line' \in [Tiles -> Line] /\ latest' \in [Addrs -> Values]
           /\ lrsc' \in [Tiles -> Reservation]
<1>1. line' \in [Tiles -> Line]
  BY DEF Perform, CacheTypeOK, DCacheTypeOK, Line
<1>2. latest' \in [Addrs -> Values]
  BY DEF Perform, CacheTypeOK, ChannelsTypeOK
<1>3. [valid |-> TRUE, addr |-> a] \in Reservation
  BY DEF Reservation
<1>4. lrsc' \in [Tiles -> Reservation]
  BY <1>3, IdleTypes DEF Perform, CacheTypeOK, DCacheTypeOK
<1> QED
  BY <1>1, <1>2, <1>4

(* A request of the core: hit, failed sc, primary or secondary miss.       *)
LEMMA CoreRequestType ==
    ASSUME CacheTypeOK, NEW c \in Tiles, CoreRequest(c)
    PROVE  CacheTypeOK'
<1>1. PICK cmd \in Cmds, a \in Addrs, v \in Values :
        CpuHit(c, cmd, a, v) \/ PrimaryMiss(c, cmd, a, v) \/ SecondaryMiss(c, cmd, a, v)
  BY Constants DEF CoreRequest
<1>2. Replayed(cmd, v) \in Seq(Replay)
  <2>1. [cmd |-> cmd, data |-> v] \in Replay
    BY DEF Replay
  <2> QED
    BY <2>1 DEF Replayed
<1>3. CASE CpuHit(c, cmd, a, v)
  BY <1>3, PerformType DEF CpuHit, channels, CacheTypeOK, ChannelsTypeOK, DCacheTypeOK
<1>4. CASE PrimaryMiss(c, cmd, a, v)
  <2> DEFINE hit == tag_match(c, a) /\ permitted(c, cmd)
             st == CASE hit -> "s_meta_write_req"
                     [] ~hit /\ tag_match(c, a) -> "s_refill_req"
                     [] ~tag_match(c, a) /\ line[c].state \in co.needsWriteback -> "s_wb_req"
                     [] OTHER -> "s_meta_clear"
             lst == IF hit THEN co.newStateOnHit[cmd][line[c].state] ELSE newStateOnFlush
  <2>1. line[c].tag \in Addrs /\ line[c].state \in TileStates
    BY DEF CacheTypeOK, DCacheTypeOK, Line
  <2>2. st \in {"s_meta_write_req", "s_refill_req", "s_wb_req", "s_meta_clear"}
    OBVIOUS
  <2>3. lst \in TileStates
    BY <2>1, PolicyType DEF newStateOnFlush, TileStates
  <2>4. co.acquireOnMiss[cmd] \in AcquireTypes
    BY PolicyType
  <2>5. mshr' = [mshr EXCEPT ![c] =
           [state |-> st, addr |-> a, old_tag |-> line[c].tag,
            acquire_type |-> co.acquireOnMiss[cmd], line_state |-> lst,
            rpq |-> Replayed(cmd, v)]]
    BY <1>4 DEF PrimaryMiss
  <2> HIDE DEF st, lst, hit
  <2>6. mshr' \in [Tiles -> MSHR]
    BY <1>2, <2>1, <2>2, <2>3, <2>4, <2>5 DEF CacheTypeOK, DCacheTypeOK, MSHR
  <2> QED
    BY <1>4, <2>6 DEF PrimaryMiss, channels, CacheTypeOK, ChannelsTypeOK, DCacheTypeOK
<1>5. CASE SecondaryMiss(c, cmd, a, v)
  <2>1. mshr[c] \in MSHR
    BY DEF CacheTypeOK, DCacheTypeOK
  <2>2. co.acquireOnSecondary[cmd][mshr[c].acquire_type] \in AcquireTypes
    BY <2>1, PolicyType DEF MSHR
  <2>3. mshr[c].rpq \o Replayed(cmd, v) \in Seq(Replay)
    BY <1>2, <2>1 DEF MSHR
  <2>4. mshr' = [mshr EXCEPT ![c] =
           [mshr[c] EXCEPT !.acquire_type = co.acquireOnSecondary[cmd][mshr[c].acquire_type],
                           !.rpq = mshr[c].rpq \o Replayed(cmd, v)]]
    BY <1>5, <2>1 DEF SecondaryMiss, CacheTypeOK, DCacheTypeOK, MSHR
  <2>5. mshr' \in [Tiles -> MSHR]
    BY <2>1, <2>2, <2>3, <2>4 DEF CacheTypeOK, DCacheTypeOK, MSHR
  <2> QED
    BY <1>5, <2>5 DEF SecondaryMiss, channels, CacheTypeOK, ChannelsTypeOK, DCacheTypeOK
<1> QED
  BY <1>1, <1>3, <1>4, <1>5

(* Every state of the MSHR.                                                *)
LEMMA MshrStepType ==
    ASSUME CacheTypeOK, NEW c \in Tiles, MshrStep(c) \/ MshrFinish(c)
    PROVE  CacheTypeOK'
<1> USE DEF CacheTypeOK
<1>0. /\ c \in Clients /\ mshr[c] \in MSHR /\ mshr[c].addr \in Addrs /\ mshr[c].old_tag \in Addrs
      /\ mshr[c].acquire_type \in AcquireTypes /\ mshr[c].line_state \in TileStates
  BY Constants DEF DCacheTypeOK, MSHR
<1>a. ASSUME grant[c] # << >>
      PROVE  /\ Head(grant[c]) \in GrantMsg(TrackerIds)
             /\ Receive(grant, c) \in [Clients -> Seq(GrantMsg(TrackerIds))]
             /\ [ackq EXCEPT ![c] = Append(@, Head(grant[c]).master_xact_id)]
                    \in [Tiles -> Seq(TrackerIds)]
  <2>1. /\ Head(grant[c]) \in GrantMsg(TrackerIds)
        /\ Receive(grant, c) \in [Clients -> Seq(GrantMsg(TrackerIds))]
    BY <1>0, <1>a, ReceiveType DEF ChannelsTypeOK
  <2>2. Send(ackq, c, Head(grant[c]).master_xact_id) \in [Tiles -> Seq(TrackerIds)]
    BY <2>1, SendType DEF DCacheTypeOK, GrantMsg
  <2> QED
    BY <2>1, <2>2 DEF Send
<1>1. CASE MshrWbReq(c)
  <2>1. [IdleWb EXCEPT !.state = "read", !.addr = mshr[c].old_tag] \in WritebackUnit(TrackerIds)
    BY <1>0, IdleTypes DEF WritebackUnit
  <2>2. wb' \in [Tiles -> WritebackUnit(TrackerIds)] /\ mshr' \in [Tiles -> MSHR]
    BY <1>1, <2>1, MshrStateType DEF MshrWbReq, DCacheTypeOK
  <2> QED
    BY <1>1, <2>2 DEF MshrWbReq, channels, ChannelsTypeOK, DCacheTypeOK
<1>2. CASE MshrWbResp(c)
  <2>1. /\ grant' \in [Clients -> Seq(GrantMsg(TrackerIds))] /\ mshr' \in [Tiles -> MSHR]
        /\ ackq' \in [Tiles -> Seq(TrackerIds)]
    BY <1>2, <1>a, MshrStateType DEF MshrWbResp, DCacheTypeOK
  <2> QED
    BY <1>2, <2>1 DEF MshrWbResp, ChannelsTypeOK, DCacheTypeOK
<1>3. CASE MshrMetaClear(c)
  <2>1. mshr' \in [Tiles -> MSHR]
    BY <1>3, MshrStateType DEF MshrMetaClear, DCacheTypeOK
  <2>2. line' \in [Tiles -> Line]
    BY <1>0, <1>3 DEF MshrMetaClear, DCacheTypeOK, Line, newStateOnFlush, TileStates
  <2> QED
    BY <1>3, <2>1, <2>2 DEF MshrMetaClear, channels, ChannelsTypeOK, DCacheTypeOK
<1>4. CASE MshrRefillReq(c)
  <2>1. [a_type |-> mshr[c].acquire_type, addr |-> mshr[c].addr, data |-> AValue] \in AcquireMsg
    BY <1>0, Constants DEF AcquireMsg
  <2>2. acquire' \in [Clients -> Seq(AcquireMsg)] /\ mshr' \in [Tiles -> MSHR]
    BY <1>0, <1>4, <2>1, SendType, MshrStateType DEF MshrRefillReq, ChannelsTypeOK, DCacheTypeOK
  <2> QED
    BY <1>4, <2>2 DEF MshrRefillReq, ChannelsTypeOK, DCacheTypeOK
<1>5. CASE MshrRefill(c)
  <2> DEFINE gnt == Head(grant[c])
  <2>1. gnt \in GrantMsg(TrackerIds) /\ gnt.data \in Values /\ gnt.g_type \in GrantTypes
    BY <1>5, <1>a DEF MshrRefill, GrantMsg
  <2>2. co.newStateOnGrant[gnt.g_type][mshr[c].acquire_type] \in TileStates
    BY <1>0, <2>1, PolicyType
  <2>3. mshr' = [mshr EXCEPT ![c] = [mshr[c] EXCEPT !.state = "s_meta_write_req",
            !.line_state = co.newStateOnGrant[gnt.g_type][mshr[c].acquire_type]]]
    BY <1>0, <1>5 DEF MshrRefill, DCacheTypeOK, MSHR
  <2>4. mshr' \in [Tiles -> MSHR]
    BY <1>0, <2>2, <2>3 DEF DCacheTypeOK, MSHR
  <2>5. line' \in [Tiles -> Line]
    BY <1>5, <2>1 DEF MshrRefill, DCacheTypeOK, Line
  <2>6. /\ grant' \in [Clients -> Seq(GrantMsg(TrackerIds))]
        /\ ackq' \in [Tiles -> Seq(TrackerIds)]
    BY <1>5, <1>a DEF MshrRefill, DCacheTypeOK
  <2> QED
    BY <1>5, <2>4, <2>5, <2>6 DEF MshrRefill, ChannelsTypeOK, DCacheTypeOK
<1>6. CASE MshrMetaWrite(c)
  <2>1. mshr' \in [Tiles -> MSHR]
    BY <1>6, MshrStateType DEF MshrMetaWrite, DCacheTypeOK
  <2>2. line' \in [Tiles -> Line]
    BY <1>0, <1>6 DEF MshrMetaWrite, DCacheTypeOK, Line
  <2> QED
    BY <1>6, <2>1, <2>2 DEF MshrMetaWrite, channels, ChannelsTypeOK, DCacheTypeOK
<1>7. CASE MshrReplay(c)
  <2>1. mshr[c].rpq \in Seq(Replay) /\ mshr[c].rpq # << >>
    BY <1>0, <1>7 DEF MshrReplay, MSHR
  <2>2. Head(mshr[c].rpq) \in Replay /\ Tail(mshr[c].rpq) \in Seq(Replay)
    BY <2>1
  <2>3. Head(mshr[c].rpq).data \in Values
    BY <2>2 DEF Replay
  <2>4. /\ line' \in [Tiles -> Line] /\ latest' \in [Addrs -> Values]
        /\ lrsc' \in [Tiles -> Reservation]
    BY <1>0, <1>7, <2>3, PerformType DEF MshrReplay
  <2>5. mshr' \in [Tiles -> MSHR]
    BY <1>0, <1>7, <2>2 DEF MshrReplay, DCacheTypeOK, MSHR
  <2> QED
    BY <1>7, <2>4, <2>5 DEF MshrReplay, channels, ChannelsTypeOK, DCacheTypeOK
<1>8. CASE MshrDrained(c)
  BY <1>8, IdleTypes DEF MshrDrained, channels, ChannelsTypeOK, DCacheTypeOK
<1>9. CASE MshrFinish(c)
  <2>1. ackq' \in [Tiles -> Seq(TrackerIds)] /\ Head(ackq[c]) \in TrackerIds
    BY <1>9, ReceiveType DEF MshrFinish, DCacheTypeOK
  <2>2. grant_ack' \in [Clients -> Seq(TrackerIds)]
    BY <1>0, <1>9, <2>1, SendType DEF MshrFinish, ChannelsTypeOK
  <2> QED
    BY <1>9, <2>1, <2>2 DEF MshrFinish, ChannelsTypeOK, DCacheTypeOK
<1> QED
  BY <1>1, <1>2, <1>3, <1>4, <1>5, <1>6, <1>7, <1>8, <1>9 DEF MshrStep

(* Both steps of the writeback unit.                                       *)
LEMMA WbStepType ==
    ASSUME CacheTypeOK, NEW c \in Tiles, WbStep(c)
    PROVE  CacheTypeOK'
<1> USE DEF CacheTypeOK
<1>0. c \in Clients /\ wb[c] \in WritebackUnit(TrackerIds) /\ line[c].data \in Values
  BY Constants DEF DCacheTypeOK, Line
<1>1. CASE WbRead(c)
  <2>1. wb' = [wb EXCEPT ![c] = [wb[c] EXCEPT !.state = "release", !.data = line[c].data]]
    BY <1>0, <1>1 DEF WbRead, DCacheTypeOK, WritebackUnit
  <2>2. wb' \in [Tiles -> WritebackUnit(TrackerIds)]
    BY <1>0, <2>1 DEF DCacheTypeOK, WritebackUnit
  <2> QED
    BY <1>1, <2>2 DEF WbRead, channels, ChannelsTypeOK, DCacheTypeOK
<1>2. CASE WbRelease(c)
  <2>1. [r_type |-> wb[c].r_type, addr |-> wb[c].addr, master_xact_id |-> wb[c].master_xact_id,
         data |-> wb[c].data] \in ReleaseMsg(TrackerIds)
    BY <1>0 DEF WritebackUnit, ReleaseMsg
  <2>2. release' \in [Clients -> Seq(ReleaseMsg(TrackerIds))]
    BY <1>0, <1>2, <2>1, SendType DEF WbRelease, ChannelsTypeOK
  <2> QED
    BY <1>2, <2>2, IdleTypes DEF WbRelease, ChannelsTypeOK, DCacheTypeOK
<1> QED
  BY <1>1, <1>2 DEF WbStep

(* Every state of the prober.                                              *)
LEMMA ProbeStepType ==
    ASSUME CacheTypeOK, NEW c \in Tiles, ProbeStep(c) \/ LrscExpire(c)
    PROVE  CacheTypeOK'
<1> USE DEF CacheTypeOK
<1>0. /\ c \in Clients /\ prober[c] \in ProbeUnit(TrackerIds) /\ prober[c].addr \in Addrs
      /\ prober[c].p_type \in ProbeTypes /\ prober[c].master_xact_id \in TrackerIds
      /\ prober[c].line_state \in TileStates /\ line[c].state \in TileStates
  BY Constants DEF DCacheTypeOK, ProbeUnit, Line
<1>a. ProbeReleaseType(c) \in ReleaseTypes
  BY <1>0 DEF ProbeReleaseType, ReleaseOnProbe, ReleaseTypes, ProbeTypes
<1>b. ASSUME NEW st \in {"s_meta_write", "s_writeback_req", "s_writeback_resp"},
             prober' = [prober EXCEPT ![c].state = st]
      PROVE  prober' \in [Tiles -> ProbeUnit(TrackerIds)]
  BY <1>0, <1>b DEF DCacheTypeOK, ProbeUnit
<1>1. CASE ProbeAccept(c)
  <2>1. /\ probe' \in [Clients -> Seq(ProbeMsg(TrackerIds))]
        /\ Head(probe[c]) \in ProbeMsg(TrackerIds)
    BY <1>0, <1>1, ReceiveType DEF ProbeAccept, ChannelsTypeOK
  <2>2. [IdleProber EXCEPT !.state = "s_meta_read", !.addr = Head(probe[c]).addr,
                           !.p_type = Head(probe[c]).p_type,
                           !.master_xact_id = Head(probe[c]).master_xact_id]
            \in ProbeUnit(TrackerIds)
    BY <2>1, IdleTypes DEF ProbeUnit, ProbeMsg
  <2>3. prober' \in [Tiles -> ProbeUnit(TrackerIds)]
    BY <1>1, <2>2 DEF ProbeAccept, DCacheTypeOK
  <2> QED
    BY <1>1, <2>1, <2>3 DEF ProbeAccept, ChannelsTypeOK, DCacheTypeOK
<1>2. CASE ProbeLookup(c)
  <2> DEFINE hit == tag_match(c, prober[c].addr)
             lst == IF hit THEN line[c].state ELSE newStateOnFlush
  <2>1. lst \in TileStates
    BY <1>0 DEF newStateOnFlush, TileStates
  <2>2. hit \in BOOLEAN
    BY DEF tag_match
  <2>3. prober' = [prober EXCEPT ![c] = [prober[c] EXCEPT !.state = "s_release", !.hit = hit,
                                                          !.line_state = lst]]
    BY <1>0, <1>2 DEF ProbeLookup, DCacheTypeOK, ProbeUnit
  <2> HIDE DEF hit, lst
  <2>4. prober' \in [Tiles -> ProbeUnit(TrackerIds)]
    BY <1>0, <2>1, <2>2, <2>3 DEF DCacheTypeOK, ProbeUnit
  <2> QED
    BY <1>2, <2>4 DEF ProbeLookup, channels, ChannelsTypeOK, DCacheTypeOK
<1>3. CASE ProbeRelease(c)
  <2> DEFINE m == [r_type |-> ProbeReleaseType(c), addr |-> prober[c].addr,
                   master_xact_id |-> prober[c].master_xact_id, data |-> AValue]
  <2>1. m \in ReleaseMsg(TrackerIds)
    BY <1>0, <1>a, Constants DEF ReleaseMsg
  <2>2. Send(release, c, m) \in [Clients -> Seq(ReleaseMsg(TrackerIds))]
    BY <1>0, <2>1, SendType DEF ChannelsTypeOK
  <2>3. release' \in [Clients -> Seq(ReleaseMsg(TrackerIds))]
    BY <1>3, <2>2 DEF ProbeRelease, ChannelsTypeOK
  <2>4. prober' \in [Tiles -> ProbeUnit(TrackerIds)]
    BY <1>3, <1>b, IdleTypes DEF ProbeRelease, DCacheTypeOK
  <2> QED
    BY <1>3, <2>3, <2>4 DEF ProbeRelease, ChannelsTypeOK, DCacheTypeOK
<1>4. CASE ProbeWbReq(c)
  <2>1. [IdleWb EXCEPT !.state = "read", !.addr = prober[c].addr, !.r_type = ProbeReleaseType(c),
                       !.master_xact_id = prober[c].master_xact_id] \in WritebackUnit(TrackerIds)
    BY <1>0, <1>a, IdleTypes DEF WritebackUnit
  <2>2. /\ wb' \in [Tiles -> WritebackUnit(TrackerIds)]
        /\ prober' \in [Tiles -> ProbeUnit(TrackerIds)]
    BY <1>4, <1>b, <2>1 DEF ProbeWbReq, DCacheTypeOK
  <2> QED
    BY <1>4, <2>2 DEF ProbeWbReq, channels, ChannelsTypeOK, DCacheTypeOK
<1>5. CASE ProbeWbResp(c)
  BY <1>5, <1>b DEF ProbeWbResp, channels, ChannelsTypeOK, DCacheTypeOK
<1>6. CASE ProbeMetaWrite(c)
  <2>1. co.newStateOnProbe[prober[c].p_type][prober[c].line_state] \in TileStates
    BY <1>0, PolicyType
  <2>2. line' \in [Tiles -> Line]
    BY <1>0, <1>6, <2>1 DEF ProbeMetaWrite, DCacheTypeOK, Line
  <2> QED
    BY <1>6, <2>2, IdleTypes DEF ProbeMetaWrite, channels, ChannelsTypeOK, DCacheTypeOK
<1>7. CASE LrscExpire(c)
  BY <1>7, IdleTypes DEF LrscExpire, channels, ChannelsTypeOK, DCacheTypeOK
<1> QED
  BY <1>1, <1>2, <1>3, <1>4, <1>5, <1>6, <1>7 DEF ProbeStep

(* The three memory states of the host interface.                          *)
LEMMA HtifType ==
    ASSUME TypeOK, HtifStep
    PROVE  ChannelsTypeOK(TrackerIds)' /\ HtifTypeOK(TrackerIds)'
<1>0. HTIF \in Clients /\ IdleHtif \in [state : {"state_rx", "state_mem_resp", "state_mem_finish"},
              a_type : {"readUncached", "writeUncached"}, addr : Addrs, mem_gxid : TrackerIds]
  BY Constants, TileLinkAssumption DEF IdleHtif
<1>1. CASE HostRequest
  <2>1. PICK a_type \in HostAcquires, a \in Addrs, v \in Values : HtifRequest(a_type, a, v)
    BY <1>1, Constants DEF HostRequest
  <2>2. a_type \in {"readUncached", "writeUncached"}
    BY SystemAssumption
  <2>3. [a_type |-> a_type, addr |-> a, data |-> v] \in AcquireMsg
    BY <2>2 DEF AcquireMsg, AcquireTypes
  <2>4. acquire' \in [Clients -> Seq(AcquireMsg)]
    BY <1>0, <2>1, <2>3, SendType DEF HtifRequest, TypeOK, ChannelsTypeOK
  <2>5. HtifTypeOK(TrackerIds)'
    BY <1>0, <2>1, <2>2 DEF HtifRequest, HtifTypeOK
  <2> QED
    BY <2>1, <2>4, <2>5 DEF HtifRequest, TypeOK, ChannelsTypeOK
<1>2. CASE HtifGrant
  <2>1. /\ grant' \in [Clients -> Seq(GrantMsg(TrackerIds))]
        /\ Head(grant[HTIF]) \in GrantMsg(TrackerIds)
    BY <1>0, <1>2, ReceiveType DEF HtifGrant, TypeOK, ChannelsTypeOK
  <2>2. HtifTypeOK(TrackerIds)'
    BY <1>2, <2>1 DEF HtifGrant, TypeOK, HtifTypeOK, GrantMsg
  <2> QED
    BY <1>2, <2>1, <2>2 DEF HtifGrant, TypeOK, ChannelsTypeOK
<1>3. CASE HtifFinish
  <2>1. grant_ack' \in [Clients -> Seq(TrackerIds)]
    BY <1>0, <1>3, SendType DEF HtifFinish, TypeOK, ChannelsTypeOK, HtifTypeOK
  <2> QED
    BY <1>0, <1>3, <2>1 DEF HtifFinish, TypeOK, ChannelsTypeOK, HtifTypeOK
<1> QED
  BY <1>1, <1>2, <1>3 DEF HtifStep

(* What the properties observe keeps its type.                             *)
LEMMA ObserveType ==
    ASSUME TypeOK, Observe, ChannelsTypeOK(TrackerIds)', HtifTypeOK(TrackerIds)'
    PROVE  seen' \in SUBSET Values
<1>1. latest'[htif'.addr] \in Values
  BY DEF ChannelsTypeOK, HtifTypeOK
<1> QED
  BY <1>1 DEF Observe, TypeOK

(* Every step of the system preserves TypeOK.                              *)
LEMMA TypeStep == TypeOK /\ [Next]_vars => TypeOK'
<1> SUFFICES ASSUME TypeOK, [Next]_vars PROVE TypeOK'
  OBVIOUS
<1>0. CacheTypeOK
  BY DEF TypeOK, CacheTypeOK
<1>1. CASE OfL2(L2Step)
  <2>1. ChannelsTypeOK(TrackerIds)' /\ L2TypeOK'
    BY <1>1, L2Type DEF OfL2
  <2>2. DCacheTypeOK(TrackerIds)' /\ HtifTypeOK(TrackerIds)'
    BY <1>1 DEF OfL2, TypeOK, dcvars, DCacheTypeOK, HtifTypeOK
  <2> QED
    BY <1>1, <2>1, <2>2, ObserveType DEF OfL2, TypeOK
<1>2. ASSUME NEW c \in Tiles, OfTile(TileStep(c)) PROVE TypeOK'
  <2>1. ChannelsTypeOK(TrackerIds)' /\ DCacheTypeOK(TrackerIds)'
    BY <1>0, <1>2, CoreRequestType, MshrStepType, WbStepType, ProbeStepType
       DEF OfTile, TileStep, CacheTypeOK
  <2>2. L2TypeOK' /\ HtifTypeOK(TrackerIds)'
    BY <1>2 DEF OfTile, TypeOK, l2vars, L2TypeOK, HtifTypeOK
  <2> QED
    BY <1>2, <2>1, <2>2, ObserveType DEF OfTile, TypeOK
<1>3. CASE OfHtif(HtifStep)
  <2>1. ChannelsTypeOK(TrackerIds)' /\ HtifTypeOK(TrackerIds)'
    BY <1>3, HtifType DEF OfHtif
  <2>2. L2TypeOK' /\ DCacheTypeOK(TrackerIds)'
    BY <1>3 DEF OfHtif, TypeOK, l2vars, dcvars, L2TypeOK, DCacheTypeOK
  <2> QED
    BY <1>3, <2>1, <2>2, ObserveType DEF OfHtif, TypeOK
<1>4. CASE UNCHANGED vars
  BY <1>4 DEF vars, channels, l2vars, dcvars, TypeOK, ChannelsTypeOK, L2TypeOK, DCacheTypeOK,
              HtifTypeOK
<1> QED
  BY <1>1, <1>2, <1>3, <1>4 DEF Next

(* The reset state has the types.                                          *)
LEMMA TypeInit == Init => TypeOK
<1> SUFFICES ASSUME Init PROVE TypeOK
  OBVIOUS
<1>1. ChannelsTypeOK(TrackerIds)
  <2>1. \A M : << >> \in Seq(M)
    OBVIOUS
  <2>2. latest \in [Addrs -> Values]
    BY Constants DEF Init, L2Init
  <2>3. acquire \in [Clients -> Seq(AcquireMsg)] /\ probe \in [Clients -> Seq(ProbeMsg(TrackerIds))]
    BY <2>1 DEF Init, ChannelsInit
  <2>4. /\ release \in [Clients -> Seq(ReleaseMsg(TrackerIds))]
        /\ grant \in [Clients -> Seq(GrantMsg(TrackerIds))]
        /\ grant_ack \in [Clients -> Seq(TrackerIds)]
    BY <2>1 DEF Init, ChannelsInit
  <2> QED
    BY <2>2, <2>3, <2>4 DEF ChannelsTypeOK
<1>2. L2TypeOK
  BY Constants DEF Init, L2Init, L2TypeOK
<1>3. DCacheTypeOK(TrackerIds)
  <2>1. line \in [Tiles -> Line]
    BY Constants DEF Init, DCacheInit, Line, TileStates
  <2>2. ackq \in [Tiles -> Seq(TrackerIds)]
    BY DEF Init, DCacheInit
  <2> QED
    BY <2>1, <2>2, IdleTypes DEF Init, DCacheInit, DCacheTypeOK
<1>4. HtifTypeOK(TrackerIds)
  BY Constants, TileLinkAssumption DEF Init, HtifInit, IdleHtif, HtifTypeOK
<1> QED
  BY <1>1, <1>2, <1>3, <1>4 DEF Init, TypeOK

(* The caches, the agent, the host interface and the channels between them *)
(* hold values of their types, with any of the four policies and for any   *)
(* number of tiles, lines and trackers: every message names a tracker,     *)
(* every grant and release has a kind the receiver knows, and the counts   *)
(* of sharers and releases stay in their registers' range.                 *)
THEOREM CoherentTypeCorrect == Spec => []TypeOK
  BY TypeInit, TypeStep, PTL DEF Spec

-----------------------------------------------------------------------------
(* A step of the agent moves a line into a tracker only from idle, and     *)
(* then no other tracker has it; no step of a cache or the host touches a  *)
(* tracker at all.                                                         *)
LEMMA OneTransactionStep ==
    ASSUME TypeOK, OneTransactionPerLine, [Next]_vars
    PROVE  OneTransactionPerLine'
<1> USE DEF isCoherenceConflict, Idle
<1>0. tracker \in [AcquireIds -> AcquireTracker]
  BY DEF TypeOK, L2TypeOK
\* A step that changes at most one tracker, which stays idle or keeps its line.
<1>a. ASSUME \A t \in AcquireIds :
               \/ tracker'[t].state = "s_idle"
               \/ tracker[t].state # "s_idle" /\ tracker'[t].addr = tracker[t].addr
      PROVE  OneTransactionPerLine'
  BY <1>a DEF OneTransactionPerLine
<1>1. CASE OfL2(L2Step)
  <2>1. ASSUME NEW c \in Clients, AcceptAcquire(c) PROVE OneTransactionPerLine'
    <3> DEFINE acq == Head(acquire[c])
    <3>1. PICK t \in AcquireIds :
            /\ Allocated(t)
            /\ tracker' = [tracker EXCEPT ![t] =
                 [state |-> IF probe_initial_flags # {} THEN "s_probe"
                            ELSE AfterProbes(acq.a_type),
                  a_type |-> acq.a_type, addr |-> acq.addr, data |-> acq.data,
                  init_client_id |-> c,
                  init_sharer_cnt |-> nClients % CountRange,
                  release_count |-> Cardinality(probe_initial_flags) % CountRange,
                  probe_flags |-> probe_initial_flags]]
      BY <2>1 DEF AcceptAcquire
    <3>2. tracker'[t].addr = acq.addr /\ \A u \in AcquireIds : u # t => tracker'[u] = tracker[u]
      BY <1>0, <3>1
    <3>3. \A u \in AcquireIds : ~Idle(u) => tracker[u].addr # acq.addr
      BY <2>1 DEF AcceptAcquire, has_acquire_conflict
    <3> QED
      BY <3>2, <3>3 DEF OneTransactionPerLine
  <2>2. ASSUME NEW c \in Clients, TakeProbeRelease(c) PROVE OneTransactionPerLine'
    <3>1. \A t \in AcquireIds : \/ tracker'[t] = tracker[t]
                               \/ /\ tracker[t].state # "s_idle"
                                  /\ tracker'[t].addr = tracker[t].addr
      BY <1>0, <2>2 DEF TakeProbeRelease, AcquireTracker
    <3> QED
      BY <1>a, <3>1
  <2>3. ASSUME NEW c \in Clients, TakeVoluntaryRelease(c) \/ VoluntaryStep
        PROVE  OneTransactionPerLine'
    BY <2>3 DEF TakeVoluntaryRelease, VoluntaryStep, VoluntaryWrite, VoluntaryAck,
                OneTransactionPerLine
  <2>4. ASSUME NEW c \in Clients, TakeGrantAck(c) PROVE OneTransactionPerLine'
    <3>1. \A t \in AcquireIds : tracker'[t] = tracker[t] \/ tracker'[t].state = "s_idle"
      BY <2>4 DEF TakeGrantAck, IdleTracker
    <3> QED
      BY <1>a, <3>1
  <2>5. ASSUME NEW t \in AcquireIds, TrackerStep(t) PROVE OneTransactionPerLine'
    <3>1. \A u \in AcquireIds : \/ tracker'[u] = tracker[u]
                               \/ /\ tracker[u].state # "s_idle"
                                  /\ tracker'[u].addr = tracker[u].addr
      BY <1>0, <2>5
         DEF TrackerStep, SendProbe, MemWrite, MemRead, ForwardGrant, MakeGrant, AcquireTracker
    <3> QED
      BY <1>a, <3>1
  <2>6. Clients # {}
    BY Constants
  <2> QED
    BY <1>1, <2>1, <2>2, <2>3, <2>4, <2>5, <2>6 DEF OfL2, L2Step, TakeRelease
<1>2. CASE UNCHANGED tracker
  BY <1>2 DEF OneTransactionPerLine
<1> QED
  BY <1>1, <1>2 DEF Next, OfTile, OfHtif, l2vars, vars

(* The agent never has two transactions of the same line under way, for    *)
(* any number of tiles, trackers and lines and with every policy.          *)
THEOREM OneTransaction == Spec => []OneTransactionPerLine
<1>1. Init => OneTransactionPerLine
  BY DEF Init, L2Init, IdleTracker, OneTransactionPerLine, Idle
<1>2. TypeOK /\ OneTransactionPerLine /\ [Next]_vars => OneTransactionPerLine'
  BY OneTransactionStep
<1> QED
  BY <1>1, <1>2, CoherentTypeCorrect, PTL DEF Spec
-----------------------------------------------------------------------------
(* What the protocol asks of a policy.                                     *)

(* A command that writes intends to.                                       *)
LEMMA CommandKinds ==
    \A cmd \in Cmds : /\ isWrite(cmd) => isWriteIntent(cmd)
                      /\ isRead(cmd) \in BOOLEAN /\ isWrite(cmd) \in BOOLEAN /\ isWriteIntent(cmd) \in BOOLEAN
BY DEF isWrite, isWriteIntent, isRead, Cmds

(* The kinds of request, grant and probe go together.                      *)
LEMMA PolicyMessages ==
    /\ \A a \in AcquireTypes, s \in BOOLEAN : requiresAckForGrant(co.getGrantType[a][s])
    /\ \A a \in AcquireTypes : messageIsUncached(a) => co.getProbeType[a] = UncachedProbe(a)
    /\ \A a : CachedType(a) =>
         /\ a \in AcquireTypes /\ ~messageIsUncached(a)
         /\ co.getProbeType[a] \in {"invalidate", "downgrade"}
         /\ \A cmd \in Cmds : /\ CachedType(co.acquireOnSecondary[cmd][a])
                              /\ ~co.needsTransactionOnSecondaryMiss[cmd][a] => co.acquireOnSecondary[cmd][a] = a
         /\ \A s \in BOOLEAN : messageUpdatesDataArray(co.getGrantType[a][s])
<1> USE CommandKinds DEF UncachedProbe, UncachedGrant, GrantTypes, AcquireTypes, ProbeTypes, requiresAckForGrant,
            messageIsUncached, CachedType, messageUpdatesDataArray
<1>1. CASE co = MICoherence
  BY <1>1 DEF MICoherence
<1>2. CASE co = MEICoherence
  BY <1>2 DEF MEICoherence
<1>3. CASE co = MSICoherence
  BY <1>3 DEF MSICoherence
<1>4. CASE co = MESICoherence
  BY <1>4, SMTT(20) DEF MESICoherence
<1> QED
  BY <1>1, <1>2, <1>3, <1>4, TileLinkAssumption

(* A grant gives a line, and alone only when the probes took all others.   *)
LEMMA PolicyGrants ==
    \A a : CachedType(a) =>
      /\ \A s \in BOOLEAN : GrantedState(a, s) \in TileStates \ {"Invalid"}
      /\ Exclusive(GrantedState(a, TRUE)) => co.getProbeType[a] = "invalidate"
<1> USE CommandKinds DEF UncachedProbe, UncachedGrant, GrantTypes, AcquireTypes, ProbeTypes, TileStates, Exclusive,
            CachedType, GrantedState
<1>1. CASE co = MICoherence
  BY <1>1 DEF MICoherence
<1>2. CASE co = MEICoherence
  BY <1>2 DEF MEICoherence
<1>3. CASE co = MSICoherence
  BY <1>3 DEF MSICoherence
<1>4. CASE co = MESICoherence
  BY <1>4 DEF MESICoherence
<1> QED
  BY <1>1, <1>2, <1>3, <1>4, TileLinkAssumption

(* Permissions: what a command needs and what it makes of the line.        *)
LEMMA PolicyHits ==
    /\ co.needsWriteback = {"ExclusiveDirty"}
    /\ \A cmd \in Cmds, st \in TileStates : Known(st) =>
         /\ "Invalid" \notin co.isHit[cmd]
         /\ st \notin co.isHit[cmd] => st \in {"Invalid", "Shared"}
         /\ st \in co.isHit[cmd] /\ isWriteIntent(cmd) => Exclusive(st)
         /\ st \in co.isHit[cmd] /\ isWrite(cmd) => co.newStateOnHit[cmd][st] = "ExclusiveDirty"
         /\ ~isWrite(cmd) => co.newStateOnHit[cmd][st] = st
    /\ Known("ExclusiveDirty") /\ Known("Invalid")
    /\ \A cmd \in Cmds : Served("ExclusiveDirty", cmd)
    /\ \A cmd \in Cmds, st \in TileStates : ~isWriteIntent(cmd) /\ st \in co.isHit["load"] => Served(st, cmd)
<1>0. "load" \in Cmds /\ ~isWriteIntent("load") /\ ~isWrite("load")
  BY DEF Cmds, isWriteIntent, isWrite
<1> USE CommandKinds, <1>0 DEF TileStates, Exclusive, Known, Served
<1>1. CASE co = MICoherence
  BY <1>1 DEF MICoherence
<1>2. CASE co = MEICoherence
  BY <1>2 DEF MEICoherence
<1>3. CASE co = MSICoherence
  BY <1>3 DEF MSICoherence
<1>4. CASE co = MESICoherence
  BY <1>4 DEF MESICoherence
<1> QED
  BY <1>1, <1>2, <1>3, <1>4, TileLinkAssumption

(* Probes: what they leave is what the transaction allows.                 *)
LEMMA PolicyProbes ==
    /\ \A p \in ProbeTypes, st \in TileStates :
         /\ p = "copy" => co.newStateOnProbe[p][st] = st
         /\ p = "invalidate" => co.newStateOnProbe[p][st] = "Invalid"
    /\ \A a \in AcquireTypes, st \in TileStates : co.getProbeType[a] = "downgrade" =>
         co.newStateOnProbe["downgrade"][st] = "Shared" /\ Known("Shared")
<1>0. "load" \in Cmds /\ ~isWriteIntent("load")
  BY DEF Cmds, isWriteIntent, isWrite
<1> USE CommandKinds, <1>0 DEF Known, UncachedProbe, AcquireTypes, ProbeTypes, TileStates, CachedType, NewStateOnProbe
<1>1. CASE co = MICoherence
  BY <1>1 DEF MICoherence
<1>2. CASE co = MEICoherence
  BY <1>2 DEF MEICoherence
<1>3. CASE co = MSICoherence
  BY <1>3 DEF MSICoherence
<1>4. CASE co = MESICoherence
  BY <1>4 DEF MESICoherence
<1> QED
  BY <1>1, <1>2, <1>3, <1>4, TileLinkAssumption

(* A request with the intent to write asks for everything.                *)
LEMMA PolicyIntent ==
    /\ \A s \in BOOLEAN : GrantedState("readExclusive", s) = "ExclusiveDirty"
    /\ \A a : \A s \in BOOLEAN : CachedType(a) => GrantedState(a, s) \in co.isHit["load"]
    /\ \A cmd \in Cmds : isWriteIntent(cmd) => co.acquireOnMiss[cmd] = "readExclusive"
    /\ \A cmd \in Cmds : \A a : CachedType(a) =>
          co.acquireOnSecondary[cmd][a] = IF isWriteIntent(cmd) THEN "readExclusive" ELSE a
<1>0. "load" \in Cmds /\ ~isWriteIntent("load")
  BY DEF Cmds, isWriteIntent, isWrite
<1> USE CommandKinds, <1>0 DEF UncachedGrant, GrantTypes, AcquireTypes, TileStates, CachedType, GrantedState
<1>1. CASE co = MICoherence
  BY <1>1 DEF MICoherence
<1>2. CASE co = MEICoherence
  BY <1>2 DEF MEICoherence
<1>3. CASE co = MSICoherence
  BY <1>3 DEF MSICoherence
<1>4. CASE co = MESICoherence
  BY <1>4 DEF MESICoherence
<1> QED
  BY <1>1, <1>2, <1>3, <1>4, TileLinkAssumption

(* A replay finds what it needs, whether it came first or second.          *)
LEMMA PolicyReplays ==
    \A cmd \in Cmds, s \in BOOLEAN :
      /\ Served(GrantedState(co.acquireOnMiss[cmd], s), cmd)
      /\ \A a : CachedType(a) =>
           /\ Served(GrantedState(co.acquireOnSecondary[cmd][a], s), cmd)
           /\ \A cmd2 \in Cmds : Served(GrantedState(a, s), cmd2) =>
                 Served(GrantedState(co.acquireOnSecondary[cmd][a], s), cmd2)
<1> TAKE cmd \in Cmds, s \in BOOLEAN
<1>1. CachedType(co.acquireOnMiss[cmd])
  BY DEF CachedType
<1>2. \A a : CachedType(a) => GrantedState(a, s) \in TileStates
  BY PolicyGrants
<1> QED
  BY <1>1, <1>2, PolicyIntent, PolicyHits

(* The answer to a probe is never taken for an eviction.                   *)
LEMMA PolicyAnswers ==
    \A p \in ProbeTypes, d \in BOOLEAN :
      /\ ReleaseOnProbe(p, d) \in ReleaseTypes /\ ~isVoluntary(ReleaseOnProbe(p, d))
      /\ releaseHasData(ReleaseOnProbe(p, d)) = d
      /\ ReleaseOnProbe(p, d) \in {"invalidateData", "downgradeData"} => p \in {"invalidate", "downgrade"} /\ d
      /\ ReleaseOnProbe(p, d) = "copyData" => p = "copy" /\ d
BY DEF ReleaseOnProbe, ReleaseTypes, isVoluntary, releaseHasData, ProbeTypes

-----------------------------------------------------------------------------
(* What sending and receiving do to the queues.                            *)

(* A message that is sent becomes the last of its queue.                   *)
LEMMA SendEffect ==
    ASSUME NEW D, NEW M, NEW ch \in [D -> Seq(M)], NEW c \in D, NEW m \in M, NEW new, new = Send(ch, c, m)
    PROVE  /\ \A d \in D : d # c => new[d] = ch[d]
           /\ new[c] # << >> /\ Len(new[c]) = Len(ch[c]) + 1 /\ Len(ch[c]) \in Nat
           /\ DOMAIN ch[c] = 1 .. Len(ch[c]) /\ DOMAIN new[c] = 1 .. Len(ch[c]) + 1
           /\ \A i \in DOMAIN ch[c] : new[c][i] = ch[c][i]
           /\ new[c][Len(ch[c]) + 1] = m
           /\ ch[c] = << >> => Head(new[c]) = m
           /\ ch[c] # << >> => Head(new[c]) = Head(ch[c])
<1>1. new[c] = Append(ch[c], m) /\ \A d \in D : d # c => new[d] = ch[d]
  BY DEF Send
<1>2. ch[c] \in Seq(M)
  OBVIOUS
<1> QED
  BY <1>1, <1>2

(* The message that is received was the first of its queue.                *)
LEMMA ReceiveEffect ==
    ASSUME NEW D, NEW M, NEW ch \in [D -> Seq(M)], NEW c \in D, ch[c] # << >>, NEW new, new = Receive(ch, c)
    PROVE  /\ \A d \in D : d # c => new[d] = ch[d]
           /\ Len(ch[c]) \in Nat /\ Len(ch[c]) >= 1 /\ Len(new[c]) = Len(ch[c]) - 1
           /\ DOMAIN ch[c] = 1 .. Len(ch[c]) /\ DOMAIN new[c] = 1 .. Len(ch[c]) - 1
           /\ \A i \in DOMAIN new[c] : i + 1 \in DOMAIN ch[c] /\ new[c][i] = ch[c][i + 1]
           /\ 1 \in DOMAIN ch[c] /\ Head(ch[c]) = ch[c][1]
           /\ Len(ch[c]) <= 1 => new[c] = << >>
<1>1. new[c] = Tail(ch[c]) /\ \A d \in D : d # c => new[d] = ch[d]
  BY DEF Receive
<1>2. ch[c] \in Seq(M)
  OBVIOUS
<1> QED
  BY <1>1, <1>2

(* A message sent to an empty queue is its first.                          *)
LEMMA SendFirst ==
    ASSUME NEW D, NEW M, NEW ch \in [D -> Seq(M)], NEW c \in D, NEW m \in M, ch[c] = << >>,
           NEW new, new = Send(ch, c, m)
    PROVE  /\ \A d \in D : d # c => new[d] = ch[d]
           /\ new[c] # << >> /\ Len(new[c]) = 1 /\ Head(new[c]) = m
           /\ DOMAIN new[c] = {1} /\ new[c][1] = m
<1>1. new[c] = Append(<< >>, m) /\ \A d \in D : d # c => new[d] = ch[d]
  BY DEF Send
<1>2. new[c] = << m >>
  BY <1>1
<1> QED
  BY <1>1, <1>2

(* A queue of one message is empty when that is received.                  *)
LEMMA ReceiveOnly ==
    ASSUME NEW D, NEW M, NEW ch \in [D -> Seq(M)], NEW c \in D, ch[c] # << >>, Len(ch[c]) <= 1,
           NEW new, new = Receive(ch, c)
    PROVE  /\ \A d \in D : d # c => new[d] = ch[d]
           /\ new[c] = << >>
  BY ReceiveEffect

-----------------------------------------------------------------------------
(* Tokens.                                                                 *)

(* The clients are the tiles and the host interface.                       *)
LEMMA ClientSets ==
    /\ HTIF \in Clients /\ HTIF \notin Tiles /\ Tiles \subseteq Clients
    /\ \A c \in Clients : c # HTIF => c \in Tiles
    /\ 0 \notin AcquireIds /\ AcquireIds \subseteq TrackerIds
BY TileLinkAssumption, L2AgentAssumption DEF Clients, Tiles, HTIF, AcquireIds, TrackerIds

(* Every grant of an AcquireTracker has to be acknowledged.                *)
LEMMA TrackerFields ==
    ASSUME TypeOK, NEW t \in AcquireIds
    PROVE  /\ tracker[t] \in AcquireTracker /\ client(t) \in Clients
           /\ tracker[t].a_type \in AcquireTypes /\ tracker[t].addr \in Addrs
           /\ requiresAckForGrant(grant_type(t)) /\ grant_type(t) \in GrantTypes
<1>1. /\ tracker[t] \in AcquireTracker /\ client(t) \in Clients
      /\ tracker[t].a_type \in AcquireTypes /\ tracker[t].addr \in Addrs
  BY DEF TypeOK, L2TypeOK, AcquireTracker, client
<1> DEFINE s == tracker[t].init_sharer_cnt > 0
<1>2. s \in BOOLEAN
  OBVIOUS
<1>3. grant_type(t) = co.getGrantType[tracker[t].a_type][s]
  BY DEF grant_type
<1> HIDE DEF s
<1> QED
  BY <1>1, <1>2, <1>3, PolicyMessages, PolicyType

(* Only the AcquireTrackers wait for acknowledgements.                     *)
LEMMA BusyIds == \A t, c : BusyFor(t, c) => t \in AcquireIds
BY DEF BusyFor

\* Nothing that is a token moves, and nobody starts or ends a transaction.
LEMMA TokensFrame ==
    ASSUME Lengths, OnePlace, Asking,
           UNCHANGED << acquire, grant, grant_ack, outer, ackq, htif >>,
           \A t \in AcquireIds :
             /\ tracker'[t].init_client_id = tracker[t].init_client_id
             /\ tracker'[t].a_type = tracker[t].a_type /\ tracker'[t].addr = tracker[t].addr
             /\ tracker'[t].state = "s_idle" <=> tracker[t].state = "s_idle"
             /\ tracker'[t].state = "s_busy" <=> tracker[t].state = "s_busy",
           \A c \in Tiles :
             /\ mshr'[c].state = "s_refill_resp" <=> mshr[c].state = "s_refill_resp"
             /\ mshr[c].state = "s_refill_resp" =>
                   mshr'[c].acquire_type = mshr[c].acquire_type /\ mshr'[c].addr = mshr[c].addr
             /\ mshr'[c].state = "s_wb_resp" => ackq[c] = << >>
             /\ mshr'[c].state # "s_invalid" => CachedType(mshr'[c].acquire_type)
    PROVE  Lengths' /\ OnePlace' /\ Asking'
<1>1. Lengths'
  BY DEF Lengths
<1>2. \A t \in AcquireIds : (client(t))' = client(t) /\ (InOuter(t)' <=> InOuter(t)) /\ (Idle(t)' <=> Idle(t))
  BY DEF client, InOuter, Idle
<1>3. \A t \in TrackerIds, c \in Clients :
        /\ GrantOf(t, c)' <=> GrantOf(t, c)
        /\ HeldBy(t, c)' <=> HeldBy(t, c)
        /\ Acked(t, c)' <=> Acked(t, c)
        /\ BusyFor(t, c)' <=> BusyFor(t, c)
        /\ Consumed(t, c)' <=> Consumed(t, c)
  BY <1>2 DEF GrantOf, HeldBy, Acked, BusyFor, Consumed
<1>4. OnePlace'
  BY <1>2, <1>3, ClientSets DEF OnePlace
<1>5. Asking'
  BY <1>2, <1>3, ClientSets DEF Asking, Waiting
<1> QED
  BY <1>1, <1>4, <1>5

Tokens == Lengths /\ OnePlace /\ Asking
TokenContext == TypeOK /\ OneTransactionPerLine /\ TokenInv

(* The step that allocates a tracker: the request leaves its channel, and  *)
(* no grant of it is under way.                                            *)
LEMMA TokenAcceptAcquire ==
    ASSUME TokenContext, NEW c \in Clients, AcceptAcquire(c), UNCHANGED << dcvars, htif >>
    PROVE  Tokens'
<1> USE DEF TokenContext, TokenInv
<1> DEFINE acq == Head(acquire[c])
<1>1. PICK t \in AcquireIds :
        /\ Allocated(t)
        /\ tracker' = [tracker EXCEPT ![t] =
             [state |-> IF probe_initial_flags # {} THEN "s_probe"
                        ELSE AfterProbes(acq.a_type),
              a_type |-> acq.a_type, addr |-> acq.addr, data |-> acq.data,
              init_client_id |-> c,
              init_sharer_cnt |-> nClients % CountRange,
              release_count |-> Cardinality(probe_initial_flags) % CountRange,
              probe_flags |-> probe_initial_flags]]
  BY DEF AcceptAcquire
<1>2. tracker \in [AcquireIds -> AcquireTracker] /\ acquire \in [Clients -> Seq(AcquireMsg)]
  BY DEF TypeOK, L2TypeOK, ChannelsTypeOK
<1>3. /\ \A u \in AcquireIds : u # t => tracker'[u] = tracker[u]
      /\ tracker'[t].init_client_id = c /\ tracker'[t].a_type = acq.a_type /\ tracker'[t].addr = acq.addr
      /\ tracker'[t].state \notin {"s_idle", "s_busy"} /\ tracker[t].state = "s_idle"
  BY <1>1, <1>2 DEF AfterProbes, Allocated, Idle
<1>4. acquire'[c] = << >> /\ \A d \in Clients : d # c => acquire'[d] = acquire[d]
  <2>1. acquire[c] # << >> /\ acquire' = Receive(acquire, c) /\ Len(acquire[c]) <= 1
    BY DEF AcceptAcquire, Lengths
  <2> QED
    BY <2>1, <1>2, ReceiveEffect
<1>5. UNCHANGED << grant, grant_ack, outer, ackq, htif, mshr >> /\ acquire[c] # << >>
  BY DEF AcceptAcquire, dcvars
<1>6. Lengths'
  BY <1>4, <1>5 DEF Lengths
<1>7. \A u \in TrackerIds, d \in Clients :
        /\ InOuter(u)' <=> InOuter(u)
        /\ GrantOf(u, d)' <=> GrantOf(u, d)
        /\ HeldBy(u, d)' <=> HeldBy(u, d)
        /\ Acked(u, d)' <=> Acked(u, d)
        /\ Consumed(u, d)' <=> Consumed(u, d)
  BY <1>5 DEF InOuter, GrantOf, HeldBy, Acked, Consumed
<1>8. \A u \in AcquireIds : u # t =>
        /\ (client(u))' = client(u)
        /\ Idle(u)' <=> Idle(u)
        /\ \A d \in Clients : BusyFor(u, d)' <=> BusyFor(u, d)
  BY <1>3 DEF client, Idle, BusyFor
<1>9. /\ (client(t))' = c /\ ~Idle(t)' /\ Idle(t) /\ \A d \in Clients : ~BusyFor(t, d)' /\ ~BusyFor(t, d)
  BY <1>3 DEF client, Idle, BusyFor
<1>10. OnePlace'
  BY <1>3, <1>5, <1>7, <1>8, <1>9, ClientSets, BusyIds DEF OnePlace
<1>11. \A d \in Clients, x \in AcquireTypes, a \in Addrs : Waiting(d, x, a)' <=> Waiting(d, x, a)
  BY <1>5, ClientSets DEF Waiting
<1>12. Asking'
  BY <1>3, <1>4, <1>5, <1>7, <1>8, <1>9, <1>11, ClientSets DEF Asking
<1> QED
  BY <1>6, <1>10, <1>12 DEF Tokens

(* The acknowledgement of an eviction is not the grant of a transaction.   *)
LEMMA TokenVoluntaryAck ==
    ASSUME TokenContext, VoluntaryAck, UNCHANGED << dcvars, htif >>
    PROVE  Tokens'
<1> USE DEF TokenContext, TokenInv
<1>1. grant \in [Clients -> Seq(GrantMsg(TrackerIds))]
  BY DEF TypeOK, ChannelsTypeOK
<1>a. PICK c \in Clients : c = voluntary.init_client_id
  BY DEF TypeOK, L2TypeOK, VoluntaryReleaseTracker
<1>2. PICK m \in GrantMsg(TrackerIds) :
        m = [g_type |-> "voluntaryAck", master_xact_id |-> 0, data |-> SomeValue]
  BY Constants DEF GrantMsg, GrantTypes
<1>3. grant' = Send(grant, c, m) /\ Len(grant[c]) < 1
  BY <1>a, <1>2 DEF VoluntaryAck, GrantRoom, GrantEntries
<1>4. grant[c] = << >>
  BY <1>1, <1>3
<1>5. ~requiresAckForGrant(m.g_type)
  BY <1>2 DEF requiresAckForGrant
<1>6. /\ \A d \in Clients : d # c => grant'[d] = grant[d]
      /\ grant'[c] # << >> /\ Len(grant'[c]) = 1 /\ Head(grant'[c]) = m
  BY <1>1, <1>3, <1>4, SendFirst
<1>7. UNCHANGED << acquire, grant_ack, outer, tracker, ackq, htif, mshr >>
  BY DEF VoluntaryAck, dcvars
<1>8. Lengths'
  <2>1. \A d \in Clients : Len(grant'[d]) <= 1
    <3>1. \A d \in Clients : Len(grant[d]) <= 1
      BY DEF Lengths
    <3>2. Len(grant'[c]) <= 1
      BY <1>6
    <3> QED
      BY <1>6, <3>1, <3>2
  <2> QED
    BY <2>1, <1>7 DEF Lengths
<1>9. \A u \in TrackerIds, d \in Clients :
        /\ InOuter(u)' <=> InOuter(u)
        /\ GrantOf(u, d)' <=> GrantOf(u, d)
        /\ HeldBy(u, d)' <=> HeldBy(u, d)
        /\ Acked(u, d)' <=> Acked(u, d)
        /\ Consumed(u, d)' <=> Consumed(u, d)
        /\ BusyFor(u, d)' <=> BusyFor(u, d)
  BY <1>4, <1>5, <1>6, <1>7 DEF InOuter, GrantOf, HeldBy, Acked, Consumed, BusyFor, client
<1>10. \A u \in AcquireIds : (client(u))' = client(u) /\ (Idle(u)' <=> Idle(u))
  BY <1>7 DEF client, Idle
<1>11. OnePlace'
  BY <1>7, <1>9, <1>10, ClientSets DEF OnePlace
<1>12. \A d \in Clients, x \in AcquireTypes, a \in Addrs : Waiting(d, x, a)' <=> Waiting(d, x, a)
  BY <1>7, ClientSets DEF Waiting
<1>13. Asking'
  BY <1>7, <1>9, <1>10, <1>12, ClientSets DEF Asking
<1> QED
  BY <1>8, <1>11, <1>13 DEF Tokens

(* The read a tracker sends to memory.                                     *)
LEMMA TokenMemRead ==
    ASSUME TokenContext, NEW t \in AcquireIds, MemRead(t), UNCHANGED << dcvars, htif >>
    PROVE  Tokens'
<1> USE DEF TokenContext, TokenInv
<1>1. tracker \in [AcquireIds -> AcquireTracker]
  BY DEF TypeOK, L2TypeOK
<1>2. /\ \A u \in AcquireIds : u # t => tracker'[u] = tracker[u]
      /\ tracker'[t].init_client_id = tracker[t].init_client_id
      /\ tracker'[t].a_type = tracker[t].a_type /\ tracker'[t].addr = tracker[t].addr
      /\ tracker'[t].state = "s_busy" /\ tracker[t].state = "s_mem_read"
  BY <1>1, TrackerFields DEF MemRead, AfterGrant, AcquireTracker
<1> DEFINE r == [id |-> t, data |-> mem[tracker[t].addr]]
<1>3. outer' = outer \cup {r} /\ r.id = t
  BY DEF MemRead
<1> HIDE DEF r
<1>4. UNCHANGED << acquire, grant, grant_ack, ackq, htif, mshr >>
  BY DEF MemRead, channels, dcvars
<1>5. Lengths'
  BY <1>4 DEF Lengths
<1>6. /\ \A u \in TrackerIds, d \in Clients :
            /\ GrantOf(u, d)' <=> GrantOf(u, d)
            /\ HeldBy(u, d)' <=> HeldBy(u, d)
            /\ Acked(u, d)' <=> Acked(u, d)
            /\ Consumed(u, d)' <=> Consumed(u, d)
      /\ \A u \in TrackerIds : InOuter(u)' <=> InOuter(u) \/ u = t
  BY <1>3, <1>4 DEF InOuter, GrantOf, HeldBy, Acked, Consumed
<1>7. \A d \in Clients : ~InOuter(t) /\ ~BusyFor(t, d) /\ ~GrantOf(t, d) /\ ~HeldBy(t, d) /\ ~Acked(t, d) /\ ~Consumed(t, d)
  BY <1>2, ClientSets DEF OnePlace, BusyFor, Consumed
<1>8. /\ \A u \in AcquireIds : (client(u))' = client(u) /\ (Idle(u)' <=> Idle(u))
      /\ \A u \in AcquireIds, d \in Clients : u # t => (BusyFor(u, d)' <=> BusyFor(u, d))
  BY <1>2 DEF client, Idle, BusyFor
<1>9. \A s, s2 \in outer' : s.id = s2.id => s = s2
  <2>1. \A s \in outer : s.id # t
    BY <1>7, ClientSets DEF InOuter
  <2>2. \A s, s2 \in outer : s.id = s2.id => s = s2
    BY DEF OnePlace
  <2> QED
    BY <1>3, <2>1, <2>2
<1>10. OnePlace'
  BY <1>2, <1>4, <1>6, <1>7, <1>8, <1>9, ClientSets, BusyIds DEF OnePlace
<1>12. \A d \in Clients, x \in AcquireTypes, a \in Addrs : Waiting(d, x, a)' <=> Waiting(d, x, a)
  BY <1>4, ClientSets DEF Waiting
<1>13. Asking'
  BY <1>2, <1>4, <1>6, <1>8, <1>12, ClientSets DEF Asking
<1> QED
  BY <1>5, <1>10, <1>13 DEF Tokens

(* A grant goes to the client that waits for it.                           *)
LEMMA TokenGrantSent ==
    ASSUME TokenContext, NEW t \in AcquireIds, NEW c \in Clients, NEW m \in GrantMsg(TrackerIds),
           client(t) = c, ~Idle(t), InOuter(t) \/ tracker[t].state # "s_busy",
           m.master_xact_id = t, requiresAckForGrant(m.g_type),
           GrantRoom(c), grant' = Send(grant, c, m),
           \A u \in AcquireIds : u # t => tracker'[u] = tracker[u],
           tracker'[t].init_client_id = tracker[t].init_client_id,
           tracker'[t].a_type = tracker[t].a_type, tracker'[t].addr = tracker[t].addr,
           tracker'[t].state = "s_busy",
           \A r : r \in outer' <=> r \in outer /\ r.id # t,
           UNCHANGED << acquire, grant_ack, ackq, htif, mshr >>
    PROVE  Tokens'
<1> USE DEF TokenContext, TokenInv
<1>1. grant \in [Clients -> Seq(GrantMsg(TrackerIds))]
  BY DEF TypeOK, ChannelsTypeOK
<1>2. grant[c] = << >>
  BY <1>1 DEF GrantRoom, GrantEntries
<1>3. /\ \A d \in Clients : d # c => grant'[d] = grant[d]
      /\ grant'[c] # << >> /\ Len(grant'[c]) = 1 /\ Head(grant'[c]) = m
  BY <1>1, <1>2, SendFirst
<1>4. Lengths'
  <2>1. Len(grant'[c]) <= 1 /\ \A d \in Clients : d # c => Len(grant'[d]) = Len(grant[d])
    BY <1>3
  <2> QED
    BY <2>1 DEF Lengths
<1>5. ~Consumed(t, c) /\ \A d \in Clients : ~GrantOf(t, d) /\ ~HeldBy(t, d) /\ ~Acked(t, d) /\ ~Consumed(t, d)
  BY ClientSets DEF OnePlace, BusyFor, Consumed
<1>6. /\ \A u \in TrackerIds, d \in Clients :
            /\ GrantOf(u, d)' <=> GrantOf(u, d) \/ (u = t /\ d = c)
            /\ HeldBy(u, d)' <=> HeldBy(u, d)
            /\ Acked(u, d)' <=> Acked(u, d)
            /\ Consumed(u, d)' <=> Consumed(u, d)
      /\ \A u \in TrackerIds : InOuter(u)' <=> InOuter(u) /\ u # t
  BY <1>2, <1>3 DEF InOuter, GrantOf, HeldBy, Acked, Consumed
<1>7. /\ \A u \in AcquireIds : (client(u))' = client(u) /\ (Idle(u)' <=> Idle(u))
      /\ \A u \in AcquireIds, d \in Clients : u # t => (BusyFor(u, d)' <=> BusyFor(u, d))
      /\ BusyFor(t, c)'
  BY DEF client, Idle, BusyFor
<1>8. OnePlace'
  <2>1. \A s, s2 \in outer' : s.id = s2.id => s = s2
    BY DEF OnePlace
  <2>2. \A u \in AcquireIds, d \in Clients : InOuter(u)' =>
          tracker'[u].state = "s_busy" /\ ~GrantOf(u, d)' /\ ~Consumed(u, d)'
    BY <1>6, ClientSets DEF OnePlace
  <2>3. \A u \in TrackerIds, d \in Clients :
          /\ GrantOf(u, d)' => BusyFor(u, d)' /\ ~Consumed(u, d)'
          /\ HeldBy(u, d)' => BusyFor(u, d)' /\ ~Acked(u, d)'
          /\ Acked(u, d)' => BusyFor(u, d)'
    BY <1>5, <1>6, <1>7, BusyIds DEF OnePlace
  <2>4. \A u \in AcquireIds : tracker'[u].state = "s_busy" =>
          InOuter(u)' \/ \E d \in Clients : GrantOf(u, d)' \/ Consumed(u, d)'
    BY <1>6, ClientSets DEF OnePlace
  <2> QED
    BY <2>1, <2>2, <2>3, <2>4 DEF OnePlace
<1>9. \A d \in Clients, x \in AcquireTypes, a \in Addrs : Waiting(d, x, a)' <=> Waiting(d, x, a)
  BY ClientSets DEF Waiting
<1>10. Asking'
  BY <1>6, <1>7, <1>9, ClientSets DEF Asking
<1> QED
  BY <1>4, <1>8, <1>10 DEF Tokens

(* The step that answers with data from memory: the token goes from the    *)
(* read to the grant.                                                      *)
LEMMA TokenForwardGrant ==
    ASSUME TokenContext, NEW t \in AcquireIds, ForwardGrant(t), UNCHANGED << dcvars, htif >>
    PROVE  Tokens'
<1> USE DEF TokenContext, TokenInv
<1>1. PICK r \in outer :
        /\ r.id = t
        /\ outer' = outer \ {r}
        /\ grant' = Send(grant, tracker[t].init_client_id,
                         [g_type |-> grant_type(t), master_xact_id |-> t, data |-> r.data])
  BY DEF ForwardGrant
<1>2. r.data \in Values /\ t \in TrackerIds /\ grant_type(t) \in GrantTypes /\ requiresAckForGrant(grant_type(t))
  BY TrackerFields, ClientSets DEF TypeOK, L2TypeOK
<1>3. PICK m \in GrantMsg(TrackerIds) : m = [g_type |-> grant_type(t), master_xact_id |-> t, data |-> r.data]
  BY <1>2 DEF GrantMsg
<1>4. PICK c \in Clients : c = client(t) /\ c = tracker[t].init_client_id
  BY TrackerFields DEF client
<1>5. grant' = Send(grant, c, m) /\ m.master_xact_id = t /\ requiresAckForGrant(m.g_type) /\ GrantRoom(c)
  BY <1>1, <1>2, <1>3, <1>4 DEF ForwardGrant
<1>6. \A s : s \in outer' <=> s \in outer /\ s.id # t
  BY <1>1 DEF OnePlace
<1>7. InOuter(t) /\ ~Idle(t)
  BY <1>1 DEF InOuter, ForwardGrant, Idle
<1>8. UNCHANGED << acquire, grant_ack, ackq, htif, mshr, tracker >> /\ tracker'[t].state = "s_busy"
  BY DEF ForwardGrant, dcvars
<1> QED
  BY <1>4, <1>5, <1>6, <1>7, <1>8, TokenGrantSent

(* The step that answers without data: the tracker makes the grant itself. *)
LEMMA TokenMakeGrant ==
    ASSUME TokenContext, NEW t \in AcquireIds, MakeGrant(t), UNCHANGED << dcvars, htif >>
    PROVE  Tokens'
<1> USE DEF TokenContext, TokenInv
<1>1. tracker \in [AcquireIds -> AcquireTracker]
  BY DEF TypeOK, L2TypeOK
<1>2. t \in TrackerIds /\ grant_type(t) \in GrantTypes /\ requiresAckForGrant(grant_type(t))
  BY TrackerFields, ClientSets
<1>3. PICK m \in GrantMsg(TrackerIds) : m = [g_type |-> grant_type(t), master_xact_id |-> t, data |-> SomeValue]
  BY <1>2, Constants DEF GrantMsg
<1>4. PICK c \in Clients : c = client(t) /\ c = tracker[t].init_client_id
  BY TrackerFields DEF client
<1>5. grant' = Send(grant, c, m) /\ m.master_xact_id = t /\ requiresAckForGrant(m.g_type) /\ GrantRoom(c)
  BY <1>2, <1>3, <1>4 DEF MakeGrant
<1>6. /\ \A u \in AcquireIds : u # t => tracker'[u] = tracker[u]
      /\ tracker'[t].init_client_id = tracker[t].init_client_id
      /\ tracker'[t].a_type = tracker[t].a_type /\ tracker'[t].addr = tracker[t].addr
      /\ tracker'[t].state = "s_busy" /\ tracker[t].state = "s_make_grant"
  BY <1>1, <1>2 DEF MakeGrant, AfterGrant, AcquireTracker
<1>7. UNCHANGED << acquire, grant_ack, ackq, htif, mshr, outer >>
  BY DEF MakeGrant, dcvars
<1>8. \A s : s \in outer' <=> s \in outer /\ s.id # t
  BY <1>6, <1>7 DEF OnePlace, InOuter
<1>9. ~Idle(t) /\ tracker[t].state # "s_busy"
  BY <1>6 DEF Idle
<1> QED
  BY <1>4, <1>5, <1>6, <1>7, <1>8, <1>9, TokenGrantSent

(* The acknowledgement ends the transaction it is of.                      *)
LEMMA TokenTakeGrantAck ==
    ASSUME TokenContext, NEW c \in Clients, TakeGrantAck(c), UNCHANGED << dcvars, htif >>
    PROVE  Tokens'
<1> USE DEF TokenContext, TokenInv
<1>1. grant_ack \in [Clients -> Seq(TrackerIds)] /\ tracker \in [AcquireIds -> AcquireTracker]
  BY DEF TypeOK, L2TypeOK, ChannelsTypeOK
<1>2. grant_ack[c] # << >> /\ grant_ack' = Receive(grant_ack, c)
  BY DEF TakeGrantAck
<1>3. /\ \A d \in Clients : d # c => grant_ack'[d] = grant_ack[d]
      /\ Len(grant_ack[c]) \in Nat /\ Len(grant_ack[c]) >= 1 /\ Len(grant_ack'[c]) = Len(grant_ack[c]) - 1
      /\ DOMAIN grant_ack[c] = 1 .. Len(grant_ack[c]) /\ DOMAIN grant_ack'[c] = 1 .. Len(grant_ack[c]) - 1
      /\ \A i \in DOMAIN grant_ack'[c] : i + 1 \in DOMAIN grant_ack[c] /\ grant_ack'[c][i] = grant_ack[c][i + 1]
      /\ 1 \in DOMAIN grant_ack[c] /\ Head(grant_ack[c]) = grant_ack[c][1]
  BY <1>1, <1>2, ReceiveEffect
<1>4. PICK t \in TrackerIds : t = grant_ack[c][1]
  <2>1. Head(grant_ack[c]) \in TrackerIds
    BY <1>1, <1>2, ReceiveType
  <2> QED
    BY <1>3, <2>1
<1>5. Acked(t, c) /\ BusyFor(t, c) /\ t \in AcquireIds
  BY <1>3, <1>4 DEF Acked, OnePlace, BusyFor
<1>6. /\ \A u \in AcquireIds : u # t => tracker'[u] = tracker[u]
      /\ tracker'[t].state = "s_idle"
  BY <1>3, <1>4, <1>5 DEF TakeGrantAck, BusyFor, IdleTracker
<1>7. UNCHANGED << acquire, grant, outer, ackq, htif, mshr >>
  BY DEF TakeGrantAck, dcvars
<1>8. Lengths'
  BY <1>7 DEF Lengths
<1>9. \A i, j \in DOMAIN grant_ack[c] : grant_ack[c][i] = grant_ack[c][j] => i = j
  BY DEF OnePlace
<1>10. \A u \in TrackerIds : Acked(u, c)' <=> Acked(u, c) /\ u # t
  <2>1. ASSUME NEW u \in TrackerIds, Acked(u, c)' PROVE Acked(u, c) /\ u # t
    <3>1. PICK i \in DOMAIN grant_ack'[c] : grant_ack'[c][i] = u
      BY <2>1 DEF Acked
    <3>2. i \in 1 .. Len(grant_ack[c]) - 1 /\ i + 1 \in DOMAIN grant_ack[c] /\ grant_ack[c][i + 1] = u /\ i + 1 # 1
      BY <1>3, <3>1
    <3> QED
      BY <1>3, <1>4, <1>9, <3>2 DEF Acked
  <2>2. ASSUME NEW u \in TrackerIds, Acked(u, c), u # t PROVE Acked(u, c)'
    <3>1. PICK i \in DOMAIN grant_ack[c] : grant_ack[c][i] = u
      BY <2>2 DEF Acked
    <3>2. i \in 1 .. Len(grant_ack[c]) /\ i # 1
      BY <1>3, <1>4, <2>2, <3>1
    <3>3. i - 1 \in DOMAIN grant_ack'[c] /\ (i - 1) + 1 = i
      BY <1>3, <3>2
    <3>4. grant_ack'[c][i - 1] = u
      BY <1>3, <3>1, <3>3
    <3> QED
      BY <3>3, <3>4 DEF Acked
  <2> QED
    BY <2>1, <2>2
<1>11. \A i, j \in DOMAIN grant_ack'[c] : grant_ack'[c][i] = grant_ack'[c][j] => i = j
  <2>1. ASSUME NEW i \in DOMAIN grant_ack'[c], NEW j \in DOMAIN grant_ack'[c], grant_ack'[c][i] = grant_ack'[c][j]
        PROVE  i = j
    <3>1. i \in Int /\ j \in Int /\ i + 1 \in DOMAIN grant_ack[c] /\ j + 1 \in DOMAIN grant_ack[c]
      BY <1>3
    <3>2. i + 1 = j + 1
      BY <1>3, <1>9, <2>1, <3>1, SMTT(20)
    <3> QED
      BY <3>1, <3>2
  <2> QED
    BY <2>1
<1>12. \A d \in Clients : d # c => ~Acked(t, d)
  BY <1>5, ClientSets DEF OnePlace, BusyFor
<1>13. \A d \in Clients : ~InOuter(t) /\ ~GrantOf(t, d) /\ ~HeldBy(t, d)
  BY <1>5, ClientSets DEF OnePlace, Consumed, BusyFor
<1>14. \A u \in TrackerIds, d \in Clients :
        /\ InOuter(u)' <=> InOuter(u)
        /\ GrantOf(u, d)' <=> GrantOf(u, d)
        /\ HeldBy(u, d)' <=> HeldBy(u, d)
        /\ Acked(u, d)' <=> Acked(u, d) /\ u # t
        /\ Consumed(u, d)' <=> Consumed(u, d) /\ u # t
  <2>1. \A u \in TrackerIds, d \in Clients :
          /\ InOuter(u)' <=> InOuter(u)
          /\ GrantOf(u, d)' <=> GrantOf(u, d)
          /\ HeldBy(u, d)' <=> HeldBy(u, d)
    BY <1>7 DEF InOuter, GrantOf, HeldBy
  <2>2. \A u \in TrackerIds, d \in Clients : d # c => (Acked(u, d)' <=> Acked(u, d))
    BY <1>3 DEF Acked
  <2> QED
    BY <1>10, <1>12, <1>13, <2>1, <2>2 DEF Consumed
<1>15. /\ \A u \in AcquireIds : u # t => (client(u))' = client(u) /\ (Idle(u)' <=> Idle(u))
       /\ \A u \in AcquireIds, d \in Clients : u # t => (BusyFor(u, d)' <=> BusyFor(u, d))
       /\ Idle(t)'
  BY <1>6 DEF client, Idle, BusyFor
<1>16. OnePlace'
  <2>1. \A s, s2 \in outer' : s.id = s2.id => s = s2
    BY <1>7 DEF OnePlace
  <2>2. \A u \in AcquireIds, d \in Clients : InOuter(u)' =>
          tracker'[u].state = "s_busy" /\ ~GrantOf(u, d)' /\ ~Consumed(u, d)'
    BY <1>6, <1>13, <1>14, ClientSets DEF OnePlace
  <2>3. \A u \in TrackerIds, d \in Clients :
          /\ GrantOf(u, d)' => BusyFor(u, d)' /\ ~Consumed(u, d)'
          /\ HeldBy(u, d)' => BusyFor(u, d)' /\ ~Acked(u, d)'
          /\ Acked(u, d)' => BusyFor(u, d)'
    BY <1>13, <1>14, <1>15, BusyIds DEF OnePlace
  <2>4. \A u \in AcquireIds : tracker'[u].state = "s_busy" =>
          InOuter(u)' \/ \E d \in Clients : GrantOf(u, d)' \/ Consumed(u, d)'
    BY <1>6, <1>14, ClientSets DEF OnePlace
  <2>5. \A d \in Clients : \A i, j \in DOMAIN grant_ack'[d] : grant_ack'[d][i] = grant_ack'[d][j] => i = j
    BY <1>3, <1>11 DEF OnePlace
  <2> QED
    BY <2>1, <2>2, <2>3, <2>4, <2>5 DEF OnePlace
<1>17. \A d \in Clients, x \in AcquireTypes, a \in Addrs : Waiting(d, x, a)' <=> Waiting(d, x, a)
  BY <1>7, ClientSets DEF Waiting
<1>18. Asking'
  BY <1>6, <1>7, <1>14, <1>15, <1>17, ClientSets DEF Asking
<1> QED
  BY <1>8, <1>16, <1>18 DEF Tokens

(* A client that waits for nothing may ask.                                *)
LEMMA TokenAcquireSent ==
    ASSUME TokenContext, NEW c \in Clients, NEW m \in AcquireMsg,
           acquire' = Send(acquire, c, m), UNCHANGED << grant, grant_ack, outer, tracker, ackq >>,
           \A x \in AcquireTypes, a \in Addrs : ~Waiting(c, x, a),
           Waiting(c, m.a_type, m.addr)',
           \A d \in Clients, x \in AcquireTypes, a \in Addrs : d # c => (Waiting(d, x, a)' <=> Waiting(d, x, a)),
           \A t \in TrackerIds, d \in Clients : HeldBy(t, d)' <=> HeldBy(t, d),
           \A d \in Tiles : /\ mshr'[d].state \in {"s_wb_resp", "s_refill_resp"} => ackq[d] = << >>
                            /\ mshr'[d].state # "s_invalid" => CachedType(mshr'[d].acquire_type)
    PROVE  Tokens'
<1> USE DEF TokenContext, TokenInv
<1>1. acquire \in [Clients -> Seq(AcquireMsg)]
  BY DEF TypeOK, ChannelsTypeOK
<1>2. acquire[c] = << >>
  <2>1. ASSUME acquire[c] # << >> PROVE FALSE
    <3>1. Head(acquire[c]) \in AcquireMsg
      BY <1>1, <2>1
    <3> QED
      BY <2>1, <3>1 DEF Asking, AcquireMsg
  <2> QED
    BY <2>1
<1>3. /\ \A d \in Clients : d # c => acquire'[d] = acquire[d]
      /\ acquire'[c] # << >> /\ Len(acquire'[c]) = 1 /\ Head(acquire'[c]) = m
  BY <1>1, <1>2, SendFirst
<1>4. Lengths'
  <2>1. Len(acquire'[c]) <= 1 /\ \A d \in Clients : d # c => Len(acquire'[d]) = Len(acquire[d])
    BY <1>3
  <2> QED
    BY <2>1 DEF Lengths
<1>5. \A u \in TrackerIds, d \in Clients :
        /\ InOuter(u)' <=> InOuter(u)
        /\ GrantOf(u, d)' <=> GrantOf(u, d)
        /\ Acked(u, d)' <=> Acked(u, d)
        /\ Consumed(u, d)' <=> Consumed(u, d)
        /\ BusyFor(u, d)' <=> BusyFor(u, d)
  BY DEF InOuter, GrantOf, Acked, Consumed, BusyFor, client
<1>6. \A u \in AcquireIds : (client(u))' = client(u) /\ (Idle(u)' <=> Idle(u))
  BY DEF client, Idle
<1>7. OnePlace'
  BY <1>5, <1>6, ClientSets DEF OnePlace
<1>8. \A t \in AcquireIds : ~Idle(t) /\ client(t) = c => Consumed(t, c)
  BY TrackerFields DEF Asking
<1>9. Asking'
  BY <1>3, <1>5, <1>6, <1>8, ClientSets DEF Asking
<1> QED
  BY <1>4, <1>7, <1>9 DEF Tokens

(* A client takes the grant that it waits for.                             *)
LEMMA TokenGrantTaken ==
    ASSUME TokenContext, NEW c \in Clients, NEW t \in TrackerIds, GrantOf(t, c),
           grant' = Receive(grant, c), UNCHANGED << acquire, grant_ack, outer, tracker >>,
           \A u \in TrackerIds, d \in Clients : HeldBy(u, d)' <=> HeldBy(u, d) \/ (u = t /\ d = c),
           \A d \in Clients, x \in AcquireTypes, a \in Addrs : d # c => (Waiting(d, x, a)' <=> Waiting(d, x, a)),
           \A d \in Tiles : /\ Len(ackq'[d]) <= 1
                            /\ mshr'[d].state \in {"s_wb_resp", "s_refill_resp"} => ackq'[d] = << >>
                            /\ mshr'[d].state # "s_invalid" => CachedType(mshr'[d].acquire_type)
    PROVE  Tokens'
<1> USE DEF TokenContext, TokenInv
<1>1. grant \in [Clients -> Seq(GrantMsg(TrackerIds))]
  BY DEF TypeOK, ChannelsTypeOK
<1>2. grant[c] # << >> /\ Len(grant[c]) <= 1
  BY DEF GrantOf, Lengths
<1>3. grant'[c] = << >> /\ \A d \in Clients : d # c => grant'[d] = grant[d]
  BY <1>1, <1>2, ReceiveOnly
<1>4. Lengths'
  <2>1. \A d \in Clients : Len(grant'[d]) <= 1
    BY <1>3 DEF Lengths
  <2> QED
    BY <2>1 DEF Lengths
<1>5. BusyFor(t, c) /\ t \in AcquireIds /\ ~Consumed(t, c) /\ ~Idle(t) /\ client(t) = c /\ ~InOuter(t)
  BY DEF OnePlace, BusyFor, Idle
<1>6. \A u \in TrackerIds, d \in Clients :
        /\ InOuter(u)' <=> InOuter(u)
        /\ GrantOf(u, d)' <=> GrantOf(u, d) /\ d # c
        /\ Acked(u, d)' <=> Acked(u, d)
        /\ Consumed(u, d)' <=> Consumed(u, d) \/ (u = t /\ d = c)
        /\ BusyFor(u, d)' <=> BusyFor(u, d)
  BY <1>3 DEF InOuter, GrantOf, Acked, Consumed, BusyFor, client
<1>7. \A u \in TrackerIds : GrantOf(u, c) => u = t
  BY DEF GrantOf
<1>8. \A u \in AcquireIds : (client(u))' = client(u) /\ (Idle(u)' <=> Idle(u))
  BY DEF client, Idle
<1>9. \A d \in Clients : d # c => ~GrantOf(t, d) /\ ~HeldBy(t, d) /\ ~Acked(t, d)
  BY <1>5, ClientSets DEF OnePlace, BusyFor
<1>10. ~HeldBy(t, c) /\ ~Acked(t, c)
  BY <1>5 DEF Consumed
<1>11. OnePlace'
  <2>1. \A u \in AcquireIds, d \in Clients : InOuter(u)' =>
          tracker'[u].state = "s_busy" /\ ~GrantOf(u, d)' /\ ~Consumed(u, d)'
    BY <1>5, <1>6, ClientSets DEF OnePlace
  <2>2. \A u \in TrackerIds, d \in Clients :
          /\ GrantOf(u, d)' => BusyFor(u, d)' /\ ~Consumed(u, d)'
          /\ HeldBy(u, d)' => BusyFor(u, d)' /\ ~Acked(u, d)'
          /\ Acked(u, d)' => BusyFor(u, d)'
    BY <1>5, <1>6, <1>10 DEF OnePlace
  <2>3. \A u \in AcquireIds : tracker'[u].state = "s_busy" =>
          InOuter(u)' \/ \E d \in Clients : GrantOf(u, d)' \/ Consumed(u, d)'
    BY <1>6, <1>7, ClientSets DEF OnePlace
  <2> QED
    BY <2>1, <2>2, <2>3 DEF OnePlace
<1>12. \A u \in AcquireIds : ~Idle(u) /\ client(u) = c /\ ~Consumed(u, c) => u = t
  <2>1. ASSUME NEW u \in AcquireIds, ~Idle(u), client(u) = c, ~Consumed(u, c) PROVE u = t
    <3>1. Waiting(c, tracker[u].a_type, tracker[u].addr) /\ Waiting(c, tracker[t].a_type, tracker[t].addr)
      BY <1>5, <2>1, TrackerFields DEF Asking
    <3>2. tracker[u].addr = tracker[t].addr
      BY <3>1 DEF Waiting
    <3> QED
      BY <1>5, <2>1, <3>2 DEF OneTransactionPerLine, isCoherenceConflict
  <2> QED
    BY <2>1
<1>13. acquire[c] = << >>
  BY <1>5 DEF Asking
<1>14. Asking'
  BY <1>6, <1>8, <1>12, <1>13, ClientSets DEF Asking
<1> QED
  BY <1>4, <1>11, <1>14 DEF Tokens

(* The acknowledgement leaves the client that held it.                     *)
LEMMA TokenAckSent ==
    ASSUME TokenContext, NEW c \in Clients, NEW t \in TrackerIds, HeldBy(t, c),
           grant_ack' = Send(grant_ack, c, t), UNCHANGED << acquire, grant, outer, tracker >>,
           \A u \in TrackerIds, d \in Clients : HeldBy(u, d)' <=> HeldBy(u, d) /\ d # c,
           \A u \in TrackerIds : HeldBy(u, c) => u = t,
           \A d \in Clients, x \in AcquireTypes, a \in Addrs : Waiting(d, x, a)' <=> Waiting(d, x, a),
           \A d \in Tiles : /\ Len(ackq'[d]) <= 1
                            /\ mshr'[d].state \in {"s_wb_resp", "s_refill_resp"} => ackq'[d] = << >>
                            /\ mshr'[d].state # "s_invalid" => CachedType(mshr'[d].acquire_type)
    PROVE  Tokens'
<1> USE DEF TokenContext, TokenInv
<1>1. grant_ack \in [Clients -> Seq(TrackerIds)]
  BY DEF TypeOK, ChannelsTypeOK
<1>2. /\ \A d \in Clients : d # c => grant_ack'[d] = grant_ack[d]
      /\ Len(grant_ack[c]) \in Nat
      /\ DOMAIN grant_ack[c] = 1 .. Len(grant_ack[c]) /\ DOMAIN grant_ack'[c] = 1 .. Len(grant_ack[c]) + 1
      /\ \A i \in DOMAIN grant_ack[c] : grant_ack'[c][i] = grant_ack[c][i]
      /\ grant_ack'[c][Len(grant_ack[c]) + 1] = t
  BY <1>1, SendEffect
<1>3. Lengths'
  BY DEF Lengths
<1>4. BusyFor(t, c) /\ t \in AcquireIds /\ ~Acked(t, c)
  BY DEF OnePlace, BusyFor
<1>5. \A u \in TrackerIds, d \in Clients : Acked(u, d)' <=> Acked(u, d) \/ (u = t /\ d = c)
  <2>1. \A u \in TrackerIds, d \in Clients : d # c => (Acked(u, d)' <=> Acked(u, d))
    BY <1>2 DEF Acked
  <2>2. \A i : i \in DOMAIN grant_ack'[c] <=> i \in DOMAIN grant_ack[c] \/ i = Len(grant_ack[c]) + 1
    BY <1>2
  <2>3. \A u \in TrackerIds : Acked(u, c)' <=> Acked(u, c) \/ u = t
    BY <1>2, <2>2 DEF Acked
  <2> QED
    BY <2>1, <2>3
<1>6. \A u \in TrackerIds, d \in Clients :
        /\ InOuter(u)' <=> InOuter(u)
        /\ GrantOf(u, d)' <=> GrantOf(u, d)
        /\ Consumed(u, d)' <=> Consumed(u, d)
        /\ BusyFor(u, d)' <=> BusyFor(u, d)
  BY <1>5 DEF InOuter, GrantOf, Consumed, BusyFor, client
<1>7. \A u \in AcquireIds : (client(u))' = client(u) /\ (Idle(u)' <=> Idle(u))
  BY DEF client, Idle
<1>8. OnePlace'
  <2>1. \A i \in DOMAIN grant_ack[c] : grant_ack[c][i] # t
    BY <1>4 DEF Acked
  <2>2. \A i, j \in DOMAIN grant_ack'[c] : grant_ack'[c][i] = grant_ack'[c][j] => i = j
    <3>1. \A i : i \in DOMAIN grant_ack'[c] <=> i \in DOMAIN grant_ack[c] \/ i = Len(grant_ack[c]) + 1
      BY <1>2
    <3>2. \A i, j \in DOMAIN grant_ack[c] : grant_ack[c][i] = grant_ack[c][j] => i = j
      BY DEF OnePlace
    <3> QED
      BY <1>2, <2>1, <3>1, <3>2
  <2>3. \A d \in Clients : \A i, j \in DOMAIN grant_ack'[d] : grant_ack'[d][i] = grant_ack'[d][j] => i = j
    BY <1>2, <2>2 DEF OnePlace
  <2>4. \A u \in TrackerIds, d \in Clients :
          /\ GrantOf(u, d)' => BusyFor(u, d)' /\ ~Consumed(u, d)'
          /\ HeldBy(u, d)' => BusyFor(u, d)' /\ ~Acked(u, d)'
          /\ Acked(u, d)' => BusyFor(u, d)'
    BY <1>4, <1>5, <1>6 DEF OnePlace
  <2> QED
    BY <1>6, <2>3, <2>4, ClientSets DEF OnePlace
<1>9. Asking'
  BY <1>6, <1>7, ClientSets DEF Asking
<1> QED
  BY <1>3, <1>8, <1>9 DEF Tokens

(* The request of an MSHR.                                                 *)
LEMMA TokenMshrRefillReq ==
    ASSUME TokenContext, NEW c \in Tiles, MshrRefillReq(c), UNCHANGED << l2vars, htif >>
    PROVE  Tokens'
<1> USE DEF TokenContext, TokenInv
<1>1. mshr \in [Tiles -> MSHR] /\ c \in Clients /\ c # HTIF
  BY ClientSets DEF TypeOK, DCacheTypeOK
<1>2. PICK m \in AcquireMsg : m = [a_type |-> mshr[c].acquire_type, addr |-> mshr[c].addr, data |-> AValue]
  BY <1>1, Constants DEF AcquireMsg, MSHR
<1>3. acquire' = Send(acquire, c, m) /\ UNCHANGED << grant, grant_ack, outer, tracker, ackq, htif >>
  BY <1>2 DEF MshrRefillReq, l2vars
<1>4. /\ mshr[c].state = "s_refill_req" /\ ackq[c] = << >>
      /\ mshr'[c].state = "s_refill_resp" /\ mshr'[c].acquire_type = m.a_type /\ mshr'[c].addr = m.addr
      /\ mshr'[c].acquire_type = mshr[c].acquire_type
      /\ \A d \in Tiles : d # c => mshr'[d] = mshr[d]
  BY <1>1, <1>2 DEF MshrRefillReq, MSHR
<1>5. \A x \in AcquireTypes, a \in Addrs : ~Waiting(c, x, a)
  BY <1>1, <1>4 DEF Waiting
<1>6. Waiting(c, m.a_type, m.addr)'
  BY <1>1, <1>4 DEF Waiting
<1>7. \A d \in Clients, x \in AcquireTypes, a \in Addrs : d # c => (Waiting(d, x, a)' <=> Waiting(d, x, a))
  BY <1>3, <1>4, ClientSets DEF Waiting
<1>8. \A t \in TrackerIds, d \in Clients : HeldBy(t, d)' <=> HeldBy(t, d)
  BY <1>3 DEF HeldBy
<1>9. \A d \in Tiles : /\ mshr'[d].state \in {"s_wb_resp", "s_refill_resp"} => ackq[d] = << >>
                       /\ mshr'[d].state # "s_invalid" => CachedType(mshr'[d].acquire_type)
  BY <1>4 DEF Lengths, Asking
<1> QED
  BY <1>1, <1>3, <1>5, <1>6, <1>7, <1>8, <1>9, TokenAcquireSent

(* The request of the host interface.                                      *)
LEMMA TokenHtifRequest ==
    ASSUME TokenContext, HostRequest, UNCHANGED << l2vars, dcvars >>
    PROVE  Tokens'
<1> USE DEF TokenContext, TokenInv
<1>1. PICK x \in HostAcquires, a \in Addrs : \E v \in IF acquireHasData(x) THEN Values ELSE {AValue} : HtifRequest(x, a, v)
  BY DEF HostRequest
<1>2. PICK v \in IF acquireHasData(x) THEN Values ELSE {AValue} : HtifRequest(x, a, v)
  BY <1>1
<1>3. v \in Values /\ x \in AcquireTypes /\ messageIsUncached(x)
  BY Constants, SystemAssumption DEF AcquireTypes, messageIsUncached
<1>4. PICK m \in AcquireMsg : m = [a_type |-> x, addr |-> a, data |-> v]
  BY <1>3 DEF AcquireMsg
<1>5. /\ acquire' = Send(acquire, HTIF, m) /\ UNCHANGED << grant, grant_ack, outer, tracker, ackq, mshr >>
      /\ htif.state = "state_rx" /\ htif'.state = "state_mem_resp" /\ htif'.a_type = m.a_type /\ htif'.addr = m.addr
      /\ messageIsUncached(m.a_type)
  BY <1>2, <1>3, <1>4 DEF HtifRequest, IdleHtif, l2vars, dcvars
<1>6. \A y \in AcquireTypes, b \in Addrs : ~Waiting(HTIF, y, b)
  BY <1>5 DEF Waiting
<1>7. Waiting(HTIF, m.a_type, m.addr)'
  BY <1>5 DEF Waiting
<1>8. \A d \in Clients, y \in AcquireTypes, b \in Addrs : d # HTIF => (Waiting(d, y, b)' <=> Waiting(d, y, b))
  BY <1>5 DEF Waiting
<1>9. \A t \in TrackerIds, d \in Clients : HeldBy(t, d)' <=> HeldBy(t, d)
  BY <1>5 DEF HeldBy
<1>10. \A d \in Tiles : /\ mshr'[d].state \in {"s_wb_resp", "s_refill_resp"} => ackq[d] = << >>
                        /\ mshr'[d].state # "s_invalid" => CachedType(mshr'[d].acquire_type)
  BY <1>5 DEF Lengths, Asking
<1> QED
  BY <1>5, <1>6, <1>7, <1>8, <1>9, <1>10, TokenAcquireSent, ClientSets

(* What a client takes from its grant queue while it waits for a grant is  *)
(* the grant.                                                              *)
LEMMA TokenHead ==
    ASSUME TypeOK, Evictions, NEW c \in Clients, grant[c] # << >>, c # HTIF => mshr[c].state # "s_wb_resp"
    PROVE  /\ Head(grant[c]).master_xact_id \in TrackerIds
           /\ GrantOf(Head(grant[c]).master_xact_id, c)
<1>1. Head(grant[c]) \in GrantMsg(TrackerIds)
  BY DEF TypeOK, ChannelsTypeOK
<1>2. ~EvictAck(c)
  BY ClientSets DEF Evictions
<1> QED
  BY <1>1, <1>2 DEF GrantMsg, GrantOf, EvictAck

(* An MSHR takes its grant and queues the acknowledgement.                 *)
LEMMA TokenMshrRefill ==
    ASSUME TokenContext, NEW c \in Tiles, MshrRefill(c), UNCHANGED << l2vars, htif >>
    PROVE  Tokens'
<1> USE DEF TokenContext, TokenInv
<1>1. mshr \in [Tiles -> MSHR] /\ ackq \in [Tiles -> Seq(TrackerIds)] /\ c \in Clients /\ c # HTIF
  BY ClientSets DEF TypeOK, DCacheTypeOK
<1>2. mshr[c].state = "s_refill_resp" /\ grant[c] # << >> /\ grant' = Receive(grant, c)
  BY DEF MshrRefill
<1>3. PICK t \in TrackerIds : t = Head(grant[c]).master_xact_id /\ GrantOf(t, c)
  BY <1>1, <1>2, TokenHead
<1>4. requiresAckForGrant(Head(grant[c]).g_type)
  BY <1>3 DEF GrantOf
<1>5. ackq[c] = << >>
  BY <1>2 DEF Lengths
<1>6. ackq' = [ackq EXCEPT ![c] = Append(@, t)]
  BY <1>3, <1>4 DEF MshrRefill
<1>7. ackq'[c] # << >> /\ Len(ackq'[c]) = 1 /\ Head(ackq'[c]) = t /\ \A d \in Tiles : d # c => ackq'[d] = ackq[d]
  BY <1>1, <1>5, <1>6, SendFirst DEF Send
<1>8. /\ mshr'[c].state = "s_meta_write_req" /\ mshr'[c].acquire_type = mshr[c].acquire_type
      /\ \A d \in Tiles : d # c => mshr'[d] = mshr[d]
  BY <1>1 DEF MshrRefill, MSHR
<1>9. UNCHANGED << acquire, grant_ack, outer, tracker, htif >>
  BY DEF MshrRefill, l2vars
<1>10. \A u \in TrackerIds, d \in Clients : HeldBy(u, d)' <=> HeldBy(u, d) \/ (u = t /\ d = c)
  BY <1>1, <1>5, <1>7, <1>9 DEF HeldBy
<1>11. \A d \in Clients, x \in AcquireTypes, a \in Addrs : d # c => (Waiting(d, x, a)' <=> Waiting(d, x, a))
  BY <1>8, <1>9, ClientSets DEF Waiting
<1>12. \A d \in Tiles : /\ mshr'[d].state \in {"s_wb_resp", "s_refill_resp"} => ackq'[d] = << >>
                        /\ mshr'[d].state # "s_invalid" => CachedType(mshr'[d].acquire_type)
  BY <1>2, <1>7, <1>8 DEF Lengths, Asking
<1>13. \A d \in Tiles : Len(ackq'[d]) <= 1
  <2>1. Len(ackq'[c]) <= 1 /\ \A d \in Tiles : d # c => Len(ackq'[d]) = Len(ackq[d])
    BY <1>7
  <2> QED
    BY <2>1 DEF Lengths
<1> QED
  BY <1>1, <1>2, <1>3, <1>9, <1>10, <1>11, <1>12, <1>13, TokenGrantTaken

(* The host interface takes its grant.                                     *)
LEMMA TokenHtifGrant ==
    ASSUME TokenContext, HtifGrant, UNCHANGED << l2vars, dcvars >>
    PROVE  Tokens'
<1> USE DEF TokenContext, TokenInv
<1>1. htif.state = "state_mem_resp" /\ grant[HTIF] # << >> /\ grant' = Receive(grant, HTIF)
  BY DEF HtifGrant
<1>2. PICK t \in TrackerIds : t = Head(grant[HTIF]).master_xact_id /\ GrantOf(t, HTIF)
  BY <1>1, TokenHead, ClientSets
<1>3. htif'.state = "state_mem_finish" /\ htif'.mem_gxid = t
  BY <1>2 DEF HtifGrant, TypeOK, HtifTypeOK
<1>4. UNCHANGED << acquire, grant_ack, outer, tracker, ackq, mshr >>
  BY DEF HtifGrant, l2vars, dcvars
<1>5. \A u \in TrackerIds, d \in Clients : HeldBy(u, d)' <=> HeldBy(u, d) \/ (u = t /\ d = HTIF)
  BY <1>1, <1>3, <1>4, ClientSets DEF HeldBy
<1>6. \A d \in Clients, x \in AcquireTypes, a \in Addrs : d # HTIF => (Waiting(d, x, a)' <=> Waiting(d, x, a))
  BY <1>4 DEF Waiting
<1>7. \A d \in Tiles : /\ Len(ackq'[d]) <= 1
                       /\ mshr'[d].state \in {"s_wb_resp", "s_refill_resp"} => ackq'[d] = << >>
                       /\ mshr'[d].state # "s_invalid" => CachedType(mshr'[d].acquire_type)
  BY <1>4 DEF Lengths, Asking
<1> QED
  BY <1>1, <1>2, <1>4, <1>5, <1>6, <1>7, TokenGrantTaken, ClientSets

(* An MSHR sends its acknowledgement.                                      *)
LEMMA TokenMshrFinish ==
    ASSUME TokenContext, NEW c \in Tiles, MshrFinish(c), UNCHANGED << l2vars, htif >>
    PROVE  Tokens'
<1> USE DEF TokenContext, TokenInv
<1>1. ackq \in [Tiles -> Seq(TrackerIds)] /\ c \in Clients /\ c # HTIF
  BY ClientSets DEF TypeOK, DCacheTypeOK
<1>2. ackq[c] # << >> /\ Len(ackq[c]) <= 1 /\ ackq' = Receive(ackq, c)
  BY DEF MshrFinish, Lengths
<1>3. PICK t \in TrackerIds : t = Head(ackq[c])
  BY <1>1, <1>2
<1>4. ackq'[c] = << >> /\ \A d \in Tiles : d # c => ackq'[d] = ackq[d]
  BY <1>1, <1>2, ReceiveOnly
<1>5. grant_ack' = Send(grant_ack, c, t) /\ UNCHANGED << acquire, grant, outer, tracker, mshr, htif >>
  BY <1>3 DEF MshrFinish, l2vars
<1>6. HeldBy(t, c) /\ \A u \in TrackerIds : HeldBy(u, c) => u = t
  BY <1>1, <1>2, <1>3 DEF HeldBy
<1>7. \A u \in TrackerIds, d \in Clients : HeldBy(u, d)' <=> HeldBy(u, d) /\ d # c
  BY <1>1, <1>4, <1>5 DEF HeldBy
<1>8. \A d \in Clients, x \in AcquireTypes, a \in Addrs : Waiting(d, x, a)' <=> Waiting(d, x, a)
  BY <1>5 DEF Waiting
<1>9. Len(<< >>) <= 1
  OBVIOUS
<1>10. \A d \in Tiles : /\ Len(ackq'[d]) <= 1
                        /\ mshr'[d].state \in {"s_wb_resp", "s_refill_resp"} => ackq'[d] = << >>
                        /\ mshr'[d].state # "s_invalid" => CachedType(mshr'[d].acquire_type)
  BY <1>4, <1>5, <1>9 DEF Lengths, Asking
<1> QED
  BY <1>1, <1>5, <1>6, <1>7, <1>8, <1>10, TokenAckSent

(* The host interface sends its acknowledgement.                           *)
LEMMA TokenHtifFinish ==
    ASSUME TokenContext, HtifFinish, UNCHANGED << l2vars, dcvars >>
    PROVE  Tokens'
<1> USE DEF TokenContext, TokenInv
<1>1. PICK t \in TrackerIds : t = htif.mem_gxid
  BY DEF TypeOK, HtifTypeOK
<1>2. /\ htif.state = "state_mem_finish" /\ htif'.state = "state_rx"
      /\ grant_ack' = Send(grant_ack, HTIF, t) /\ UNCHANGED << acquire, grant, outer, tracker, mshr, ackq >>
  BY <1>1 DEF HtifFinish, l2vars, dcvars, IdleHtif
<1>3. HeldBy(t, HTIF) /\ \A u \in TrackerIds : HeldBy(u, HTIF) => u = t
  BY <1>1, <1>2, ClientSets DEF HeldBy
<1>4. \A u \in TrackerIds, d \in Clients : HeldBy(u, d)' <=> HeldBy(u, d) /\ d # HTIF
  BY <1>2, ClientSets DEF HeldBy
<1>5. \A d \in Clients, x \in AcquireTypes, a \in Addrs : Waiting(d, x, a)' <=> Waiting(d, x, a)
  BY <1>2 DEF Waiting
<1>6. \A d \in Tiles : /\ Len(ackq'[d]) <= 1
                       /\ mshr'[d].state \in {"s_wb_resp", "s_refill_resp"} => ackq'[d] = << >>
                       /\ mshr'[d].state # "s_invalid" => CachedType(mshr'[d].acquire_type)
  BY <1>2 DEF Lengths, Asking
<1> QED
  BY <1>2, <1>3, <1>4, <1>5, <1>6, TokenAckSent, ClientSets

(* The only grant a tile meets while it evicts is the acknowledgement of   *)
(* the eviction.                                                           *)
LEMMA EvictionGrant ==
    ASSUME TokenContext, NEW c \in Tiles, mshr[c].state = "s_wb_resp", grant[c] # << >>
    PROVE  EvictAck(c) /\ \A t \in TrackerIds : ~GrantOf(t, c)
<1> USE DEF TokenContext, TokenInv
<1>1. ASSUME NEW t \in TrackerIds, GrantOf(t, c) PROVE FALSE
  <2>1. t \in AcquireIds /\ ~Idle(t) /\ client(t) = c /\ ~Consumed(t, c) /\ c \in Clients /\ c # HTIF
    BY <1>1, ClientSets DEF OnePlace, BusyFor, Idle
  <2>2. Waiting(c, tracker[t].a_type, tracker[t].addr)
    BY <2>1, TrackerFields DEF Asking
  <2> QED
    BY <2>1, <2>2 DEF Waiting
<1>2. Head(grant[c]) \in GrantMsg(TrackerIds)
  BY ClientSets DEF TypeOK, ChannelsTypeOK
<1> QED
  BY <1>1, <1>2 DEF GrantMsg, GrantOf, EvictAck

(* The acknowledgement of an eviction frees the MSHR: it is a grant that   *)
(* nobody acknowledges.                                                    *)
LEMMA TokenMshrWbResp ==
    ASSUME TokenContext, NEW c \in Tiles, MshrWbResp(c), UNCHANGED << l2vars, htif >>
    PROVE  Tokens'
<1> USE DEF TokenContext, TokenInv
<1>1. /\ mshr \in [Tiles -> MSHR] /\ grant \in [Clients -> Seq(GrantMsg(TrackerIds))] /\ c \in Clients /\ c # HTIF
  BY ClientSets DEF TypeOK, DCacheTypeOK, ChannelsTypeOK
<1>2. mshr[c].state = "s_wb_resp" /\ grant[c] # << >> /\ grant' = Receive(grant, c) /\ Len(grant[c]) <= 1
  BY <1>1 DEF MshrWbResp, Lengths
<1>3. EvictAck(c) /\ \A t \in TrackerIds : ~GrantOf(t, c)
  BY <1>2, EvictionGrant
<1>4. UNCHANGED << acquire, grant_ack, outer, tracker, htif, ackq >>
  BY <1>3 DEF MshrWbResp, l2vars, EvictAck
<1>5. grant'[c] = << >> /\ \A d \in Clients : d # c => grant'[d] = grant[d]
  BY <1>1, <1>2, ReceiveOnly
<1>6. /\ mshr'[c].state = "s_meta_clear" /\ mshr'[c].acquire_type = mshr[c].acquire_type
      /\ \A d \in Tiles : d # c => mshr'[d] = mshr[d]
  BY <1>1 DEF MshrWbResp, MSHR
<1>7. Lengths'
  <2>1. \A d \in Clients : Len(grant'[d]) <= 1
    BY <1>5 DEF Lengths
  <2>2. \A d \in Tiles : mshr'[d].state \in {"s_wb_resp", "s_refill_resp"} => ackq'[d] = << >>
    BY <1>4, <1>6 DEF Lengths
  <2> QED
    BY <1>4, <2>1, <2>2 DEF Lengths
<1>8. \A u \in TrackerIds, d \in Clients :
        /\ InOuter(u)' <=> InOuter(u)
        /\ GrantOf(u, d)' <=> GrantOf(u, d)
        /\ HeldBy(u, d)' <=> HeldBy(u, d)
        /\ Acked(u, d)' <=> Acked(u, d)
        /\ Consumed(u, d)' <=> Consumed(u, d)
        /\ BusyFor(u, d)' <=> BusyFor(u, d)
  BY <1>3, <1>4, <1>5 DEF InOuter, GrantOf, HeldBy, Acked, Consumed, BusyFor, client
<1>9. \A u \in AcquireIds : (client(u))' = client(u) /\ (Idle(u)' <=> Idle(u))
  BY <1>4 DEF client, Idle
<1>10. OnePlace'
  BY <1>4, <1>8, <1>9, ClientSets DEF OnePlace
<1>11. \A d \in Clients, x \in AcquireTypes, a \in Addrs : Waiting(d, x, a)' <=> Waiting(d, x, a)
  BY <1>1, <1>2, <1>4, <1>6, ClientSets DEF Waiting
<1>12. \A d \in Tiles : mshr'[d].state # "s_invalid" => CachedType(mshr'[d].acquire_type)
  BY <1>2, <1>6 DEF Asking
<1>13. Asking'
  BY <1>4, <1>8, <1>9, <1>11, <1>12, ClientSets DEF Asking
<1> QED
  BY <1>7, <1>10, <1>13 DEF Tokens

(* The answer to a probe changes the tracker it is for.                    *)
LEMMA TakeProbeReleaseEffect ==
    ASSUME TypeOK, NEW c \in Clients, TakeProbeRelease(c), NEW u \in AcquireIds
    PROVE  /\ u # Head(release[c]).master_xact_id => tracker'[u] = tracker[u]
           /\ tracker'[u].init_client_id = tracker[u].init_client_id
           /\ tracker'[u].a_type = tracker[u].a_type /\ tracker'[u].addr = tracker[u].addr
           /\ tracker'[u].probe_flags = tracker[u].probe_flags
           /\ tracker'[u].init_sharer_cnt = tracker[u].init_sharer_cnt
           /\ tracker'[u].data = tracker[u].data
           /\ u = Head(release[c]).master_xact_id =>
                /\ tracker[u].state = "s_probe"
                /\ tracker'[u].state = IF tracker[u].release_count = 1 THEN AfterProbes(tracker[u].a_type) ELSE "s_probe"
                /\ tracker'[u].release_count = (tracker[u].release_count + CountRange - 1) % CountRange
           /\ tracker'[u].state = "s_idle" <=> tracker[u].state = "s_idle"
           /\ tracker'[u].state = "s_busy" <=> tracker[u].state = "s_busy"
<1>1. tracker \in [AcquireIds -> AcquireTracker]
  BY DEF TypeOK, L2TypeOK
<1> DEFINE t == Head(release[c]).master_xact_id
<1>2. /\ tracker[t].state = "s_probe"
      /\ tracker' = [tracker EXCEPT
           ![t].release_count = (@ + CountRange - 1) % CountRange,
           ![t].state = IF tracker[t].release_count = 1 THEN AfterProbes(tracker[t].a_type) ELSE @]
  BY SMTT(20) DEF TakeProbeRelease
<1> HIDE DEF t
<1>3. CASE u = t
  BY <1>1, <1>2, <1>3, ZenonT(30) DEF AcquireTracker, AfterProbes, t
<1>4. CASE u # t
  BY <1>1, <1>2, <1>4 DEF t
<1> QED
  BY <1>3, <1>4

(* The other steps of the agent move no token.                             *)
LEMMA TokenL2Frame ==
    ASSUME TokenContext, UNCHANGED << dcvars, htif >>,
           \/ \E c \in Clients : TakeRelease(c)
           \/ \E t \in AcquireIds : SendProbe(t) \/ MemWrite(t)
           \/ VoluntaryWrite
    PROVE  Tokens'
<1> USE DEF TokenContext, TokenInv
<1>1. tracker \in [AcquireIds -> AcquireTracker]
  BY SMTT(20) DEF TypeOK, L2TypeOK
<1>2. UNCHANGED << acquire, grant, grant_ack, outer >>
  BY DEF TakeRelease, TakeProbeRelease, TakeVoluntaryRelease, SendProbe, MemWrite, VoluntaryWrite, channels
<1>3. \A u \in AcquireIds :
        /\ tracker'[u].init_client_id = tracker[u].init_client_id
        /\ tracker'[u].a_type = tracker[u].a_type /\ tracker'[u].addr = tracker[u].addr
        /\ tracker'[u].state = "s_idle" <=> tracker[u].state = "s_idle"
        /\ tracker'[u].state = "s_busy" <=> tracker[u].state = "s_busy"
  <2>1. CASE \E c \in Clients : TakeProbeRelease(c)
    BY <2>1, TakeProbeReleaseEffect
  <2>2. CASE UNCHANGED tracker
    BY <2>2
  <2>3. CASE \E t \in AcquireIds : SendProbe(t)
    BY <1>1, <2>3 DEF SendProbe, AcquireTracker
  <2>4. CASE \E t \in AcquireIds : MemWrite(t)
    BY <1>1, <2>4 DEF MemWrite, AcquireTracker
  <2>5. ASSUME NEW c \in Clients, TakeVoluntaryRelease(c) \/ VoluntaryWrite PROVE UNCHANGED tracker
    BY <2>5 DEF TakeVoluntaryRelease, VoluntaryWrite
  <2> QED
    BY <2>1, <2>2, <2>3, <2>4, <2>5, Constants DEF TakeRelease
<1>4. UNCHANGED << ackq, htif, mshr >>
  BY DEF dcvars
<1>5. \A c \in Tiles :
        /\ mshr'[c].state = "s_refill_resp" <=> mshr[c].state = "s_refill_resp"
        /\ mshr[c].state = "s_refill_resp" =>
              mshr'[c].acquire_type = mshr[c].acquire_type /\ mshr'[c].addr = mshr[c].addr
        /\ mshr'[c].state = "s_wb_resp" => ackq[c] = << >>
        /\ mshr'[c].state # "s_invalid" => CachedType(mshr'[c].acquire_type)
  BY <1>4 DEF Lengths, Asking
<1> QED
  BY <1>2, <1>3, <1>4, <1>5, TokensFrame DEF Tokens

(* Nor do the other steps of a tile.                                       *)
LEMMA TokenTileFrame ==
    ASSUME TokenContext, NEW c \in Tiles, UNCHANGED << l2vars, htif >>,
           \/ CoreRequest(c) \/ MshrWbReq(c) \/ MshrMetaClear(c) \/ MshrMetaWrite(c) \/ MshrReplay(c) \/ MshrDrained(c)
           \/ WbStep(c) \/ ProbeStep(c) \/ LrscExpire(c)
    PROVE  Tokens'
<1> USE DEF TokenContext, TokenInv
<1>1. mshr \in [Tiles -> MSHR]
  BY DEF TypeOK, DCacheTypeOK
<1>2. UNCHANGED << acquire, grant, grant_ack, ackq, outer, tracker, htif >>
  <2>1. UNCHANGED << outer, tracker, htif >>
    BY DEF l2vars
  <2>2. ASSUME NEW cmd, NEW a, NEW v, CpuHit(c, cmd, a, v) \/ PrimaryMiss(c, cmd, a, v) \/ SecondaryMiss(c, cmd, a, v)
        PROVE  UNCHANGED << acquire, grant, grant_ack, ackq >>
    BY <2>2 DEF CpuHit, PrimaryMiss, SecondaryMiss, channels
  <2>3. CASE CoreRequest(c)
    BY <2>1, <2>2, <2>3 DEF CoreRequest
  <2>4. CASE MshrWbReq(c) \/ MshrMetaClear(c) \/ MshrMetaWrite(c) \/ MshrReplay(c) \/ MshrDrained(c) \/ LrscExpire(c)
    BY <2>1, <2>4 DEF MshrWbReq, MshrMetaClear, MshrMetaWrite, MshrReplay, MshrDrained, LrscExpire, channels
  <2>5. CASE WbStep(c) \/ ProbeStep(c)
    BY <2>1, <2>5 DEF WbStep, WbRead, WbRelease, ProbeStep, ProbeAccept, ProbeLookup, ProbeRelease, ProbeWbReq,
                      ProbeWbResp, ProbeMetaWrite, channels
  <2> QED
    BY <2>3, <2>4, <2>5
<1> DEFINE Kept(m) == /\ m.state = "s_refill_resp" <=> mshr[c].state = "s_refill_resp"
                      /\ mshr[c].state = "s_refill_resp" =>
                            m.acquire_type = mshr[c].acquire_type /\ m.addr = mshr[c].addr
                      /\ m.state = "s_wb_resp" => ackq[c] = << >>
                      /\ m.state # "s_invalid" => CachedType(m.acquire_type)
<1>3. (\A d \in Tiles : d # c => mshr'[d] = mshr[d]) /\ Kept(mshr'[c])
  <2>0. Kept(mshr[c])
    BY DEF Lengths, Asking
  <2>1. ASSUME NEW cmd \in Cmds, NEW a, NEW v, PrimaryMiss(c, cmd, a, v) PROVE <1>3
    <3>1. /\ mshr'[c].state \in {"s_meta_write_req", "s_refill_req", "s_wb_req", "s_meta_clear"}
          /\ mshr'[c].acquire_type = co.acquireOnMiss[cmd] /\ mshr[c].state = "s_invalid"
          /\ \A d \in Tiles : d # c => mshr'[d] = mshr[d]
      BY <1>1, <2>1 DEF PrimaryMiss, MshrFree
    <3> QED
      BY <3>1 DEF CachedType
  <2>2. ASSUME NEW cmd \in Cmds, NEW a, NEW v, SecondaryMiss(c, cmd, a, v) PROVE <1>3
    <3>1. /\ mshr'[c].state = mshr[c].state /\ mshr[c].state # "s_invalid" /\ mshr'[c].addr = mshr[c].addr
          /\ mshr'[c].acquire_type = co.acquireOnSecondary[cmd][mshr[c].acquire_type]
          /\ mshr[c].state = "s_refill_resp" => ~co.needsTransactionOnSecondaryMiss[cmd][mshr[c].acquire_type]
          /\ \A d \in Tiles : d # c => mshr'[d] = mshr[d]
      BY <1>1, <2>2 DEF SecondaryMiss, sec_rdy, MSHR
    <3>2. CachedType(mshr[c].acquire_type)
      BY <3>1 DEF Asking
    <3>3. CachedType(mshr'[c].acquire_type) /\ (mshr[c].state = "s_refill_resp" => mshr'[c].acquire_type = mshr[c].acquire_type)
      BY <3>1, <3>2, PolicyMessages
    <3> QED
      BY <2>0, <3>1, <3>3
  <2>3. CASE MshrWbReq(c) \/ MshrMetaClear(c) \/ MshrMetaWrite(c) \/ MshrReplay(c) \/ MshrDrained(c)
    <3>1. /\ \A d \in Tiles : d # c => mshr'[d] = mshr[d]
          /\ mshr[c].state \in {"s_wb_req", "s_meta_clear", "s_meta_write_req", "s_drain_rpq"}
          /\ mshr'[c].state \in {"s_wb_resp", "s_refill_req", "s_drain_rpq", "s_invalid"}
          /\ mshr'[c].state = "s_wb_resp" => ackq[c] = << >>
          /\ mshr'[c].state # "s_invalid" => mshr'[c].acquire_type = mshr[c].acquire_type
      BY <1>1, <2>3 DEF MshrWbReq, MshrMetaClear, MshrMetaWrite, MshrReplay, MshrDrained, MSHR, IdleMSHR
    <3> QED
      BY <2>0, <3>1
  <2>4. CASE UNCHANGED mshr
    BY <2>0, <2>4
  <2>5. CASE CoreRequest(c)
    <3>1. ASSUME NEW cmd, NEW a, NEW v, CpuHit(c, cmd, a, v) PROVE UNCHANGED mshr
      BY <3>1 DEF CpuHit
    <3> HIDE DEF Kept
    <3> QED
      BY <2>1, <2>2, <2>4, <2>5, <3>1 DEF CoreRequest
  <2>6. CASE WbStep(c) \/ ProbeStep(c) \/ LrscExpire(c)
    <3>1. UNCHANGED mshr
      BY <2>6 DEF WbStep, WbRead, WbRelease, ProbeStep, ProbeAccept, ProbeLookup, ProbeRelease, ProbeWbReq,
                  ProbeWbResp, ProbeMetaWrite, LrscExpire
    <3> QED
      BY <2>4, <3>1
  <2> QED
    BY <2>3, <2>5, <2>6
<1>4. \A d \in Tiles :
        /\ mshr'[d].state = "s_refill_resp" <=> mshr[d].state = "s_refill_resp"
        /\ mshr[d].state = "s_refill_resp" =>
              mshr'[d].acquire_type = mshr[d].acquire_type /\ mshr'[d].addr = mshr[d].addr
        /\ mshr'[d].state = "s_wb_resp" => ackq[d] = << >>
        /\ mshr'[d].state # "s_invalid" => CachedType(mshr'[d].acquire_type)
  BY <1>3 DEF Lengths, Asking
<1> QED
  BY <1>2, <1>4, TokensFrame DEF Tokens

(* Every step leaves every transaction at one place.                       *)
LEMMA TokensStep == ASSUME TokenContext, [Next]_vars PROVE Tokens'
<1>1. CASE OfL2(L2Step)
  <2>1. ASSUME NEW c \in Clients, AcceptAcquire(c) \/ TakeRelease(c) \/ TakeGrantAck(c) PROVE Tokens'
    BY <1>1, <2>1, TokenAcceptAcquire, TokenL2Frame, TokenTakeGrantAck DEF OfL2
  <2>2. ASSUME NEW t \in AcquireIds, TrackerStep(t) PROVE Tokens'
    BY <1>1, <2>2, TokenL2Frame, TokenMemRead, TokenForwardGrant, TokenMakeGrant DEF OfL2, TrackerStep
  <2>3. CASE VoluntaryStep
    BY <1>1, <2>3, TokenL2Frame, TokenVoluntaryAck DEF OfL2, VoluntaryStep
  <2> QED
    BY <1>1, <2>1, <2>2, <2>3 DEF OfL2, L2Step
<1>2. ASSUME NEW c \in Tiles, OfTile(TileStep(c)) PROVE Tokens'
  <2>1. CASE MshrStep(c)
    BY <1>2, <2>1, TokenTileFrame, TokenMshrRefillReq, TokenMshrRefill, TokenMshrWbResp DEF OfTile, MshrStep
  <2> QED
    BY <1>2, <2>1, TokenTileFrame, TokenMshrFinish DEF OfTile, TileStep
<1>3. CASE OfHtif(HtifStep)
  BY <1>3, TokenHtifRequest, TokenHtifGrant, TokenHtifFinish DEF OfHtif, HtifStep
<1>4. CASE UNCHANGED vars
  <2> USE DEF TokenContext, TokenInv
  <2>1. UNCHANGED << acquire, grant, grant_ack, outer, ackq, htif, tracker, mshr >>
    BY <1>4 DEF vars, channels, l2vars, dcvars
  <2>2. \A c \in Tiles : /\ mshr'[c].state = "s_wb_resp" => ackq[c] = << >>
                         /\ mshr'[c].state # "s_invalid" => CachedType(mshr'[c].acquire_type)
    BY <2>1 DEF Lengths, Asking
  <2> QED
    BY <2>1, <2>2, TokensFrame DEF Tokens
<1> QED
  BY <1>1, <1>2, <1>3, <1>4 DEF Next

-----------------------------------------------------------------------------
(* Evictions.                                                              *)

(* Nothing of an eviction moves, or some of it disappears.                 *)
LEMMA EvictionsFrame ==
    ASSUME Evictions, release'[HTIF] = << >>,
           \A c \in Tiles : \A i \in DOMAIN release'[c] : EvictRel(c, i)' =>
               /\ \E k \in DOMAIN release[c] : EvictRel(c, k) /\ release[c][k].addr = release'[c][i].addr
               /\ \A j \in DOMAIN release'[c] : EvictRel(c, j)' => i = j,
           \A c \in Tiles : EvictWb(c)' => EvictWb(c) /\ wb'[c].addr = wb[c].addr,
           \A c \in Clients : /\ EvictTr(c)' => EvictTr(c) /\ voluntary'.addr = voluntary.addr
                              /\ EvictAck(c)' => EvictAck(c),
           \A c \in Tiles : mshr[c].state = "s_wb_resp" => mshr'[c].state = "s_wb_resp" /\ mshr'[c].old_tag = mshr[c].old_tag
    PROVE  Evictions'
<1> USE ClientSets
<1>1. ASSUME NEW c \in Tiles
      PROVE  /\ EvictWb(c)' => /\ Evicting(c, wb[c].addr)' /\ ~EvictTr(c)' /\ ~EvictAck(c)'
                               /\ \A i \in DOMAIN release'[c] : ~EvictRel(c, i)'
             /\ \A i \in DOMAIN release'[c] : EvictRel(c, i)' =>
                  /\ Evicting(c, release[c][i].addr)' /\ ~EvictTr(c)' /\ ~EvictAck(c)'
                  /\ \A j \in DOMAIN release'[c] : EvictRel(c, j)' => i = j
             /\ EvictTr(c)' => Evicting(c, voluntary.addr)' /\ ~EvictAck(c)'
             /\ EvictAck(c)' => mshr'[c].state = "s_wb_resp"
  <2>1. EvictWb(c)' => /\ Evicting(c, wb[c].addr)' /\ ~EvictTr(c)' /\ ~EvictAck(c)'
                       /\ \A i \in DOMAIN release'[c] : ~EvictRel(c, i)'
    BY DEF Evictions, Evicting
  <2>2. ASSUME NEW i \in DOMAIN release'[c], EvictRel(c, i)'
        PROVE  Evicting(c, release[c][i].addr)' /\ ~EvictTr(c)' /\ ~EvictAck(c)'
    BY <2>2 DEF Evictions, Evicting
  <2>3. /\ EvictTr(c)' => Evicting(c, voluntary.addr)' /\ ~EvictAck(c)'
        /\ EvictAck(c)' => mshr'[c].state = "s_wb_resp"
    BY DEF Evictions, Evicting
  <2> QED
    BY <2>1, <2>2, <2>3
<1>2. ~EvictTr(HTIF)' /\ ~EvictAck(HTIF)'
  BY DEF Evictions
<1> QED
  BY <1>1, <1>2 DEF Evictions

(* The same, with the release queues as they were.                         *)
LEMMA EvictionsKept ==
    ASSUME Evictions, UNCHANGED release,
           \A c \in Tiles : EvictWb(c)' => EvictWb(c) /\ wb'[c].addr = wb[c].addr,
           \A c \in Clients : /\ EvictTr(c)' => EvictTr(c) /\ voluntary'.addr = voluntary.addr
                              /\ EvictAck(c)' => EvictAck(c),
           \A c \in Tiles : mshr[c].state = "s_wb_resp" => mshr'[c].state = "s_wb_resp" /\ mshr'[c].old_tag = mshr[c].old_tag
    PROVE  Evictions'
<1>1. \A c \in Tiles : \A i \in DOMAIN release'[c] : EvictRel(c, i)' =>
         /\ \E k \in DOMAIN release[c] : EvictRel(c, k) /\ release[c][k].addr = release'[c][i].addr
         /\ \A j \in DOMAIN release'[c] : EvictRel(c, j)' => i = j
  BY DEF EvictRel, Evictions
<1>2. release'[HTIF] = << >>
  BY DEF Evictions
<1> QED
  BY <1>1, <1>2, EvictionsFrame

(* An answer to a probe joins the queue.                                   *)
LEMMA EvictionsAnswer ==
    ASSUME TokenContext, NEW c \in Tiles, NEW m \in ReleaseMsg(TrackerIds), ~isVoluntary(m.r_type),
           release' = Send(release, c, m), UNCHANGED << voluntary, grant, mshr >>,
           \A d \in Tiles : EvictWb(d)' => EvictWb(d) /\ wb'[d].addr = wb[d].addr
    PROVE  Evictions'
<1> USE DEF TokenContext, TokenInv
<1>1. release \in [Clients -> Seq(ReleaseMsg(TrackerIds))] /\ c \in Clients /\ c # HTIF
  BY ClientSets DEF TypeOK, ChannelsTypeOK
<1>2. /\ \A d \in Clients : d # c => release'[d] = release[d]
      /\ Len(release[c]) \in Nat
      /\ DOMAIN release[c] = 1 .. Len(release[c]) /\ DOMAIN release'[c] = 1 .. Len(release[c]) + 1
      /\ \A i \in DOMAIN release[c] : release'[c][i] = release[c][i]
      /\ release'[c][Len(release[c]) + 1] = m
  BY <1>1, SendEffect
<1>3. \A i \in DOMAIN release'[c] : EvictRel(c, i)' => i \in DOMAIN release[c] /\ EvictRel(c, i) /\ release'[c][i] = release[c][i]
  <2>1. \A i \in DOMAIN release'[c] : i \in DOMAIN release[c] \/ i = Len(release[c]) + 1
    BY <1>2
  <2> QED
    BY <1>2, <2>1 DEF EvictRel
<1>4. \A d \in Tiles : \A i \in DOMAIN release'[d] : EvictRel(d, i)' =>
         /\ \E k \in DOMAIN release[d] : EvictRel(d, k) /\ release[d][k].addr = release'[d][i].addr
         /\ \A j \in DOMAIN release'[d] : EvictRel(d, j)' => i = j
  <2>1. CASE TRUE
    <3>1. ASSUME NEW d \in Tiles, d # c, NEW i \in DOMAIN release'[d], EvictRel(d, i)'
          PROVE  /\ \E k \in DOMAIN release[d] : EvictRel(d, k) /\ release[d][k].addr = release'[d][i].addr
                 /\ \A j \in DOMAIN release'[d] : EvictRel(d, j)' => i = j
      <4>1. release'[d] = release[d]
        BY <1>2, <3>1, ClientSets
      <4> QED
        BY <3>1, <4>1 DEF EvictRel, Evictions
    <3>2. ASSUME NEW i \in DOMAIN release'[c], EvictRel(c, i)'
          PROVE  /\ \E k \in DOMAIN release[c] : EvictRel(c, k) /\ release[c][k].addr = release'[c][i].addr
                 /\ \A j \in DOMAIN release'[c] : EvictRel(c, j)' => i = j
      BY <1>3, <3>2 DEF Evictions
    <3> QED
      BY <3>1, <3>2
  <2> QED
    BY <2>1
<1>5. release'[HTIF] = << >>
  BY <1>1, <1>2, ClientSets DEF Evictions
<1>6. \A d \in Clients : /\ EvictTr(d)' => EvictTr(d) /\ voluntary'.addr = voluntary.addr
                         /\ EvictAck(d)' => EvictAck(d)
  BY DEF EvictTr, EvictAck
<1> QED
  BY <1>4, <1>5, <1>6, EvictionsFrame

(* An answer leaves the queue.                                             *)
LEMMA EvictionsAnswered ==
    ASSUME TokenContext, NEW c \in Clients, release[c] # << >>, release' = Receive(release, c),
           UNCHANGED << voluntary, grant, mshr, wb >>
    PROVE  Evictions'
<1> USE DEF TokenContext, TokenInv
<1>1. release \in [Clients -> Seq(ReleaseMsg(TrackerIds))]
  BY ClientSets DEF TypeOK, ChannelsTypeOK
<1>2. c \in Tiles /\ c # HTIF
  BY ClientSets DEF Evictions
<1>3. /\ \A d \in Clients : d # c => release'[d] = release[d]
      /\ Len(release[c]) \in Nat /\ DOMAIN release'[c] = 1 .. Len(release[c]) - 1
      /\ \A i \in DOMAIN release'[c] : i + 1 \in DOMAIN release[c] /\ release'[c][i] = release[c][i + 1]
  BY <1>1, ReceiveEffect
<1>4. \A i \in DOMAIN release'[c] : EvictRel(c, i)' => i \in Int /\ i + 1 \in DOMAIN release[c] /\ EvictRel(c, i + 1)
                                                       /\ release'[c][i] = release[c][i + 1]
  BY <1>3 DEF EvictRel
<1>5. ASSUME NEW i \in DOMAIN release'[c], EvictRel(c, i)'
      PROVE  /\ \E k \in DOMAIN release[c] : EvictRel(c, k) /\ release[c][k].addr = release'[c][i].addr
             /\ \A j \in DOMAIN release'[c] : EvictRel(c, j)' => i = j
  <2>1. \E k \in DOMAIN release[c] : EvictRel(c, k) /\ release[c][k].addr = release'[c][i].addr
    BY <1>4, <1>5
  <2>2. ASSUME NEW j \in DOMAIN release'[c], EvictRel(c, j)' PROVE i = j
    <3>1. i \in Int /\ j \in Int /\ i + 1 \in DOMAIN release[c] /\ j + 1 \in DOMAIN release[c]
          /\ EvictRel(c, i + 1) /\ EvictRel(c, j + 1)
      BY <1>4, <1>5, <2>2
    <3>2. i + 1 = j + 1
      BY <1>2, <3>1 DEF Evictions
    <3> QED
      BY <3>1, <3>2
  <2> QED
    BY <2>1, <2>2
<1>6. ASSUME NEW d \in Tiles, d # c, NEW i \in DOMAIN release'[d], EvictRel(d, i)'
      PROVE  /\ \E k \in DOMAIN release[d] : EvictRel(d, k) /\ release[d][k].addr = release'[d][i].addr
             /\ \A j \in DOMAIN release'[d] : EvictRel(d, j)' => i = j
  <2>1. release'[d] = release[d]
    BY <1>3, <1>6, ClientSets
  <2> QED
    BY <1>6, <2>1 DEF EvictRel, Evictions
<1>7. \A d \in Tiles : \A i \in DOMAIN release'[d] : EvictRel(d, i)' =>
         /\ \E k \in DOMAIN release[d] : EvictRel(d, k) /\ release[d][k].addr = release'[d][i].addr
         /\ \A j \in DOMAIN release'[d] : EvictRel(d, j)' => i = j
  BY <1>5, <1>6
<1>8. release'[HTIF] = << >>
  BY <1>2, <1>3, ClientSets DEF Evictions
<1>9. \A d \in Clients : /\ EvictTr(d)' => EvictTr(d) /\ voluntary'.addr = voluntary.addr
                         /\ EvictAck(d)' => EvictAck(d)
  BY DEF EvictTr, EvictAck
<1>10. \A d \in Tiles : EvictWb(d)' => EvictWb(d) /\ wb'[d].addr = wb[d].addr
  BY DEF EvictWb
<1> QED
  BY <1>7, <1>8, <1>9, <1>10, EvictionsFrame

(* The writeback of an eviction joins the queue.                           *)
LEMMA EvictionsSent ==
    ASSUME TokenContext, NEW c \in Tiles, EvictWb(c), WbRelease(c), UNCHANGED l2vars
    PROVE  Evictions'
<1> USE DEF TokenContext, TokenInv
<1>1. /\ release \in [Clients -> Seq(ReleaseMsg(TrackerIds))] /\ wb \in [Tiles -> WritebackUnit(TrackerIds)]
      /\ c \in Clients /\ c # HTIF
  BY ClientSets DEF TypeOK, ChannelsTypeOK, DCacheTypeOK
<1>2. PICK m \in ReleaseMsg(TrackerIds) : m = [r_type |-> wb[c].r_type, addr |-> wb[c].addr,
                                               master_xact_id |-> wb[c].master_xact_id, data |-> wb[c].data]
  BY <1>1 DEF ReleaseMsg, WritebackUnit
<1>3. release' = Send(release, c, m)
  BY <1>2 DEF WbRelease
<1>4. /\ \A d \in Clients : d # c => release'[d] = release[d]
      /\ Len(release[c]) \in Nat
      /\ DOMAIN release[c] = 1 .. Len(release[c]) /\ DOMAIN release'[c] = 1 .. Len(release[c]) + 1
      /\ \A i \in DOMAIN release[c] : release'[c][i] = release[c][i]
      /\ release'[c][Len(release[c]) + 1] = m
  BY <1>1, <1>3, SendEffect
<1>5. \A i \in DOMAIN release'[c] : EvictRel(c, i)' => i = Len(release[c]) + 1
  <2>1. \A i \in DOMAIN release'[c] : i \in DOMAIN release[c] \/ i = Len(release[c]) + 1
    BY <1>4
  <2>2. \A i \in DOMAIN release[c] : ~EvictRel(c, i)
    BY DEF Evictions
  <2> QED
    BY <1>4, <2>1, <2>2 DEF EvictRel
<1>6. ~EvictTr(c) /\ ~EvictAck(c) /\ mshr[c].state = "s_wb_resp" /\ mshr[c].old_tag = m.addr
  BY <1>2 DEF Evictions, Evicting
<1>7. UNCHANGED << voluntary, grant, mshr >> /\ wb'[c].state = "inactive" /\ \A d \in Tiles : d # c => wb'[d] = wb[d]
  BY <1>1 DEF WbRelease, l2vars, IdleWb
<1>8. \A d \in Clients : (EvictTr(d)' <=> EvictTr(d)) /\ (EvictAck(d)' <=> EvictAck(d))
  BY <1>7 DEF EvictTr, EvictAck
<1>9. ~EvictWb(c)'
  BY <1>7 DEF EvictWb
<1>10. \A i \in DOMAIN release'[c] : EvictRel(c, i)' =>
                  /\ Evicting(c, release[c][i].addr)' /\ ~EvictTr(c)' /\ ~EvictAck(c)'
                  /\ \A j \in DOMAIN release'[c] : EvictRel(c, j)' => i = j
  BY <1>1, <1>4, <1>5, <1>6, <1>7, <1>8 DEF Evicting
<1>11. ASSUME NEW d \in Tiles, d # c
      PROVE  /\ EvictWb(d)' => /\ Evicting(d, wb[d].addr)' /\ ~EvictTr(d)' /\ ~EvictAck(d)'
                               /\ \A i \in DOMAIN release'[d] : ~EvictRel(d, i)'
             /\ \A i \in DOMAIN release'[d] : EvictRel(d, i)' =>
                  /\ Evicting(d, release[d][i].addr)' /\ ~EvictTr(d)' /\ ~EvictAck(d)'
                  /\ \A j \in DOMAIN release'[d] : EvictRel(d, j)' => i = j
             /\ EvictTr(d)' => Evicting(d, voluntary.addr)' /\ ~EvictAck(d)'
             /\ EvictAck(d)' => mshr'[d].state = "s_wb_resp"
  <2>1. release'[d] = release[d] /\ wb'[d] = wb[d] /\ mshr'[d] = mshr[d] /\ voluntary' = voluntary /\ d \in Clients
    BY <1>4, <1>7, <1>11, ClientSets
  <2>2. /\ EvictWb(d)' => EvictWb(d)
        /\ \A i \in DOMAIN release'[d] : EvictRel(d, i)' <=> EvictRel(d, i)
    BY <2>1 DEF EvictWb, EvictRel
  <2> QED
    BY <1>8, <2>1, <2>2 DEF Evictions, Evicting
<1>12. release'[HTIF] = << >> /\ ~EvictTr(HTIF)' /\ ~EvictAck(HTIF)'
  BY <1>1, <1>4, <1>8, ClientSets DEF Evictions
<1>13. ~EvictTr(c)' /\ ~EvictAck(c)'
  BY <1>1, <1>6, <1>8
<1> QED
  BY <1>9, <1>10, <1>11, <1>12, <1>13 DEF Evictions

(* The agent takes an eviction.                                            *)
LEMMA EvictionsTaken ==
    ASSUME TokenContext, NEW c \in Clients, TakeVoluntaryRelease(c), UNCHANGED << dcvars, htif >>
    PROVE  Evictions'
<1> USE DEF TokenContext, TokenInv
<1>1. /\ release \in [Clients -> Seq(ReleaseMsg(TrackerIds))]
      /\ release[c] # << >> /\ release' = Receive(release, c) /\ isVoluntary(Head(release[c]).r_type)
  BY ClientSets DEF TypeOK, ChannelsTypeOK, TakeVoluntaryRelease
<1>2. c \in Tiles /\ c # HTIF
  BY <1>1, ClientSets DEF Evictions
<1>3. /\ \A d \in Clients : d # c => release'[d] = release[d]
      /\ Len(release[c]) \in Nat /\ DOMAIN release'[c] = 1 .. Len(release[c]) - 1
      /\ \A i \in DOMAIN release'[c] : i + 1 \in DOMAIN release[c] /\ release'[c][i] = release[c][i + 1]
      /\ 1 \in DOMAIN release[c] /\ Head(release[c]) = release[c][1]
  BY <1>1, ReceiveEffect
<1>4. EvictRel(c, 1)
  BY <1>1, <1>3 DEF EvictRel
<1>5. \A i \in DOMAIN release'[c] : ~EvictRel(c, i)'
  <2>1. ASSUME NEW i \in DOMAIN release'[c], EvictRel(c, i)' PROVE FALSE
    <3>1. i \in 1 .. Len(release[c]) - 1 /\ i + 1 \in DOMAIN release[c] /\ EvictRel(c, i + 1)
      BY <1>3, <2>1 DEF EvictRel
    <3>2. i + 1 = 1
      BY <1>2, <1>3, <1>4, <3>1 DEF Evictions
    <3> QED
      BY <3>1, <3>2
  <2> QED
    BY <2>1
<1>6. /\ voluntary.state = "s_idle" /\ voluntary'.state \in {"s_mem", "s_ack"}
      /\ voluntary'.init_client_id = c /\ voluntary'.addr = release[c][1].addr
  BY <1>3 DEF TakeVoluntaryRelease
<1>7. UNCHANGED << wb, grant, mshr >>
  BY DEF TakeVoluntaryRelease, dcvars
<1>8. \A d \in Clients : /\ EvictTr(d)' <=> d = c
                         /\ EvictAck(d)' <=> EvictAck(d)
                         /\ ~EvictTr(d)
  BY <1>6, <1>7 DEF EvictTr, EvictAck
<1>9. \A d \in Tiles : EvictWb(d)' <=> EvictWb(d)
  BY <1>7 DEF EvictWb
<1>10. ~EvictAck(c) /\ ~EvictWb(c) /\ mshr[c].state = "s_wb_resp" /\ mshr[c].old_tag = release[c][1].addr
  BY <1>2, <1>3, <1>4 DEF Evictions, Evicting
<1>11. Evicting(c, voluntary.addr)' /\ EvictTr(c)' /\ ~EvictAck(c)' /\ ~EvictWb(c)'
  BY <1>2, <1>6, <1>7, <1>8, <1>9, <1>10 DEF Evicting
<1>12. ASSUME NEW d \in Tiles, d # c
      PROVE  /\ EvictWb(d)' => /\ Evicting(d, wb[d].addr)' /\ ~EvictTr(d)' /\ ~EvictAck(d)'
                               /\ \A i \in DOMAIN release'[d] : ~EvictRel(d, i)'
             /\ \A i \in DOMAIN release'[d] : EvictRel(d, i)' =>
                  /\ Evicting(d, release[d][i].addr)' /\ ~EvictTr(d)' /\ ~EvictAck(d)'
                  /\ \A j \in DOMAIN release'[d] : EvictRel(d, j)' => i = j
             /\ ~EvictTr(d)'
             /\ EvictAck(d)' => mshr'[d].state = "s_wb_resp"
  <2>1. release'[d] = release[d] /\ wb'[d] = wb[d] /\ mshr'[d] = mshr[d] /\ d \in Clients
    BY <1>3, <1>7, <1>12, ClientSets
  <2>2. \A i \in DOMAIN release'[d] : EvictRel(d, i)' <=> EvictRel(d, i)
    BY <2>1 DEF EvictRel
  <2> QED
    BY <1>8, <1>9, <1>12, <2>1, <2>2 DEF Evictions, Evicting
<1>13. release'[HTIF] = << >> /\ ~EvictTr(HTIF)' /\ ~EvictAck(HTIF)'
  BY <1>2, <1>3, <1>8, ClientSets DEF Evictions
<1> QED
  BY <1>5, <1>11, <1>12, <1>13 DEF Evictions

(* The agent acknowledges an eviction.                                     *)
LEMMA EvictionsAcked ==
    ASSUME TokenContext, VoluntaryAck, UNCHANGED << dcvars, htif >>
    PROVE  Evictions'
<1> USE DEF TokenContext, TokenInv
<1>1. grant \in [Clients -> Seq(GrantMsg(TrackerIds))]
  BY DEF TypeOK, ChannelsTypeOK
<1>a. PICK c \in Clients : c = voluntary.init_client_id
  BY DEF TypeOK, L2TypeOK, VoluntaryReleaseTracker
<1>2. PICK m \in GrantMsg(TrackerIds) :
        m = [g_type |-> "voluntaryAck", master_xact_id |-> 0, data |-> SomeValue]
  BY Constants DEF GrantMsg, GrantTypes
<1>3. grant' = Send(grant, c, m) /\ Len(grant[c]) < 1 /\ voluntary.state = "s_ack" /\ voluntary'.state = "s_idle"
  BY <1>a, <1>2 DEF VoluntaryAck, GrantRoom, GrantEntries, IdleVoluntary
<1>4. grant[c] = << >>
  BY <1>1, <1>3
<1>5. \A d \in Clients : d # c => grant'[d] = grant[d]
  BY <1>1, <1>3, <1>4, SendFirst
<1>6. UNCHANGED << release, wb, mshr >>
  BY DEF VoluntaryAck, dcvars
<1>7. EvictTr(c) /\ c \in Tiles /\ c # HTIF
  BY <1>a, <1>3, ClientSets DEF EvictTr, Evictions
<1>8. /\ \A d \in Clients : ~EvictTr(d)' /\ (d # c => (EvictAck(d)' <=> EvictAck(d)))
  BY <1>3, <1>5 DEF EvictTr, EvictAck
<1>9. /\ \A d \in Tiles : EvictWb(d)' <=> EvictWb(d)
      /\ \A d \in Tiles : \A i \in DOMAIN release[d] : EvictRel(d, i)' <=> EvictRel(d, i)
  BY <1>6 DEF EvictWb, EvictRel
<1>10. ~EvictWb(c) /\ mshr[c].state = "s_wb_resp" /\ \A i \in DOMAIN release[c] : ~EvictRel(c, i)
  BY <1>7 DEF Evictions, Evicting
<1>11. ASSUME NEW d \in Tiles, d # c
      PROVE  /\ EvictWb(d)' => /\ Evicting(d, wb[d].addr)' /\ ~EvictTr(d)' /\ ~EvictAck(d)'
                               /\ \A i \in DOMAIN release'[d] : ~EvictRel(d, i)'
             /\ \A i \in DOMAIN release'[d] : EvictRel(d, i)' =>
                  /\ Evicting(d, release[d][i].addr)' /\ ~EvictTr(d)' /\ ~EvictAck(d)'
                  /\ \A j \in DOMAIN release'[d] : EvictRel(d, j)' => i = j
             /\ ~EvictTr(d)'
             /\ EvictAck(d)' => mshr'[d].state = "s_wb_resp"
  BY <1>6, <1>8, <1>9, <1>11, ClientSets DEF Evictions, Evicting
<1>12. release'[HTIF] = << >> /\ ~EvictTr(HTIF)' /\ ~EvictAck(HTIF)'
  BY <1>6, <1>7, <1>8, ClientSets DEF Evictions
<1>13. ~EvictWb(c)' /\ mshr'[c].state = "s_wb_resp" /\ ~EvictTr(c)' /\ \A i \in DOMAIN release'[c] : ~EvictRel(c, i)'
  BY <1>6, <1>7, <1>8, <1>9, <1>10
<1> QED
  BY <1>11, <1>12, <1>13 DEF Evictions

(* The tile learns of it.                                                  *)
LEMMA EvictionsEnded ==
    ASSUME TokenContext, NEW c \in Tiles, MshrWbResp(c), UNCHANGED << l2vars, htif >>
    PROVE  Evictions'
<1> USE DEF TokenContext, TokenInv
<1>1. /\ mshr \in [Tiles -> MSHR] /\ grant \in [Clients -> Seq(GrantMsg(TrackerIds))] /\ c \in Clients /\ c # HTIF
  BY ClientSets DEF TypeOK, DCacheTypeOK, ChannelsTypeOK
<1>2. mshr[c].state = "s_wb_resp" /\ grant[c] # << >> /\ grant' = Receive(grant, c) /\ Len(grant[c]) <= 1
  BY <1>1 DEF MshrWbResp, Lengths
<1>3. EvictAck(c)
  BY <1>2, EvictionGrant
<1>4. UNCHANGED << release, wb, voluntary >>
  BY DEF MshrWbResp, l2vars
<1>5. grant'[c] = << >> /\ \A d \in Clients : d # c => grant'[d] = grant[d]
  BY <1>1, <1>2, ReceiveOnly
<1>6. \A d \in Tiles : d # c => mshr'[d] = mshr[d]
  BY <1>1 DEF MshrWbResp
<1>7. /\ \A d \in Clients : EvictTr(d)' <=> EvictTr(d)
      /\ \A d \in Clients : EvictAck(d)' <=> EvictAck(d) /\ d # c
      /\ \A d \in Tiles : EvictWb(d)' <=> EvictWb(d)
      /\ \A d \in Tiles : \A i \in DOMAIN release[d] : EvictRel(d, i)' <=> EvictRel(d, i)
  BY <1>4, <1>5 DEF EvictTr, EvictAck, EvictWb, EvictRel
<1>8. ~EvictWb(c) /\ ~EvictTr(c) /\ \A i \in DOMAIN release[c] : ~EvictRel(c, i)
  BY <1>3 DEF Evictions
<1>9. ~EvictWb(c)' /\ ~EvictTr(c)' /\ ~EvictAck(c)' /\ \A i \in DOMAIN release'[c] : ~EvictRel(c, i)'
  BY <1>1, <1>4, <1>7, <1>8
<1>10. ASSUME NEW d \in Tiles, d # c
      PROVE  /\ EvictWb(d)' => /\ Evicting(d, wb[d].addr)' /\ ~EvictTr(d)' /\ ~EvictAck(d)'
                               /\ \A i \in DOMAIN release'[d] : ~EvictRel(d, i)'
             /\ \A i \in DOMAIN release'[d] : EvictRel(d, i)' =>
                  /\ Evicting(d, release[d][i].addr)' /\ ~EvictTr(d)' /\ ~EvictAck(d)'
                  /\ \A j \in DOMAIN release'[d] : EvictRel(d, j)' => i = j
             /\ EvictTr(d)' => Evicting(d, voluntary.addr)' /\ ~EvictAck(d)'
             /\ EvictAck(d)' => mshr'[d].state = "s_wb_resp"
  BY <1>4, <1>6, <1>7, <1>10, ClientSets DEF Evictions, Evicting
<1>11. release'[HTIF] = << >> /\ ~EvictTr(HTIF)' /\ ~EvictAck(HTIF)'
  BY <1>4, <1>7, ClientSets DEF Evictions
<1> QED
  BY <1>9, <1>10, <1>11 DEF Evictions

(* An eviction starts.                                                     *)
LEMMA EvictionsStarted ==
    ASSUME TokenContext, NEW c \in Tiles, MshrWbReq(c), UNCHANGED << l2vars, htif >>
    PROVE  Evictions'
<1> USE DEF TokenContext, TokenInv
<1>1. mshr \in [Tiles -> MSHR] /\ wb \in [Tiles -> WritebackUnit(TrackerIds)] /\ c \in Clients /\ c # HTIF
  BY ClientSets DEF TypeOK, DCacheTypeOK
<1>2. UNCHANGED << release, grant, voluntary >>
  BY DEF MshrWbReq, l2vars, channels
<1>3. /\ mshr[c].state = "s_wb_req" /\ mshr'[c].state = "s_wb_resp" /\ mshr'[c].old_tag = mshr[c].old_tag
      /\ wb'[c].addr = mshr[c].old_tag
      /\ \A d \in Tiles : d # c => mshr'[d] = mshr[d] /\ wb'[d] = wb[d]
  BY <1>1 DEF MshrWbReq, MSHR, IdleWb
<1>4. /\ \A d \in Clients : EvictTr(d)' <=> EvictTr(d)
      /\ \A d \in Clients : EvictAck(d)' <=> EvictAck(d)
      /\ \A d \in Tiles : d # c => (EvictWb(d)' <=> EvictWb(d))
      /\ \A d \in Tiles : \A i \in DOMAIN release[d] : EvictRel(d, i)' <=> EvictRel(d, i)
  BY <1>2, <1>3 DEF EvictTr, EvictAck, EvictWb, EvictRel
<1>5. ~EvictAck(c) /\ ~EvictTr(c) /\ \A i \in DOMAIN release[c] : ~EvictRel(c, i)
  BY <1>3 DEF Evictions, Evicting
<1>6. Evicting(c, wb[c].addr)' /\ ~EvictTr(c)' /\ ~EvictAck(c)' /\ \A i \in DOMAIN release'[c] : ~EvictRel(c, i)'
  BY <1>1, <1>2, <1>3, <1>4, <1>5 DEF Evicting
<1>7. ASSUME NEW d \in Tiles, d # c
      PROVE  /\ EvictWb(d)' => /\ Evicting(d, wb[d].addr)' /\ ~EvictTr(d)' /\ ~EvictAck(d)'
                               /\ \A i \in DOMAIN release'[d] : ~EvictRel(d, i)'
             /\ \A i \in DOMAIN release'[d] : EvictRel(d, i)' =>
                  /\ Evicting(d, release[d][i].addr)' /\ ~EvictTr(d)' /\ ~EvictAck(d)'
                  /\ \A j \in DOMAIN release'[d] : EvictRel(d, j)' => i = j
             /\ EvictTr(d)' => Evicting(d, voluntary.addr)' /\ ~EvictAck(d)'
             /\ EvictAck(d)' => mshr'[d].state = "s_wb_resp"
  BY <1>2, <1>3, <1>4, <1>7, ClientSets DEF Evictions, Evicting
<1>8. release'[HTIF] = << >> /\ ~EvictTr(HTIF)' /\ ~EvictAck(HTIF)'
  BY <1>2, <1>4, ClientSets DEF Evictions
<1> QED
  BY <1>6, <1>7, <1>8 DEF Evictions

(* The agent moves an eviction from the release queue to its tracker and   *)
(* back as an acknowledgement.                                             *)
LEMMA EvictionsL2Step ==
    ASSUME TokenContext, OfL2(L2Step)
    PROVE  Evictions'
<1> USE DEF TokenContext, TokenInv
<1>0. UNCHANGED << wb, mshr, dcvars, htif >>
  BY DEF OfL2, dcvars
<1>1. \A d \in Tiles : /\ EvictWb(d)' => EvictWb(d) /\ wb'[d].addr = wb[d].addr
                       /\ mshr[d].state = "s_wb_resp" => mshr'[d].state = "s_wb_resp" /\ mshr'[d].old_tag = mshr[d].old_tag
  BY <1>0 DEF EvictWb
<1>2. ASSUME UNCHANGED << release, grant >>, UNCHANGED voluntary \/ VoluntaryWrite PROVE Evictions'
  <2>1. \A d \in Clients : /\ EvictTr(d)' => EvictTr(d) /\ voluntary'.addr = voluntary.addr
                           /\ EvictAck(d)' => EvictAck(d)
    BY <1>2 DEF EvictTr, EvictAck, VoluntaryWrite, TypeOK, L2TypeOK, VoluntaryReleaseTracker
  <2> QED
    BY <1>1, <1>2, <2>1, EvictionsKept
<1>3. ASSUME NEW t \in AcquireIds, ForwardGrant(t) \/ MakeGrant(t) PROVE Evictions'
  <2>1. grant \in [Clients -> Seq(GrantMsg(TrackerIds))]
    BY DEF TypeOK, ChannelsTypeOK
  <2>2. PICK c \in Clients : c = tracker[t].init_client_id
    BY TrackerFields DEF client
  <2>3. \E v \in Values : grant' = Send(grant, c, [g_type |-> grant_type(t), master_xact_id |-> t, data |-> v])
    BY <1>3, <2>2, Constants DEF ForwardGrant, MakeGrant, TypeOK, L2TypeOK
  <2>4. PICK v \in Values : grant' = Send(grant, c, [g_type |-> grant_type(t), master_xact_id |-> t, data |-> v])
    BY <2>3
  <2>5. PICK m \in GrantMsg(TrackerIds) : m = [g_type |-> grant_type(t), master_xact_id |-> t, data |-> v]
    BY TrackerFields, ClientSets DEF GrantMsg
  <2>6. requiresAckForGrant(m.g_type) /\ grant' = Send(grant, c, m)
    BY <2>4, <2>5, TrackerFields
  <2>7. grant[c] = << >> /\ UNCHANGED << release, voluntary >>
    BY <1>3, <2>1, <2>2 DEF ForwardGrant, MakeGrant, GrantRoom, GrantEntries
  <2>8. (\A d \in Clients : d # c => grant'[d] = grant[d]) /\ Head(grant'[c]) = m
    BY <2>1, <2>6, <2>7, SendFirst
  <2>9. \A d \in Clients : /\ EvictTr(d)' => EvictTr(d) /\ voluntary'.addr = voluntary.addr
                           /\ EvictAck(d)' => EvictAck(d)
    BY <2>6, <2>7, <2>8 DEF EvictTr, EvictAck
  <2> QED
    BY <1>1, <2>7, <2>9, EvictionsKept
<1>4. ASSUME NEW c \in Clients, AcceptAcquire(c) \/ TakeGrantAck(c) PROVE Evictions'
  BY <1>2, <1>4 DEF AcceptAcquire, TakeGrantAck
<1>5. ASSUME NEW t \in AcquireIds, SendProbe(t) \/ MemWrite(t) \/ MemRead(t) PROVE Evictions'
  BY <1>2, <1>5 DEF SendProbe, MemWrite, MemRead, channels
<1>6. CASE VoluntaryWrite
  BY <1>2, <1>6 DEF VoluntaryWrite, channels
<1>7. ASSUME NEW c \in Clients, TakeProbeRelease(c) PROVE Evictions'
  BY <1>0, <1>7, EvictionsAnswered DEF TakeProbeRelease
<1>8. ASSUME NEW c \in Clients, TakeVoluntaryRelease(c) PROVE Evictions'
  BY <1>0, <1>8, EvictionsTaken
<1>9. CASE VoluntaryAck
  BY <1>0, <1>9, EvictionsAcked
<1>10. L2Step
  BY DEF OfL2
<1> QED
  BY <1>3, <1>4, <1>5, <1>6, <1>7, <1>8, <1>9, <1>10 DEF L2Step, TakeRelease, TrackerStep, VoluntaryStep

(* A tile starts an eviction only when none of its own is under way.       *)
LEMMA EvictionsTileStep ==
    ASSUME TokenContext, NEW c \in Tiles, OfTile(TileStep(c))
    PROVE  Evictions'
<1> USE DEF TokenContext, TokenInv
<1>0. UNCHANGED << voluntary, l2vars, htif >> /\ c \in Clients
  BY ClientSets DEF OfTile, l2vars
<1>1. /\ mshr \in [Tiles -> MSHR] /\ wb \in [Tiles -> WritebackUnit(TrackerIds)]
      /\ prober \in [Tiles -> ProbeUnit(TrackerIds)] /\ grant \in [Clients -> Seq(GrantMsg(TrackerIds))]
  BY DEF TypeOK, DCacheTypeOK, ChannelsTypeOK
<1> DEFINE MshrKept == \A d \in Tiles : mshr[d].state = "s_wb_resp" =>
                          mshr'[d].state = "s_wb_resp" /\ mshr'[d].old_tag = mshr[d].old_tag
           WbKept == \A d \in Tiles : EvictWb(d)' => EvictWb(d) /\ wb'[d].addr = wb[d].addr
           AckKept == \A d \in Clients : EvictAck(d)' => EvictAck(d)
<1>2. \A d \in Clients : EvictTr(d)' => EvictTr(d) /\ voluntary'.addr = voluntary.addr
  BY <1>0 DEF EvictTr
<1>3. ASSUME UNCHANGED release, MshrKept, WbKept, AckKept PROVE Evictions'
  BY <1>2, <1>3, EvictionsKept
<1>4. /\ UNCHANGED mshr => MshrKept
      /\ UNCHANGED wb => WbKept
      /\ UNCHANGED grant => AckKept
  BY DEF EvictWb, EvictAck
<1>5. CASE CoreRequest(c)
  <2>1. ASSUME NEW cmd \in Cmds, NEW a, NEW v, PrimaryMiss(c, cmd, a, v)
        PROVE  MshrKept /\ UNCHANGED << release, wb, grant >>
    BY <1>1, <2>1 DEF PrimaryMiss, MshrFree, channels
  <2>2. ASSUME NEW cmd \in Cmds, NEW a, NEW v, SecondaryMiss(c, cmd, a, v)
        PROVE  MshrKept /\ UNCHANGED << release, wb, grant >>
    BY <1>1, <2>2 DEF SecondaryMiss, MSHR, channels
  <2>3. ASSUME NEW cmd \in Cmds, NEW a, NEW v, CpuHit(c, cmd, a, v)
        PROVE  UNCHANGED << mshr, release, wb, grant >>
    BY <2>3 DEF CpuHit, channels
  <2> HIDE DEF MshrKept, WbKept, AckKept
  <2> QED
    BY <1>3, <1>4, <1>5, <2>1, <2>2, <2>3 DEF CoreRequest
<1>6. CASE MshrMetaClear(c) \/ MshrRefillReq(c) \/ MshrMetaWrite(c) \/ MshrReplay(c) \/ MshrDrained(c)
  <2>1. MshrKept
    BY <1>1, <1>6 DEF MshrMetaClear, MshrRefillReq, MshrMetaWrite, MshrReplay, MshrDrained, MSHR
  <2>2. UNCHANGED << release, wb, grant >>
    BY <1>6 DEF MshrMetaClear, MshrRefillReq, MshrMetaWrite, MshrReplay, MshrDrained, channels
  <2> QED
    BY <1>3, <1>4, <2>1, <2>2
<1>7. CASE MshrRefill(c)
  <2>1. MshrKept
    BY <1>1, <1>7 DEF MshrRefill, MSHR
  <2>2. UNCHANGED << release, wb >> /\ grant[c] # << >> /\ grant' = Receive(grant, c) /\ Len(grant[c]) <= 1
    BY <1>0, <1>7 DEF MshrRefill, Lengths
  <2>3. grant'[c] = << >> /\ \A d \in Clients : d # c => grant'[d] = grant[d]
    BY <1>0, <1>1, <2>2, ReceiveOnly
  <2>4. AckKept
    BY <2>3 DEF EvictAck
  <2> QED
    BY <1>3, <1>4, <2>1, <2>2, <2>4
<1>8. CASE MshrFinish(c) \/ LrscExpire(c)
  <2>1. UNCHANGED << release, wb, grant, mshr >>
    BY <1>8 DEF MshrFinish, LrscExpire, channels
  <2> QED
    BY <1>3, <1>4, <2>1
<1>9. CASE WbRead(c)
  <2>1. UNCHANGED << release, grant, mshr >>
    BY <1>9 DEF WbRead, channels
  <2>2. WbKept
    BY <1>1, <1>9 DEF WbRead, WritebackUnit, EvictWb
  <2> QED
    BY <1>3, <1>4, <2>1, <2>2
<1>10. CASE WbRelease(c)
  <2>1. CASE EvictWb(c)
    BY <1>0, <1>10, <2>1, EvictionsSent
  <2>2. CASE ~EvictWb(c)
    <3>1. PICK m \in ReleaseMsg(TrackerIds) : m = [r_type |-> wb[c].r_type, addr |-> wb[c].addr,
                                                   master_xact_id |-> wb[c].master_xact_id, data |-> wb[c].data]
      BY <1>1 DEF ReleaseMsg, WritebackUnit
    <3>2. release' = Send(release, c, m) /\ ~isVoluntary(m.r_type) /\ UNCHANGED << grant, mshr >>
      BY <1>10, <2>2, <3>1 DEF WbRelease, EvictWb
    <3>3. WbKept
      BY <1>1, <1>10 DEF WbRelease, EvictWb, IdleWb
    <3> QED
      BY <1>0, <3>2, <3>3, EvictionsAnswer
  <2> QED
    BY <2>1, <2>2
<1>11. ProbeDirty(c) \in BOOLEAN /\ ProbeReleaseType(c) \in ReleaseTypes /\ ~isVoluntary(ProbeReleaseType(c))
  <2>1. prober[c].p_type \in ProbeTypes /\ ProbeDirty(c) \in BOOLEAN
    BY <1>1 DEF ProbeDirty, ProbeUnit
  <2> QED
    BY <2>1, PolicyAnswers DEF ProbeReleaseType
<1>12. CASE ProbeAccept(c) \/ ProbeLookup(c) \/ ProbeWbResp(c) \/ ProbeMetaWrite(c)
  <2>1. UNCHANGED << release, wb, grant, mshr >>
    BY <1>12 DEF ProbeAccept, ProbeLookup, ProbeWbResp, ProbeMetaWrite, channels
  <2> QED
    BY <1>3, <1>4, <2>1
<1>13. CASE ProbeRelease(c)
  <2>1. UNCHANGED << wb, grant, mshr >>
    BY <1>13 DEF ProbeRelease
  <2>2. CASE UNCHANGED release
    BY <1>3, <1>4, <2>1, <2>2
  <2>3. CASE release' = Send(release, c, [r_type |-> ProbeReleaseType(c), addr |-> prober[c].addr,
                                          master_xact_id |-> prober[c].master_xact_id, data |-> AValue])
    <3>1. PICK m \in ReleaseMsg(TrackerIds) : m = [r_type |-> ProbeReleaseType(c), addr |-> prober[c].addr,
                                                   master_xact_id |-> prober[c].master_xact_id, data |-> AValue]
      BY <1>1, <1>11, Constants DEF ReleaseMsg, ProbeUnit
    <3>2. release' = Send(release, c, m) /\ ~isVoluntary(m.r_type)
      BY <1>11, <2>3, <3>1
    <3> QED
      BY <1>0, <1>4, <2>1, <3>2, EvictionsAnswer
  <2> QED
    BY <1>13, <2>2, <2>3 DEF ProbeRelease
<1>14. CASE ProbeWbReq(c)
  <2>1. UNCHANGED << release, grant, mshr >>
    BY <1>14 DEF ProbeWbReq, channels
  <2>2. WbKept
    BY <1>1, <1>11, <1>14 DEF ProbeWbReq, IdleWb, EvictWb
  <2> QED
    BY <1>3, <1>4, <2>1, <2>2
<1>15. CASE MshrWbReq(c)
  BY <1>0, <1>15, EvictionsStarted
<1>16. CASE MshrWbResp(c)
  BY <1>0, <1>16, EvictionsEnded
<1>17. TileStep(c)
  BY DEF OfTile
<1> QED
  BY <1>5, <1>6, <1>7, <1>8, <1>9, <1>10, <1>12, <1>13, <1>14, <1>15, <1>16, <1>17
     DEF TileStep, MshrStep, WbStep, ProbeStep

(* Every step leaves every eviction at one place.                          *)
LEMMA EvictionsStep == ASSUME TokenContext, [Next]_vars PROVE Evictions'
<1> USE DEF TokenContext, TokenInv
<1>1. ASSUME UNCHANGED << release, wb, mshr, voluntary >>, \A d \in Clients : EvictAck(d)' => EvictAck(d) PROVE Evictions'
  <2>1. /\ \A d \in Clients : EvictTr(d)' => EvictTr(d) /\ voluntary'.addr = voluntary.addr
        /\ \A d \in Tiles : EvictWb(d)' => EvictWb(d) /\ wb'[d].addr = wb[d].addr
    BY <1>1 DEF EvictTr, EvictWb
  <2> QED
    BY <1>1, <2>1, EvictionsKept
<1>2. CASE OfHtif(HtifStep)
  <2>1. UNCHANGED << release, wb, mshr, voluntary >>
    BY <1>2 DEF OfHtif, HtifStep, HostRequest, HtifRequest, HtifGrant, HtifFinish, l2vars, dcvars
  <2>2. CASE UNCHANGED grant
    BY <1>1, <2>1, <2>2 DEF EvictAck
  <2>3. CASE HtifGrant
    <3>1. /\ grant \in [Clients -> Seq(GrantMsg(TrackerIds))] /\ HTIF \in Clients
          /\ grant[HTIF] # << >> /\ grant' = Receive(grant, HTIF) /\ Len(grant[HTIF]) <= 1
      BY <2>3, ClientSets DEF TypeOK, ChannelsTypeOK, HtifGrant, Lengths
    <3>2. grant'[HTIF] = << >> /\ \A d \in Clients : d # HTIF => grant'[d] = grant[d]
      BY <3>1, ReceiveOnly
    <3>3. \A d \in Clients : EvictAck(d)' => EvictAck(d)
      BY <3>2 DEF EvictAck
    <3> QED
      BY <1>1, <2>1, <3>3
  <2>4. UNCHANGED grant \/ HtifGrant
    BY <1>2 DEF OfHtif, HtifStep, HostRequest, HtifRequest, HtifFinish
  <2> QED
    BY <2>2, <2>3, <2>4
<1>3. CASE UNCHANGED vars
  <2>1. UNCHANGED << release, wb, mshr, voluntary, grant >>
    BY <1>3 DEF vars, l2vars, dcvars, channels
  <2> QED
    BY <1>1, <2>1 DEF EvictAck
<1> QED
  BY <1>2, <1>3, EvictionsL2Step, EvictionsTileStep DEF Next

(* Nothing is under way at first.                                          *)
LEMMA TokenInit == Init => TokenInv
<1> SUFFICES ASSUME Init PROVE TokenInv
  OBVIOUS
<1>1. /\ acquire = [c \in Clients |-> << >>] /\ release = [c \in Clients |-> << >>]
      /\ grant = [c \in Clients |-> << >>] /\ grant_ack = [c \in Clients |-> << >>]
      /\ outer = {} /\ ackq = [c \in Tiles |-> << >>]
      /\ voluntary.state = "s_idle" /\ htif.state = "state_rx"
      /\ \A t \in AcquireIds : tracker[t].state = "s_idle"
      /\ \A c \in Tiles : mshr[c].state = "s_invalid" /\ wb[c].state = "inactive"
  BY DEF Init, ChannelsInit, L2Init, DCacheInit, HtifInit, IdleVoluntary, IdleTracker, IdleMSHR, IdleWb, IdleHtif
<1>2. Len(<< >>) <= 1 /\ DOMAIN << >> = {}
  OBVIOUS
<1>3. Lengths
  BY <1>1, <1>2, ClientSets DEF Lengths
<1>4. \A t \in TrackerIds, c \in Clients : ~GrantOf(t, c) /\ ~HeldBy(t, c) /\ ~Acked(t, c) /\ ~InOuter(t)
  BY <1>1, <1>2, ClientSets DEF GrantOf, HeldBy, Acked, InOuter
<1>5. OnePlace
  <2>1. \A c \in Clients : DOMAIN grant_ack[c] = {}
    BY <1>1, <1>2
  <2> QED
    BY <1>1, <1>4, <2>1, ClientSets DEF OnePlace
<1>6. Asking
  BY <1>1 DEF Asking, Idle
<1>7. Evictions
  <2>1. \A c \in Tiles : ~EvictWb(c) /\ DOMAIN release[c] = {}
    BY <1>1, <1>2, ClientSets DEF EvictWb
  <2>2. \A c \in Clients : ~EvictTr(c) /\ ~EvictAck(c)
    BY <1>1 DEF EvictTr, EvictAck
  <2> QED
    BY <1>1, <2>1, <2>2, ClientSets DEF Evictions
<1> QED
  BY <1>3, <1>5, <1>6, <1>7 DEF TokenInv

(* Every transaction and every eviction is at one place in every state,    *)
(* with every policy: a request in its channel or its tracker, and, once   *)
(* the tracker is busy, a read of memory, a grant, the client that took it *)
(* or its acknowledgement; the client waits for what it asked for until    *)
(* the grant has come.                                                     *)
THEOREM TokensCorrect == Spec => []TokenInv
<1>1. TypeOK /\ OneTransactionPerLine /\ TokenInv /\ [Next]_vars => TokenInv'
  BY TokensStep, EvictionsStep DEF TokenContext, Tokens, TokenInv
<1> QED
  BY TokenInit, <1>1, CoherentTypeCorrect, OneTransaction, PTL DEF Spec

(* An acknowledgement under way finds its tracker busy with the            *)
(* transaction of the client that sends it, and it is the only one.        *)
THEOREM AcksFindTransactions == Spec => []AckFindsTransaction
<1>1. TypeOK /\ TokenInv => AckFindsTransaction
  <2> SUFFICES ASSUME TypeOK, TokenInv, NEW c \in Clients, NEW i \in DOMAIN grant_ack[c]
               PROVE  /\ grant_ack[c][i] \in AcquireIds /\ tracker[grant_ack[c][i]].state = "s_busy"
                      /\ tracker[grant_ack[c][i]].init_client_id = c
                      /\ \A d \in Clients : \A j \in DOMAIN grant_ack[d] :
                            grant_ack[d][j] = grant_ack[c][i] => c = d /\ i = j
    BY DEF AckFindsTransaction
  <2>1. PICK t \in TrackerIds : t = grant_ack[c][i]
    BY DEF TypeOK, ChannelsTypeOK
  <2>2. Acked(t, c) /\ BusyFor(t, c)
    BY <2>1 DEF Acked, TokenInv, OnePlace
  <2>3. \A d \in Clients : Acked(t, d) => c = d
    BY <2>2 DEF TokenInv, OnePlace, BusyFor
  <2>4. ASSUME NEW d \in Clients, NEW j \in DOMAIN grant_ack[d], grant_ack[d][j] = t PROVE c = d /\ i = j
    <3>1. c = d
      BY <2>3, <2>4 DEF Acked
    <3> QED
      BY <2>1, <2>4, <3>1 DEF TokenInv, OnePlace
  <2> QED
    BY <2>1, <2>2, <2>4 DEF BusyFor, client
<1> QED
  BY <1>1, TokensCorrect, CoherentTypeCorrect, PTL

-----------------------------------------------------------------------------
(***************************************************************************)
(* The second layer: the machines of a tile do not undo what another has   *)
(* seen, every probe is answered once and counted once, and what waits for *)
(* replay finds the permission it was promised.                            *)
(***************************************************************************)

Context == TokenContext /\ ProbeInv /\ ~MetaStalls
MachinesOf(c) == MshrOk(c) /\ ProberOk(c) /\ WritebackOk(c)

(* The types of the machines of a tile.                                    *)
LEMMA TileTypes ==
    ASSUME TypeOK
    PROVE  /\ line \in [Tiles -> Line] /\ mshr \in [Tiles -> MSHR] /\ prober \in [Tiles -> ProbeUnit(TrackerIds)]
           /\ wb \in [Tiles -> WritebackUnit(TrackerIds)]
BY DEF TypeOK, DCacheTypeOK

(* Where a prober and a writeback may be, given what the MSHR does.        *)
LEMMA MachineFacts ==
    ASSUME Context, NEW c \in Tiles
    PROVE  /\ MshrOk(c) /\ ProberOk(c) /\ WritebackOk(c)
           /\ Unsettled(c) => LookedUp(c) /\ prober[c].hit
           /\ wb[c].state # "inactive" /\ isVoluntary(wb[c].r_type) =>
                 mshr[c].state = "s_wb_resp" /\ prober[c].state \in {"s_invalid", "s_meta_read"} /\ wb[c].addr = mshr[c].old_tag
           /\ wb[c].state # "inactive" /\ ~isVoluntary(wb[c].r_type) =>
                 prober[c].state = "s_writeback_resp" /\ LookedUp(c) /\ prober[c].hit
           /\ mshr[c].state \in {"s_meta_write_req", "s_drain_rpq"} =>
                 wb[c].state = "inactive" /\ ~Unsettled(c) /\ (LookedUp(c) => ~prober[c].hit)
           /\ mshr[c].state \in {"s_wb_req", "s_wb_resp", "s_meta_clear"} => ~Unsettled(c) /\ ~LookedUp(c)
           /\ prober[c].state = "s_invalid" => ~Unsettled(c) /\ ~LookedUp(c)
           /\ prober[c].state = "s_invalid" /\ mshr[c].state # "s_wb_resp" => wb[c].state = "inactive"
<1> USE DEF Context, TokenContext, TokenInv, ProbeInv
<1>1. MshrOk(c) /\ ProberOk(c) /\ WritebackOk(c)
  BY DEF Machines
<1>2. prober[c] \in ProbeUnit(TrackerIds) /\ prober[c].hit \in BOOLEAN
  BY TileTypes DEF ProbeUnit
<1>3. Unsettled(c) => LookedUp(c) /\ prober[c].hit
  BY <1>1, <1>2 DEF Unsettled, LookedUp, ProberOk
<1>4. wb[c].state # "inactive" /\ isVoluntary(wb[c].r_type) =>
         mshr[c].state = "s_wb_resp" /\ prober[c].state \in {"s_invalid", "s_meta_read"} /\ wb[c].addr = mshr[c].old_tag
  BY <1>1 DEF Evictions, EvictWb, Evicting, MshrOk
<1>5. wb[c].state # "inactive" /\ ~isVoluntary(wb[c].r_type) =>
         prober[c].state = "s_writeback_resp" /\ LookedUp(c) /\ prober[c].hit
  BY <1>1, <1>2 DEF WritebackOk, LookedUp, ProberOk
<1>6. mshr[c].state \in {"s_wb_req", "s_wb_resp", "s_meta_clear"} => ~Unsettled(c) /\ ~LookedUp(c)
  BY <1>1 DEF MshrOk, Unsettled, LookedUp
<1>7. prober[c].state = "s_invalid" => ~Unsettled(c) /\ ~LookedUp(c)
  BY DEF Unsettled, LookedUp
<1>8. LookedUp(c) /\ prober[c].hit => mshr[c].state \in {"s_invalid", "s_refill_req", "s_refill_resp"}
  BY <1>1 DEF ProberOk
<1> QED
  BY <1>1, <1>2, <1>3, <1>4, <1>5, <1>6, <1>7, <1>8

(* What the permission of a tile depends on.                               *)
LEMMA PermFrame ==
    ASSUME NEW d \in Tiles, line'[d].tag = line[d].tag, line'[d].state = line[d].state,
           mshr'[d].state = mshr[d].state, mshr'[d].line_state = mshr[d].line_state,
           prober'[d].p_type = prober[d].p_type, prober'[d].line_state = prober[d].line_state,
           Unsettled(d)' <=> Unsettled(d)
    PROVE  \A a \in Addrs : (Perm(d, a))' = Perm(d, a)
BY DEF Perm

(* A tile that takes no step keeps its machines and its permissions.       *)
LEMMA MachinesFrame ==
    ASSUME NEW d \in Tiles, MachinesOf(d),
           line'[d] = line[d], mshr'[d] = mshr[d], prober'[d] = prober[d], wb'[d] = wb[d]
    PROVE  MachinesOf(d)' /\ \A a \in Addrs : (Perm(d, a))' = Perm(d, a)
<1>1. (Unsettled(d)' <=> Unsettled(d)) /\ (LookedUp(d)' <=> LookedUp(d))
  BY DEF Unsettled, LookedUp
<1>2. \A a \in Addrs : (Perm(d, a))' = Perm(d, a)
  BY <1>1, PermFrame
<1> QED
  BY <1>1, <1>2, ZenonT(30) DEF MachinesOf, MshrOk, ProberOk, WritebackOk

(* What a primary miss makes of the MSHR.                                  *)
LEMMA PrimaryMissEffect ==
    ASSUME Context, NEW c \in Tiles, NEW cmd \in Cmds, NEW a \in Addrs, NEW v, PrimaryMiss(c, cmd, a, v)
    PROVE  /\ prober[c].state = "s_invalid" /\ mshr[c].state = "s_invalid" /\ (ackq[c] = << >> \/ AckStalls)
           /\ UNCHANGED << line, ackq, wb, prober, lrsc, channels, latest >>
           /\ \A d \in Tiles : d # c => mshr'[d] = mshr[d]
           /\ mshr'[c].addr = a /\ mshr'[c].old_tag = line[c].tag /\ mshr'[c].acquire_type = co.acquireOnMiss[cmd]
           /\ mshr'[c].rpq = Replayed(cmd, v)
           /\ \/ /\ mshr'[c].state = "s_meta_write_req" /\ mshr'[c].line_state = "ExclusiveDirty"
                 /\ line[c].tag = a /\ Exclusive(line[c].state) /\ isWrite(cmd)
              \/ /\ mshr'[c].state = "s_refill_req" /\ line[c].tag = a /\ line[c].state = "Shared"
              \/ /\ mshr'[c].state = "s_wb_req" /\ line[c].tag # a /\ line[c].state = "ExclusiveDirty"
              \/ /\ mshr'[c].state = "s_meta_clear" /\ line[c].state # "ExclusiveDirty"
                 /\ (line[c].tag # a \/ line[c].state = "Invalid")
<1> USE DEF Context, TokenContext, TokenInv, ProbeInv
<1>1. line[c].state \in TileStates /\ mshr \in [Tiles -> MSHR] /\ Known(line[c].state)
  BY TileTypes, MachineFacts DEF Line, MshrOk
<1> DEFINE hit == tag_match(c, a) /\ permitted(c, cmd)
<1> DEFINE st == CASE hit -> "s_meta_write_req"
                   [] ~hit /\ tag_match(c, a) -> "s_refill_req"
                   [] ~tag_match(c, a) /\ line[c].state \in co.needsWriteback -> "s_wb_req"
                   [] OTHER -> "s_meta_clear"
<1> DEFINE ls == IF hit THEN co.newStateOnHit[cmd][line[c].state] ELSE newStateOnFlush
<1>2. mshr' = [mshr EXCEPT ![c] = [state |-> st, addr |-> a, old_tag |-> line[c].tag,
                                   acquire_type |-> co.acquireOnMiss[cmd], line_state |-> ls,
                                   rpq |-> Replayed(cmd, v)]]
  BY Zenon DEF PrimaryMiss
<1>3. /\ hit => st = "s_meta_write_req" /\ ls = co.newStateOnHit[cmd][line[c].state]
      /\ ~hit /\ tag_match(c, a) => st = "s_refill_req"
      /\ ~tag_match(c, a) /\ line[c].state \in co.needsWriteback => st = "s_wb_req"
      /\ ~tag_match(c, a) /\ line[c].state \notin co.needsWriteback => st = "s_meta_clear"
  OBVIOUS
<1> HIDE DEF st, ls
<1>4. /\ mshr'[c].state = st /\ mshr'[c].line_state = ls
      /\ mshr'[c].addr = a /\ mshr'[c].old_tag = line[c].tag /\ mshr'[c].acquire_type = co.acquireOnMiss[cmd]
      /\ mshr'[c].rpq = Replayed(cmd, v)
      /\ \A d \in Tiles : d # c => mshr'[d] = mshr[d]
  BY <1>1, <1>2
<1>5. CASE hit
  <2>1. co.newStateOnHit[cmd][line[c].state] # line[c].state /\ line[c].state \in co.isHit[cmd] /\ line[c].tag = a
    BY <1>5 DEF PrimaryMiss, s2_hit, tag_match, permitted
  <2>2. isWrite(cmd) /\ isWriteIntent(cmd)
    BY <1>1, <2>1, PolicyHits, CommandKinds
  <2>3. Exclusive(line[c].state) /\ co.newStateOnHit[cmd][line[c].state] = "ExclusiveDirty"
    BY <1>1, <2>1, <2>2, PolicyHits
  <2> QED
    BY <1>3, <1>4, <1>5, <2>1, <2>2, <2>3 DEF PrimaryMiss, Nacked, MshrFree
<1>6. CASE ~hit /\ tag_match(c, a)
  <2>1. line[c].state \notin co.isHit[cmd] /\ line[c].tag = a /\ line[c].state # "Invalid"
    BY <1>6 DEF tag_match, permitted, isValid
  <2>2. line[c].state = "Shared"
    BY <1>1, <2>1, PolicyHits
  <2> QED
    BY <1>3, <1>4, <1>6, <2>1, <2>2 DEF PrimaryMiss, Nacked, MshrFree
<1>7. CASE ~tag_match(c, a)
  BY <1>3, <1>4, <1>7, PolicyHits DEF PrimaryMiss, Nacked, MshrFree, tag_match, isValid
<1> QED
  BY <1>5, <1>6, <1>7

(* A miss that finds the MSHR free.                                        *)
LEMMA MachinesPrimaryMiss ==
    ASSUME Context, NEW c \in Tiles, NEW cmd \in Cmds, NEW a \in Addrs, NEW v, PrimaryMiss(c, cmd, a, v)
    PROVE  MachinesOf(c)'
<1>1. /\ prober[c].state = "s_invalid" /\ wb[c].state = "inactive" /\ MshrOk(c) /\ ProberOk(c) /\ WritebackOk(c)
      /\ UNCHANGED << line, wb, prober >>
  BY PrimaryMissEffect, MachineFacts
<1>2. MshrOk(c)'
  BY <1>1, PrimaryMissEffect, PolicyHits DEF MshrOk
<1>3. ~LookedUp(c)'
  BY <1>1 DEF LookedUp
<1> QED
  BY <1>1, <1>2, <1>3 DEF MachinesOf, ProberOk, WritebackOk

(* A further miss only adds to the replay queue and may raise the request. *)
LEMMA SecondaryMissEffect ==
    ASSUME TypeOK, NEW c \in Tiles, NEW cmd \in Cmds, NEW a, NEW v, SecondaryMiss(c, cmd, a, v)
    PROVE  /\ prober[c].state = "s_invalid"
           /\ mshr[c].state \in {"s_wb_req", "s_wb_resp", "s_meta_clear", "s_refill_req", "s_refill_resp"}
           /\ mshr[c].state \in {"s_refill_req", "s_refill_resp"} =>
                 ~co.needsTransactionOnSecondaryMiss[cmd][mshr[c].acquire_type]
           /\ UNCHANGED << line, ackq, wb, prober, lrsc, channels, latest >>
           /\ \A d \in Tiles : d # c => mshr'[d] = mshr[d]
           /\ mshr'[c].state = mshr[c].state /\ mshr'[c].addr = mshr[c].addr /\ mshr'[c].old_tag = mshr[c].old_tag
           /\ mshr'[c].line_state = mshr[c].line_state
           /\ mshr'[c].acquire_type = co.acquireOnSecondary[cmd][mshr[c].acquire_type]
           /\ mshr'[c].rpq = mshr[c].rpq \o Replayed(cmd, v)
BY TileTypes DEF SecondaryMiss, sec_rdy, Nacked, MSHR

(* A miss to the line that the MSHR is fetching.                           *)
LEMMA MachinesSecondaryMiss ==
    ASSUME Context, NEW c \in Tiles, NEW cmd \in Cmds, NEW a \in Addrs, NEW v, SecondaryMiss(c, cmd, a, v)
    PROVE  MachinesOf(c)'
<1>1. /\ prober[c].state = "s_invalid" /\ MshrOk(c) /\ ProberOk(c) /\ WritebackOk(c) /\ UNCHANGED << line, wb, prober >>
      /\ mshr'[c].state = mshr[c].state /\ mshr'[c].addr = mshr[c].addr /\ mshr'[c].old_tag = mshr[c].old_tag
      /\ mshr'[c].line_state = mshr[c].line_state
  BY SecondaryMissEffect, MachineFacts DEF Context, TokenContext
<1>2. MshrOk(c)'
  BY <1>1 DEF MshrOk
<1>3. ~LookedUp(c)'
  BY <1>1 DEF LookedUp
<1> QED
  BY <1>1, <1>2, <1>3 DEF MachinesOf, ProberOk, WritebackOk

(* A hit or a replay changes only the data of the line.                    *)
LEMMA PerformEffect ==
    ASSUME TypeOK, NEW c \in Tiles, NEW cmd, NEW a, NEW v, Perform(c, cmd, a, v)
    PROVE  /\ \A d \in Tiles : d # c => line'[d] = line[d]
           /\ line'[c].tag = line[c].tag /\ line'[c].state = line[c].state
           /\ \/ line'[c].data = line[c].data
              \/ line'[c].data = v /\ isWrite(cmd) /\ ~s2_sc_fail(c, cmd, a) /\ tag_match(c, a)
BY TileTypes DEF Perform, Line

(* A load, a store or a replay writes the data array, not the tags.        *)
LEMMA MachinesPerform ==
    ASSUME Context, NEW c \in Tiles, NEW cmd, NEW a, NEW v, Perform(c, cmd, a, v), wb[c].state = "inactive",
           UNCHANGED << wb, prober >>, mshr'[c].state = mshr[c].state, mshr'[c].addr = mshr[c].addr,
           mshr'[c].old_tag = mshr[c].old_tag, mshr'[c].line_state = mshr[c].line_state
    PROVE  MachinesOf(c)' /\ \A b \in Addrs : (Perm(c, b))' = Perm(c, b)
<1>1. line'[c].tag = line[c].tag /\ line'[c].state = line[c].state /\ MshrOk(c) /\ ProberOk(c) /\ WritebackOk(c)
  BY PerformEffect, MachineFacts DEF Context, TokenContext
<1>2. (Unsettled(c)' <=> Unsettled(c)) /\ (LookedUp(c)' <=> LookedUp(c))
  BY DEF Unsettled, LookedUp
<1>3. \A b \in Addrs : (Perm(c, b))' = Perm(c, b)
  BY <1>1, <1>2, PermFrame
<1> QED
  BY <1>1, <1>2, <1>3 DEF MachinesOf, MshrOk, ProberOk, WritebackOk

(* A hit.                                                                  *)
LEMMA MachinesCpuHit ==
    ASSUME Context, NEW c \in Tiles, NEW cmd \in Cmds, NEW a \in Addrs, NEW v, CpuHit(c, cmd, a, v)
    PROVE  MachinesOf(c)' /\ \A b \in Addrs : (Perm(c, b))' = Perm(c, b)
<1>1. /\ prober[c].state = "s_invalid" /\ mshr[c].state = "s_invalid"
      /\ Perform(c, cmd, a, v) /\ UNCHANGED << mshr, wb, prober >>
  BY DEF CpuHit, Nacked
<1>2. wb[c].state = "inactive"
  BY <1>1, MachineFacts
<1> QED
  BY <1>1, <1>2, MachinesPerform

(* A replay.                                                               *)
LEMMA MachinesReplay ==
    ASSUME Context, NEW c \in Tiles, MshrReplay(c)
    PROVE  MachinesOf(c)' /\ \A b \in Addrs : (Perm(c, b))' = Perm(c, b)
<1>1. \E cmd, a, v : Perform(c, cmd, a, v)
  BY DEF MshrReplay
<1>2. /\ UNCHANGED << wb, prober >> /\ mshr'[c].state = mshr[c].state /\ mshr'[c].addr = mshr[c].addr
      /\ mshr'[c].old_tag = mshr[c].old_tag /\ mshr'[c].line_state = mshr[c].line_state
  BY TileTypes DEF MshrReplay, MSHR, Context, TokenContext
<1>3. wb[c].state = "inactive"
  BY MachineFacts DEF MshrReplay
<1> QED
  BY <1>1, <1>2, <1>3, MachinesPerform

(* The MSHR hands the old line to the WritebackUnit.                       *)
LEMMA MachinesWbReq ==
    ASSUME Context, NEW c \in Tiles, MshrWbReq(c)
    PROVE  MachinesOf(c)' /\ \A b \in Addrs : (Perm(c, b))' = Perm(c, b)
<1>1. /\ mshr[c].state = "s_wb_req" /\ UNCHANGED << line, prober >>
      /\ mshr'[c].state = "s_wb_resp" /\ mshr'[c].old_tag = mshr[c].old_tag
      /\ mshr'[c].line_state = mshr[c].line_state
      /\ wb'[c].state = "read" /\ wb'[c].r_type = "voluntaryInvalidateData"
  BY TileTypes DEF MshrWbReq, MSHR, IdleWb, Context, TokenContext
<1>2. MshrOk(c) /\ ProberOk(c) /\ prober[c].state \in {"s_invalid", "s_meta_read"} /\ ~LookedUp(c) /\ ~Unsettled(c)
  BY <1>1, MachineFacts DEF MshrOk
<1>3. ~LookedUp(c)' /\ ~Unsettled(c)'
  BY <1>1, <1>2 DEF LookedUp, Unsettled
<1>4. MshrOk(c)'
  BY <1>1, <1>2 DEF MshrOk
<1>5. ProberOk(c)' /\ WritebackOk(c)'
  BY <1>1, <1>2, <1>3 DEF ProberOk, WritebackOk, isVoluntary
<1>6. \A b \in Addrs : (Perm(c, b))' = Perm(c, b)
  BY <1>1, <1>2, <1>3 DEF Perm
<1> QED
  BY <1>4, <1>5, <1>6 DEF MachinesOf

(* The eviction is acknowledged, so the WritebackUnit is through.          *)
LEMMA MachinesWbResp ==
    ASSUME Context, NEW c \in Tiles, MshrWbResp(c)
    PROVE  MachinesOf(c)' /\ wb[c].state = "inactive" /\ \A b \in Addrs : (Perm(c, b))' = Perm(c, b)
<1>1. /\ mshr[c].state = "s_wb_resp" /\ UNCHANGED << line, prober, wb >>
      /\ mshr'[c].state = "s_meta_clear" /\ mshr'[c].old_tag = mshr[c].old_tag
      /\ mshr'[c].line_state = mshr[c].line_state /\ grant[c] # << >>
  BY TileTypes DEF MshrWbResp, MSHR, Context, TokenContext
<1>2. /\ MshrOk(c) /\ ProberOk(c) /\ WritebackOk(c)
      /\ prober[c].state \in {"s_invalid", "s_meta_read"} /\ ~LookedUp(c) /\ ~Unsettled(c)
  BY <1>1, MachineFacts DEF MshrOk
<1>3. ~EvictWb(c)
  BY <1>1, EvictionGrant DEF Context, TokenContext, TokenInv, Evictions
<1>4. wb[c].state = "inactive"
  BY <1>2, <1>3 DEF EvictWb, WritebackOk
<1>5. ~LookedUp(c)' /\ ~Unsettled(c)'
  BY <1>1, <1>2 DEF LookedUp, Unsettled
<1>6. MshrOk(c)'
  BY <1>1, <1>2 DEF MshrOk
<1>7. ProberOk(c)' /\ WritebackOk(c)'
  BY <1>1, <1>2, <1>4, <1>5 DEF ProberOk, WritebackOk
<1>8. \A b \in Addrs : (Perm(c, b))' = Perm(c, b)
  BY <1>1, <1>2, <1>5 DEF Perm
<1> QED
  BY <1>4, <1>6, <1>7, <1>8 DEF MachinesOf

(* The tag of the old line is cleared; only now is the permission gone.    *)
LEMMA MachinesMetaClear ==
    ASSUME Context, NEW c \in Tiles, MshrMetaClear(c)
    PROVE  MachinesOf(c)' /\ \A b \in Addrs : (Perm(c, b))' = "Invalid"
<1>1. /\ mshr[c].state = "s_meta_clear" /\ UNCHANGED << prober, wb >>
      /\ mshr'[c].state = "s_refill_req" /\ mshr'[c].addr = mshr[c].addr
      /\ line'[c].tag = mshr[c].addr /\ line'[c].state = "Invalid" /\ line'[c].data = line[c].data
  BY TileTypes DEF MshrMetaClear, MSHR, Line, Context, TokenContext, newStateOnFlush
<1>2. /\ MshrOk(c) /\ ProberOk(c) /\ WritebackOk(c)
      /\ prober[c].state \in {"s_invalid", "s_meta_read"}
  BY <1>1, MachineFacts DEF MshrOk
<1>3. ~LookedUp(c)' /\ ~Unsettled(c)'
  BY <1>1, <1>2 DEF LookedUp, Unsettled
<1>4. MshrOk(c)'
  BY <1>1, <1>2, PolicyHits DEF MshrOk
<1>5. ProberOk(c)' /\ WritebackOk(c)'
  BY <1>1, <1>2, <1>3 DEF ProberOk, WritebackOk
<1>6. \A b \in Addrs : (Perm(c, b))' = "Invalid"
  BY <1>1, <1>3 DEF Perm
<1> QED
  BY <1>4, <1>5, <1>6 DEF MachinesOf

(* The request to the agent changes no permission.                         *)
LEMMA MachinesRefillReq ==
    ASSUME Context, NEW c \in Tiles, MshrRefillReq(c)
    PROVE  MachinesOf(c)' /\ \A b \in Addrs : (Perm(c, b))' = Perm(c, b)
<1>1. /\ mshr[c].state = "s_refill_req" /\ UNCHANGED << line, prober, wb >>
      /\ mshr'[c].state = "s_refill_resp" /\ mshr'[c].addr = mshr[c].addr
  BY TileTypes DEF MshrRefillReq, MSHR, Context, TokenContext
<1>2. MshrOk(c) /\ ProberOk(c) /\ WritebackOk(c)
  BY MachineFacts
<1>3. (Unsettled(c)' <=> Unsettled(c)) /\ (LookedUp(c)' <=> LookedUp(c))
  BY <1>1 DEF LookedUp, Unsettled
<1>4. MshrOk(c)'
  BY <1>1, <1>2 DEF MshrOk
<1>5. \A b \in Addrs : (Perm(c, b))' = Perm(c, b)
  BY <1>1, <1>3 DEF Perm
<1>6. ProberOk(c)' /\ WritebackOk(c)'
  BY <1>1, <1>2, <1>3, <1>5 DEF ProberOk, WritebackOk
<1> QED
  BY <1>4, <1>5, <1>6 DEF MachinesOf

(* The tags are written; the permission was there since the grant.         *)
LEMMA MachinesMetaWrite ==
    ASSUME Context, NEW c \in Tiles, MshrMetaWrite(c)
    PROVE  MachinesOf(c)' /\ \A b \in Addrs : (Perm(c, b))' = Perm(c, b)
<1>1. /\ mshr[c].state = "s_meta_write_req" /\ UNCHANGED << prober, wb >>
      /\ mshr'[c].state = "s_drain_rpq" /\ mshr'[c].addr = mshr[c].addr
      /\ line'[c].tag = mshr[c].addr /\ line'[c].state = mshr[c].line_state /\ line'[c].data = line[c].data
  BY TileTypes DEF MshrMetaWrite, MSHR, Line, Context, TokenContext
<1>2. /\ MshrOk(c) /\ ProberOk(c) /\ WritebackOk(c)
      /\ wb[c].state = "inactive" /\ ~Unsettled(c) /\ (LookedUp(c) => ~prober[c].hit)
  BY <1>1, MachineFacts
<1>3. (Unsettled(c)' <=> Unsettled(c)) /\ (LookedUp(c)' <=> LookedUp(c))
  BY <1>1 DEF LookedUp, Unsettled
<1>4. MshrOk(c)'
  BY <1>1, <1>2 DEF MshrOk
<1>5. \A b \in Addrs : (Perm(c, b))' = Perm(c, b)
  BY <1>1, <1>2, <1>3 DEF Perm, MshrOk
<1>6. ProberOk(c)' /\ WritebackOk(c)'
  BY <1>1, <1>2, <1>3, <1>5 DEF ProberOk, WritebackOk
<1> QED
  BY <1>4, <1>5, <1>6 DEF MachinesOf

(* The MSHR is free again.                                                 *)
LEMMA MachinesDrained ==
    ASSUME Context, NEW c \in Tiles, MshrDrained(c)
    PROVE  MachinesOf(c)' /\ \A b \in Addrs : (Perm(c, b))' = Perm(c, b)
<1>1. /\ mshr[c].state = "s_drain_rpq" /\ UNCHANGED << line, prober, wb >> /\ mshr'[c].state = "s_invalid"
  BY TileTypes DEF MshrDrained, IdleMSHR, Context, TokenContext
<1>2. MshrOk(c) /\ ProberOk(c) /\ WritebackOk(c)
  BY MachineFacts
<1>3. (Unsettled(c)' <=> Unsettled(c)) /\ (LookedUp(c)' <=> LookedUp(c))
  BY <1>1 DEF LookedUp, Unsettled
<1>4. MshrOk(c)'
  BY <1>1, <1>2 DEF MshrOk
<1>5. \A b \in Addrs : (Perm(c, b))' = Perm(c, b)
  BY <1>1, <1>3 DEF Perm
<1>6. ProberOk(c)' /\ WritebackOk(c)'
  BY <1>1, <1>2, <1>3, <1>5 DEF ProberOk, WritebackOk
<1> QED
  BY <1>4, <1>5, <1>6 DEF MachinesOf

(* A comparison is a Boolean.                                              *)
LEMMA Positive == ASSUME NEW x PROVE \E s \in BOOLEAN : s = (x > 0)
<1>1. CASE x > 0
  <2>1. TRUE = (x > 0)
    BY <1>1
  <2> WITNESS TRUE \in BOOLEAN
  <2> QED
    BY <2>1
<1>2. CASE ~(x > 0)
  <2>1. FALSE = (x > 0)
    BY <1>2
  <2> WITNESS FALSE \in BOOLEAN
  <2> QED
    BY <2>1
<1> QED
  BY <1>1, <1>2

(* A refill: the grant of the transaction that the MSHR asked for.         *)
LEMMA RefillEffect ==
    ASSUME Context, NEW c \in Tiles, MshrRefill(c)
    PROVE  \E t \in AcquireIds, s \in BOOLEAN :
           /\ GrantOf(t, c) /\ tracker[t].state = "s_busy" /\ client(t) = c /\ ~Consumed(t, c)
           /\ tracker[t].addr = mshr[c].addr /\ tracker[t].a_type = mshr[c].acquire_type
           /\ CachedType(mshr[c].acquire_type) /\ s = (tracker[t].init_sharer_cnt > 0)
           /\ mshr[c].state = "s_refill_resp" /\ mshr'[c].state = "s_meta_write_req"
           /\ mshr'[c].addr = mshr[c].addr /\ mshr'[c].rpq = mshr[c].rpq
           /\ mshr'[c].acquire_type = mshr[c].acquire_type
           /\ mshr'[c].line_state = GrantedState(mshr[c].acquire_type, s)
           /\ line'[c].tag = line[c].tag /\ line'[c].state = line[c].state
           /\ line'[c].data = Head(grant[c]).data
           /\ \A d \in Tiles : d # c => line'[d] = line[d] /\ mshr'[d] = mshr[d]
           /\ UNCHANGED << wb, prober, lrsc, acquire, probe, release, grant_ack, latest >>
           /\ prober[c].state # "s_meta_write" /\ ~Unsettled(c)
<1> USE DEF Context, TokenContext, TokenInv, ProbeInv
<1>1. mshr[c].state = "s_refill_resp" /\ grant[c] # << >> /\ c \in Clients /\ c # HTIF
  BY ClientSets DEF MshrRefill
<1>2. PICK t \in TrackerIds : t = Head(grant[c]).master_xact_id /\ GrantOf(t, c)
  BY <1>1, TokenHead
<1>3. t \in AcquireIds /\ tracker[t].state = "s_busy" /\ client(t) = c /\ ~Consumed(t, c) /\ ~Idle(t)
  BY <1>1, <1>2 DEF OnePlace, BusyFor, Idle
<1>4. Waiting(c, tracker[t].a_type, tracker[t].addr)
  BY <1>1, <1>3, TrackerFields DEF Asking
<1>5. tracker[t].addr = mshr[c].addr /\ tracker[t].a_type = mshr[c].acquire_type
  BY <1>1, <1>4 DEF Waiting
<1>6. CachedType(mshr[c].acquire_type)
  BY <1>1 DEF Asking
<1>7. PICK s \in BOOLEAN : s = (tracker[t].init_sharer_cnt > 0)
  BY Positive, SMTT(20)
<1>8. Head(grant[c]).g_type = co.getGrantType[mshr[c].acquire_type][s]
  BY <1>1, <1>2, <1>3, <1>5, <1>7 DEF GrantsRight, grant_type
<1>9. messageUpdatesDataArray(Head(grant[c]).g_type)
  BY <1>6, <1>8, PolicyMessages
<1>10. /\ line' = [line EXCEPT ![c].data = Head(grant[c]).data]
       /\ mshr' = [mshr EXCEPT
            ![c].state = "s_meta_write_req",
            ![c].line_state = co.newStateOnGrant[Head(grant[c]).g_type][mshr[c].acquire_type]]
  BY <1>9 DEF MshrRefill
<1>11. /\ mshr'[c].state = "s_meta_write_req"
       /\ mshr'[c].addr = mshr[c].addr /\ mshr'[c].rpq = mshr[c].rpq
       /\ mshr'[c].acquire_type = mshr[c].acquire_type
       /\ mshr'[c].line_state = co.newStateOnGrant[Head(grant[c]).g_type][mshr[c].acquire_type]
       /\ line'[c].tag = line[c].tag /\ line'[c].state = line[c].state
       /\ line'[c].data = Head(grant[c]).data
       /\ \A d \in Tiles : d # c => line'[d] = line[d] /\ mshr'[d] = mshr[d]
  BY <1>10, TileTypes DEF MSHR, Line
<1>12. mshr'[c].line_state = GrantedState(mshr[c].acquire_type, s)
  BY <1>8, <1>11 DEF GrantedState
<1>13. /\ prober[c].state # "s_meta_write" /\ ~Unsettled(c)
       /\ UNCHANGED << wb, prober, lrsc, acquire, probe, release, grant_ack, latest >>
  BY DEF MshrRefill, ProberSettled, Unsettled
<1> QED
  BY <1>1, <1>2, <1>3, <1>5, <1>6, <1>7, <1>11, <1>12, <1>13

(* The line of a transaction that is past its probes is not being probed.  *)
LEMMA ProbedNotGranted ==
    ASSUME Context, NEW c \in Tiles, Probing(c), NEW t \in AcquireIds, ~Idle(t), tracker[t].state # "s_probe"
    PROVE  prober[c].addr # tracker[t].addr
<1> USE DEF Context, TokenContext, ProbeInv
<1>1. PICK u \in AcquireIds : ProbedBy(u, c)
  BY DEF ProbesSent, ProbedBy
<1>2. ProbesFor(u, prober[c].addr)
  BY <1>1 DEF ProbesSent
<1> QED
  BY <1>2 DEF ProbesFor, OneTransactionPerLine, isCoherenceConflict, Idle

(* The grant gives the permission, before the tags are written.            *)
LEMMA MachinesRefill ==
    ASSUME Context, NEW c \in Tiles, MshrRefill(c)
    PROVE  /\ MachinesOf(c)'
           /\ \A b \in Addrs : (Perm(c, b))' = IF b = mshr[c].addr THEN mshr'[c].line_state ELSE "Invalid"
<1>1. PICK t \in AcquireIds, s \in BOOLEAN :
         /\ tracker[t].state = "s_busy" /\ tracker[t].addr = mshr[c].addr /\ CachedType(mshr[c].acquire_type)
         /\ mshr[c].state = "s_refill_resp" /\ mshr'[c].state = "s_meta_write_req"
         /\ mshr'[c].addr = mshr[c].addr
         /\ mshr'[c].line_state = GrantedState(mshr[c].acquire_type, s)
         /\ line'[c].tag = line[c].tag /\ line'[c].state = line[c].state
         /\ UNCHANGED << wb, prober >> /\ ~Unsettled(c)
  BY RefillEffect
<1>2. MshrOk(c) /\ ProberOk(c) /\ WritebackOk(c) /\ line[c].tag = mshr[c].addr
  BY <1>1, MachineFacts DEF MshrOk
<1>3. Known(mshr'[c].line_state) /\ mshr'[c].line_state # "Invalid"
  <2>1. PICK x \in AcquireTypes : x = mshr[c].acquire_type /\ CachedType(x)
    BY <1>1, TileTypes DEF MSHR, Context, TokenContext
  <2>2. GrantedState(x, s) \in co.isHit["load"] /\ GrantedState(x, s) # "Invalid"
    BY <2>1, PolicyIntent, PolicyGrants
  <2>3. mshr'[c].line_state = GrantedState(x, s)
    BY <1>1, <2>1
  <2> QED
    BY <2>2, <2>3 DEF Known
<1>4. LookedUp(c) => prober[c].addr # mshr[c].addr
  <2> SUFFICES ASSUME LookedUp(c) PROVE prober[c].addr # mshr[c].addr
    OBVIOUS
  <2>1. Probing(c)
    BY <1>1 DEF LookedUp, Unsettled, Probing
  <2> QED
    BY <1>1, <2>1, ProbedNotGranted DEF Idle
<1>5. LookedUp(c) => ~prober[c].hit
  BY <1>2, <1>4 DEF ProberOk
<1>6. wb[c].state = "inactive"
  BY <1>1, <1>2, <1>5, MachineFacts
<1>7. ~Unsettled(c)' /\ (LookedUp(c)' <=> LookedUp(c))
  BY <1>1 DEF LookedUp, Unsettled
<1>8. \A b \in Addrs : (Perm(c, b))' = IF b = mshr[c].addr THEN mshr'[c].line_state ELSE "Invalid"
  BY <1>1, <1>2, <1>7 DEF Perm
<1>9. MshrOk(c)'
  BY <1>1, <1>2, <1>3 DEF MshrOk
<1>10. ProberOk(c)' /\ WritebackOk(c)'
  BY <1>1, <1>2, <1>4, <1>5, <1>6, <1>7, <1>8 DEF ProberOk, WritebackOk
<1> QED
  BY <1>8, <1>9, <1>10 DEF MachinesOf

(* The WritebackUnit reads the line.                                       *)
LEMMA MachinesWbRead ==
    ASSUME Context, NEW c \in Tiles, WbRead(c)
    PROVE  MachinesOf(c)' /\ \A b \in Addrs : (Perm(c, b))' = Perm(c, b)
<1>1. /\ wb[c].state = "read" /\ UNCHANGED << line, prober, mshr >>
      /\ wb'[c].state = "release" /\ wb'[c].addr = wb[c].addr /\ wb'[c].r_type = wb[c].r_type
      /\ wb'[c].master_xact_id = wb[c].master_xact_id /\ wb'[c].data = line[c].data
  BY TileTypes DEF WbRead, WritebackUnit, Context, TokenContext
<1>2. MshrOk(c) /\ ProberOk(c) /\ WritebackOk(c)
  BY MachineFacts
<1>3. (Unsettled(c)' <=> Unsettled(c)) /\ (LookedUp(c)' <=> LookedUp(c))
  BY <1>1 DEF LookedUp, Unsettled
<1>4. \A b \in Addrs : (Perm(c, b))' = Perm(c, b)
  BY <1>1, <1>3 DEF Perm
<1>5. MshrOk(c)' /\ ProberOk(c)' /\ WritebackOk(c)'
  BY <1>1, <1>2, <1>3, <1>4 DEF MshrOk, ProberOk, WritebackOk
<1> QED
  BY <1>4, <1>5 DEF MachinesOf

(* An eviction leaves the permission of the tile, an answer settles it.    *)
LEMMA MachinesWbRelease ==
    ASSUME Context, NEW c \in Tiles, WbRelease(c)
    PROVE  /\ MachinesOf(c)'
           /\ isVoluntary(wb[c].r_type) => \A b \in Addrs : (Perm(c, b))' = Perm(c, b)
           /\ ~isVoluntary(wb[c].r_type) =>
                /\ line[c].tag = prober[c].addr /\ line[c].state = "ExclusiveDirty" /\ ~Unsettled(c)
                /\ prober[c].state = "s_writeback_resp" /\ prober[c].line_state = "ExclusiveDirty"
                /\ mshr[c].state \in {"s_invalid", "s_refill_req", "s_refill_resp"}
                /\ \A b \in Addrs : (Perm(c, b))' = IF b = prober[c].addr
                      THEN co.newStateOnProbe[prober[c].p_type]["ExclusiveDirty"] ELSE "Invalid"
<1>1. /\ wb[c].state = "release" /\ UNCHANGED << line, prober, mshr >> /\ wb'[c].state = "inactive"
  BY TileTypes DEF WbRelease, IdleWb, Context, TokenContext
<1>2. MshrOk(c) /\ ProberOk(c) /\ WritebackOk(c)
  BY MachineFacts
<1>3. LookedUp(c)' <=> LookedUp(c)
  BY <1>1 DEF LookedUp
<1>4. CASE isVoluntary(wb[c].r_type)
  <2>1. mshr[c].state = "s_wb_resp" /\ prober[c].state \in {"s_invalid", "s_meta_read"}
    BY <1>1, <1>4, MachineFacts
  <2>2. ~Unsettled(c) /\ ~Unsettled(c)' /\ ~LookedUp(c)
    BY <1>1, <2>1 DEF Unsettled, LookedUp
  <2>3. \A b \in Addrs : (Perm(c, b))' = Perm(c, b)
    BY <1>1, <2>2 DEF Perm
  <2> QED
    BY <1>1, <1>2, <1>3, <1>4, <2>2, <2>3 DEF MachinesOf, MshrOk, ProberOk, WritebackOk
<1>5. CASE ~isVoluntary(wb[c].r_type)
  <2>1. prober[c].state = "s_writeback_resp" /\ LookedUp(c) /\ prober[c].hit
    BY <1>1, <1>5, MachineFacts
  <2>2. ~Unsettled(c) /\ Unsettled(c)'
    BY <1>1, <2>1 DEF Unsettled
  <2>3. line[c].tag = prober[c].addr /\ line[c].state = "ExclusiveDirty" /\ prober[c].line_state = "ExclusiveDirty"
        /\ mshr[c].state \in {"s_invalid", "s_refill_req", "s_refill_resp"}
    BY <1>2, <2>1 DEF ProberOk
  <2>4. \A b \in Addrs : (Perm(c, b))' = IF b = prober[c].addr
                      THEN co.newStateOnProbe[prober[c].p_type]["ExclusiveDirty"] ELSE "Invalid"
    BY <1>1, <2>2, <2>3 DEF Perm
  <2>5. MshrOk(c)' /\ ProberOk(c)' /\ WritebackOk(c)'
    BY <1>1, <1>2, <1>3, <2>1 DEF MshrOk, ProberOk, WritebackOk
  <2> QED
    BY <1>5, <2>1, <2>2, <2>3, <2>4, <2>5 DEF MachinesOf
<1> QED
  BY <1>4, <1>5

(* The prober takes a probe.                                               *)
LEMMA MachinesProbeAccept ==
    ASSUME Context, NEW c \in Tiles, ProbeAccept(c)
    PROVE  MachinesOf(c)' /\ \A b \in Addrs : (Perm(c, b))' = Perm(c, b)
<1> USE DEF Context, TokenContext, ProbeInv
<1>1. /\ prober[c].state = "s_invalid" /\ UNCHANGED << line, wb, mshr >> /\ probe[c] # << >>
      /\ prober'[c].state = "s_meta_read" /\ prober'[c].p_type = Head(probe[c]).p_type
  BY TileTypes DEF ProbeAccept, IdleProber
<1>2. MshrOk(c) /\ ProberOk(c) /\ WritebackOk(c)
  BY MachineFacts
<1>3. probe \in [Clients -> Seq(ProbeMsg(TrackerIds))] /\ c \in Clients
  BY ClientSets DEF TypeOK, ChannelsTypeOK
<1>4. Head(probe[c]) = probe[c][1] /\ 1 \in DOMAIN probe[c]
  <2>1. PICK new : new = Receive(probe, c)
    OBVIOUS
  <2> QED
    BY <1>1, <1>3, <2>1, ReceiveEffect
<1>5. PICK t \in AcquireIds : probe[c][1].master_xact_id = t
  BY <1>4 DEF ProbesSent
<1>6. prober'[c].p_type = co.getProbeType[tracker[t].a_type] /\ tracker[t].a_type \in AcquireTypes
  BY <1>1, <1>4, <1>5, TrackerFields DEF ProbesSent, probe_type
<1>7. ~Unsettled(c) /\ ~Unsettled(c)' /\ ~LookedUp(c)'
  BY <1>1 DEF Unsettled, LookedUp
<1>8. \A b \in Addrs : (Perm(c, b))' = Perm(c, b)
  BY <1>1, <1>7 DEF Perm
<1>9. MshrOk(c)' /\ ProberOk(c)' /\ WritebackOk(c)'
  BY <1>1, <1>2, <1>6, <1>7, <1>8 DEF MshrOk, ProberOk, WritebackOk
<1> QED
  BY <1>8, <1>9 DEF MachinesOf

(* The prober looks the line up; what it finds stays so until it has       *)
(* answered.                                                               *)
LEMMA MachinesProbeLookup ==
    ASSUME Context, NEW c \in Tiles, ProbeLookup(c)
    PROVE  MachinesOf(c)' /\ \A b \in Addrs : (Perm(c, b))' = Perm(c, b)
<1> USE DEF Context, TokenContext
<1>1. /\ prober[c].state = "s_meta_read" /\ UNCHANGED << line, wb, mshr >>
      /\ mshr[c].state \in {"s_invalid", "s_refill_req", "s_refill_resp"}
      /\ prober'[c].state = "s_release" /\ prober'[c].p_type = prober[c].p_type /\ prober'[c].addr = prober[c].addr
      /\ prober'[c].hit = tag_match(c, prober[c].addr)
      /\ tag_match(c, prober[c].addr) => prober'[c].line_state = line[c].state
  BY TileTypes DEF ProbeLookup, ProbeUnit, MSHR, probe_rdy
<1>2. MshrOk(c) /\ ProberOk(c) /\ WritebackOk(c)
  BY MachineFacts
<1>3. wb[c].state = "inactive"
  BY <1>1, MachineFacts
<1>4. ~Unsettled(c) /\ ~Unsettled(c)'
  BY <1>1 DEF Unsettled
<1>5. \A b \in Addrs : (Perm(c, b))' = Perm(c, b)
  BY <1>1, <1>4 DEF Perm
<1>6. prober'[c].hit => line[c].tag = prober[c].addr /\ line[c].state # "Invalid" /\ prober'[c].line_state = line[c].state
  BY <1>1 DEF tag_match, isValid
<1>7. ~prober'[c].hit => \A a \in Addrs : prober[c].addr = a => Perm(c, a) = "Invalid"
  BY <1>1, <1>4 DEF tag_match, isValid, Perm
<1>8. MshrOk(c)'
  BY <1>1, <1>2 DEF MshrOk
<1>9. ProberOk(c)' /\ WritebackOk(c)'
  BY <1>1, <1>2, <1>3, <1>5, <1>6, <1>7 DEF ProberOk, WritebackOk, LookedUp
<1> QED
  BY <1>5, <1>8, <1>9 DEF MachinesOf

(* The three outcomes of a lookup.                                         *)
LEMMA MachinesProbeRelease ==
    ASSUME Context, NEW c \in Tiles, ProbeRelease(c)
    PROVE  /\ MachinesOf(c)' /\ wb[c].state = "inactive" /\ ~Unsettled(c)
           /\ ProbeDirty(c) \/ ~prober[c].hit => \A b \in Addrs : (Perm(c, b))' = Perm(c, b)
           /\ ~prober[c].hit => \A a \in Addrs : prober[c].addr = a => Perm(c, a) = "Invalid"
           /\ ~ProbeDirty(c) /\ prober[c].hit =>
                /\ line[c].tag = prober[c].addr /\ line[c].state = prober[c].line_state
                /\ line[c].state \notin {"Invalid", "ExclusiveDirty"}
                /\ mshr[c].state \in {"s_invalid", "s_refill_req", "s_refill_resp"}
                /\ \A b \in Addrs : (Perm(c, b))' = IF b = prober[c].addr
                      THEN co.newStateOnProbe[prober[c].p_type][line[c].state] ELSE "Invalid"
<1> USE DEF Context, TokenContext
<1>1. prober[c].state = "s_release" /\ UNCHANGED << line, wb, mshr >> /\ prober[c].hit \in BOOLEAN
      /\ ProbeDirty(c) = (prober[c].hit /\ prober[c].line_state = "ExclusiveDirty")
  BY TileTypes, PolicyHits DEF ProbeRelease, ProbeUnit, ProbeDirty
<1>2. MshrOk(c) /\ ProberOk(c) /\ WritebackOk(c) /\ LookedUp(c)
  BY <1>1, MachineFacts DEF LookedUp
<1>3. wb[c].state = "inactive" /\ ~Unsettled(c)
  BY <1>1, MachineFacts DEF Unsettled
<1>4. ~prober[c].hit => \A a \in Addrs : prober[c].addr = a => Perm(c, a) = "Invalid"
  BY <1>2 DEF ProberOk
<1>5. CASE ProbeDirty(c)
  <2>1. /\ prober'[c].state = "s_writeback_req" /\ prober'[c].p_type = prober[c].p_type /\ prober'[c].addr = prober[c].addr
        /\ prober'[c].hit = prober[c].hit /\ prober'[c].line_state = prober[c].line_state
    BY <1>5, TileTypes DEF ProbeRelease, ProbeUnit
  <2>2. ~Unsettled(c)' /\ LookedUp(c)'
    BY <2>1 DEF Unsettled, LookedUp
  <2>3. \A b \in Addrs : (Perm(c, b))' = Perm(c, b)
    BY <1>1, <1>3, <2>2 DEF Perm
  <2>4. MshrOk(c)' /\ ProberOk(c)' /\ WritebackOk(c)'
    BY <1>1, <1>2, <1>3, <1>5, <2>1, <2>2, <2>3 DEF MshrOk, ProberOk, WritebackOk
  <2> QED
    BY <1>1, <1>3, <1>4, <1>5, <2>3, <2>4 DEF MachinesOf
<1>6. CASE ~ProbeDirty(c) /\ prober[c].hit
  <2>1. /\ prober'[c].state = "s_meta_write" /\ prober'[c].p_type = prober[c].p_type /\ prober'[c].addr = prober[c].addr
        /\ prober'[c].hit = prober[c].hit /\ prober'[c].line_state = prober[c].line_state
    BY <1>6, TileTypes DEF ProbeRelease, ProbeUnit
  <2>2. Unsettled(c)' /\ LookedUp(c)'
    BY <2>1 DEF Unsettled, LookedUp
  <2>3. /\ line[c].tag = prober[c].addr /\ line[c].state = prober[c].line_state
        /\ line[c].state \notin {"Invalid", "ExclusiveDirty"}
        /\ mshr[c].state \in {"s_invalid", "s_refill_req", "s_refill_resp"}
    BY <1>1, <1>2, <1>6 DEF ProberOk
  <2>4. \A b \in Addrs : (Perm(c, b))' = IF b = prober[c].addr
                      THEN co.newStateOnProbe[prober[c].p_type][line[c].state] ELSE "Invalid"
    BY <1>1, <2>1, <2>2, <2>3 DEF Perm
  <2>5. MshrOk(c)' /\ ProberOk(c)' /\ WritebackOk(c)'
    BY <1>1, <1>2, <1>3, <1>6, <2>1, <2>2, <2>3 DEF MshrOk, ProberOk, WritebackOk
  <2> QED
    BY <1>1, <1>3, <1>4, <1>6, <2>3, <2>4, <2>5 DEF MachinesOf
<1>7. CASE ~prober[c].hit
  <2>1. prober'[c].state = "s_invalid"
    BY <1>1, <1>7, TileTypes DEF ProbeRelease, IdleProber
  <2>2. ~Unsettled(c)' /\ ~LookedUp(c)'
    BY <2>1 DEF Unsettled, LookedUp
  <2>3. \A b \in Addrs : (Perm(c, b))' = Perm(c, b)
    BY <1>1, <1>3, <2>2 DEF Perm
  <2>4. MshrOk(c)' /\ ProberOk(c)' /\ WritebackOk(c)'
    BY <1>1, <1>2, <1>3, <2>1, <2>2, <2>3 DEF MshrOk, ProberOk, WritebackOk
  <2> QED
    BY <1>1, <1>3, <1>4, <1>7, <2>3, <2>4 DEF MachinesOf
<1> QED
  BY <1>5, <1>6, <1>7

(* The prober hands a dirty line to the WritebackUnit.                     *)
LEMMA MachinesProbeWbReq ==
    ASSUME Context, NEW c \in Tiles, ProbeWbReq(c)
    PROVE  /\ MachinesOf(c)' /\ \A b \in Addrs : (Perm(c, b))' = Perm(c, b)
           /\ ProbeDirty(c) /\ prober[c].line_state = "ExclusiveDirty"
<1> USE DEF Context, TokenContext
<1>1. /\ prober[c].state = "s_writeback_req" /\ UNCHANGED << line, mshr >> /\ wb[c].state = "inactive"
      /\ prober'[c].state = "s_writeback_resp" /\ prober'[c].p_type = prober[c].p_type /\ prober'[c].addr = prober[c].addr
      /\ prober'[c].hit = prober[c].hit /\ prober'[c].line_state = prober[c].line_state
      /\ prober'[c].master_xact_id = prober[c].master_xact_id /\ prober[c].hit \in BOOLEAN
      /\ wb'[c].state = "read" /\ wb'[c].addr = prober[c].addr /\ wb'[c].master_xact_id = prober[c].master_xact_id
      /\ wb'[c].r_type = ProbeReleaseType(c)
  BY TileTypes DEF ProbeWbReq, ProbeUnit, IdleWb
<1>2. MshrOk(c) /\ ProberOk(c) /\ WritebackOk(c) /\ LookedUp(c) /\ prober[c].hit
  BY <1>1, MachineFacts DEF LookedUp, ProberOk
<1>3. ProbeDirty(c) = TRUE /\ prober[c].line_state = "ExclusiveDirty"
  BY <1>1, <1>2, PolicyHits DEF ProbeDirty, ProberOk
<1>4. wb'[c].r_type = ReleaseOnProbe(prober[c].p_type, TRUE)
  BY <1>1, <1>3 DEF ProbeReleaseType
<1>5. ~Unsettled(c) /\ ~Unsettled(c)' /\ LookedUp(c)'
  BY <1>1 DEF Unsettled, LookedUp
<1>6. \A b \in Addrs : (Perm(c, b))' = Perm(c, b)
  BY <1>1, <1>5 DEF Perm
<1>7. MshrOk(c)' /\ ProberOk(c)' /\ WritebackOk(c)'
  BY <1>1, <1>2, <1>3, <1>4, <1>5, <1>6 DEF MshrOk, ProberOk, WritebackOk
<1> QED
  BY <1>3, <1>6, <1>7 DEF MachinesOf

(* The WritebackUnit is through; the permission went with the release.     *)
LEMMA MachinesProbeWbResp ==
    ASSUME Context, NEW c \in Tiles, ProbeWbResp(c)
    PROVE  MachinesOf(c)' /\ \A b \in Addrs : (Perm(c, b))' = Perm(c, b)
<1> USE DEF Context, TokenContext
<1>1. /\ prober[c].state = "s_writeback_resp" /\ UNCHANGED << line, wb, mshr >> /\ wb[c].state = "inactive"
      /\ prober'[c].state = "s_meta_write" /\ prober'[c].p_type = prober[c].p_type /\ prober'[c].addr = prober[c].addr
      /\ prober'[c].hit = prober[c].hit /\ prober'[c].line_state = prober[c].line_state /\ prober[c].hit \in BOOLEAN
  BY TileTypes DEF ProbeWbResp, ProbeUnit
<1>2. MshrOk(c) /\ ProberOk(c) /\ WritebackOk(c) /\ LookedUp(c) /\ prober[c].hit
  BY <1>1, MachineFacts DEF LookedUp, ProberOk
<1>3. Unsettled(c) /\ Unsettled(c)' /\ LookedUp(c)'
  BY <1>1 DEF Unsettled, LookedUp
<1>4. \A b \in Addrs : (Perm(c, b))' = Perm(c, b)
  BY <1>1, <1>3 DEF Perm
<1>5. MshrOk(c)' /\ ProberOk(c)' /\ WritebackOk(c)'
  BY <1>1, <1>2, <1>3 DEF MshrOk, ProberOk, WritebackOk
<1> QED
  BY <1>4, <1>5 DEF MachinesOf

(* The tags are written; the permission went with the release.             *)
LEMMA MachinesProbeMetaWrite ==
    ASSUME Context, NEW c \in Tiles, ProbeMetaWrite(c)
    PROVE  MachinesOf(c)' /\ \A b \in Addrs : (Perm(c, b))' = Perm(c, b)
<1> USE DEF Context, TokenContext
<1>1. /\ prober[c].state = "s_meta_write" /\ UNCHANGED << wb, mshr >> /\ prober'[c].state = "s_invalid"
      /\ prober[c].hit \in BOOLEAN /\ prober[c].line_state \in TileStates /\ prober[c].p_type \in ProbeTypes
      /\ line'[c].tag = prober[c].addr /\ line'[c].data = line[c].data
      /\ line'[c].state = co.newStateOnProbe[prober[c].p_type][prober[c].line_state]
  BY TileTypes DEF ProbeMetaWrite, ProbeUnit, Line, IdleProber
<1>2. MshrOk(c) /\ ProberOk(c) /\ WritebackOk(c) /\ LookedUp(c) /\ prober[c].hit
  BY <1>1, MachineFacts DEF LookedUp, ProberOk
<1>3. Unsettled(c) /\ ~Unsettled(c)' /\ ~LookedUp(c)'
  BY <1>1 DEF Unsettled, LookedUp
<1>4. /\ line[c].tag = prober[c].addr /\ line[c].state = prober[c].line_state /\ prober[c].line_state # "Invalid"
      /\ mshr[c].state \in {"s_invalid", "s_refill_req", "s_refill_resp"} /\ wb[c].state = "inactive"
  BY <1>1, <1>2, MachineFacts DEF ProberOk
<1>5. \A b \in Addrs : (Perm(c, b))' = Perm(c, b)
  BY <1>1, <1>3, <1>4 DEF Perm
<1>6. PICK x \in AcquireTypes : prober[c].p_type = co.getProbeType[x]
  BY <1>1, <1>2 DEF ProberOk
<1>7. /\ Known(line'[c].state)
      /\ line[c].state \in {"Invalid", "Shared"} => line'[c].state \in {"Invalid", "Shared"}
  <2>1. prober[c].p_type \in {"copy", "invalidate", "downgrade"} /\ Known(line[c].state)
    BY <1>1, <1>2 DEF ProbeTypes, MshrOk
  <2>2. CASE prober[c].p_type = "downgrade"
    <3>1. co.getProbeType[x] = "downgrade"
      BY <1>6, <2>2
    <3>2. co.newStateOnProbe["downgrade"][prober[c].line_state] = "Shared" /\ Known("Shared")
      BY <1>1, <3>1, PolicyProbes
    <3>3. line'[c].state = "Shared"
      BY <1>1, <2>2, <3>2
    <3> QED
      BY <3>2, <3>3
  <2>3. CASE prober[c].p_type # "downgrade"
    BY <1>1, <1>4, <2>1, <2>3, PolicyProbes DEF Known
  <2> QED
    BY <2>2, <2>3
<1>8. MshrOk(c)'
  BY <1>1, <1>2, <1>4, <1>7 DEF MshrOk
<1>9. ProberOk(c)' /\ WritebackOk(c)'
  BY <1>1, <1>3, <1>4 DEF ProberOk, WritebackOk
<1> QED
  BY <1>5, <1>8, <1>9 DEF MachinesOf

(* A step of a tile leaves the other tiles and their channels alone.       *)
LEMMA TileFrame ==
    ASSUME TypeOK, NEW c \in Tiles, TileStep(c), NEW d \in Tiles, d # c
    PROVE  /\ line'[d] = line[d] /\ mshr'[d] = mshr[d] /\ wb'[d] = wb[d] /\ prober'[d] = prober[d]
           /\ ackq'[d] = ackq[d] /\ lrsc'[d] = lrsc[d]
           /\ acquire'[d] = acquire[d] /\ probe'[d] = probe[d] /\ release'[d] = release[d]
           /\ grant'[d] = grant[d] /\ grant_ack'[d] = grant_ack[d]
<1> USE ClientSets DEF TypeOK, DCacheTypeOK, ChannelsTypeOK, Send, Receive
<1>1. CASE CoreRequest(c)
  <2>1. PICK cmd, a, v : CpuHit(c, cmd, a, v) \/ PrimaryMiss(c, cmd, a, v) \/ SecondaryMiss(c, cmd, a, v)
    BY <1>1 DEF CoreRequest
  <2>2. CASE CpuHit(c, cmd, a, v)
    BY <2>2 DEF CpuHit, Perform, channels
  <2>3. CASE PrimaryMiss(c, cmd, a, v)
    <3>1. PICK m : mshr' = [mshr EXCEPT ![c] = m]
      BY <2>3 DEF PrimaryMiss
    <3> QED
      BY <2>3, <3>1 DEF PrimaryMiss, channels
  <2>4. CASE SecondaryMiss(c, cmd, a, v)
    BY <2>4 DEF SecondaryMiss, channels
  <2> QED
    BY <2>1, <2>2, <2>3, <2>4
<1>2. CASE MshrWbReq(c) \/ MshrWbResp(c) \/ MshrMetaClear(c) \/ MshrRefillReq(c)
  BY <1>2 DEF MshrWbReq, MshrWbResp, MshrMetaClear, MshrRefillReq, channels
<1>3. CASE MshrRefill(c) \/ MshrMetaWrite(c) \/ MshrDrained(c) \/ MshrFinish(c)
  BY <1>3, ZenonT(30) DEF MshrRefill, MshrMetaWrite, MshrDrained, MshrFinish, channels
<1>4. CASE MshrReplay(c)
  BY <1>4 DEF MshrReplay, Perform, channels
<1>5. CASE WbStep(c) \/ LrscExpire(c)
  BY <1>5 DEF WbStep, WbRead, WbRelease, LrscExpire, channels
<1>6. CASE ProbeStep(c)
  BY <1>6 DEF ProbeStep, ProbeAccept, ProbeLookup, ProbeRelease, ProbeWbReq, ProbeWbResp, ProbeMetaWrite, channels
<1> QED
  BY <1>1, <1>2, <1>3, <1>4, <1>5, <1>6 DEF TileStep, MshrStep

(* Every step keeps the machines of every tile in step with each other.    *)
LEMMA MachinesStep == ASSUME Context, [Next]_vars PROVE Machines'
<1> USE DEF Context, TokenContext
<1>0. \A c \in Tiles : MachinesOf(c)
  BY DEF ProbeInv, Machines, MachinesOf
<1>1. CASE UNCHANGED dcvars
  <2>1. \A c \in Tiles : MachinesOf(c)'
    BY <1>0, <1>1, MachinesFrame DEF dcvars
  <2> QED
    BY <2>1 DEF Machines, MachinesOf
<1>2. ASSUME NEW c \in Tiles, TileStep(c) PROVE Machines'
  <2>1. \A d \in Tiles : d # c => MachinesOf(d)'
    BY <1>0, <1>2, TileFrame, MachinesFrame
  <2>7. MachinesOf(c)'
    <3>2. CASE CoreRequest(c)
      BY <3>2, MachinesCpuHit, MachinesPrimaryMiss, MachinesSecondaryMiss DEF CoreRequest
    <3>3. CASE MshrFinish(c) \/ LrscExpire(c)
      BY <1>0, <3>3, MachinesFrame DEF MshrFinish, LrscExpire
    <3>4. CASE MshrStep(c)
      BY <3>4, MachinesWbReq, MachinesWbResp, MachinesMetaClear, MachinesRefillReq, MachinesRefill,
         MachinesMetaWrite, MachinesReplay, MachinesDrained DEF MshrStep
    <3>5. CASE WbStep(c)
      BY <3>5, MachinesWbRead, MachinesWbRelease DEF WbStep
    <3>6. CASE ProbeStep(c)
      BY <3>6, MachinesProbeAccept, MachinesProbeLookup, MachinesProbeRelease, MachinesProbeWbReq,
         MachinesProbeWbResp, MachinesProbeMetaWrite DEF ProbeStep
    <3> QED
      BY <1>2, <3>2, <3>3, <3>4, <3>5, <3>6 DEF TileStep
  <2>8. \A d \in Tiles : MachinesOf(d)'
    BY <2>1, <2>7
  <2> QED
    BY <2>8 DEF Machines, MachinesOf
<1> QED
  BY <1>1, <1>2 DEF Next, OfL2, OfTile, OfHtif, vars

-----------------------------------------------------------------------------
(* What a transaction is does not change while it lasts.                   *)
LEMMA TrackerKept ==
    ASSUME TypeOK, [Next]_vars, NEW t \in AcquireIds, ~Idle(t)', ~Idle(t)
    PROVE  /\ tracker'[t].a_type = tracker[t].a_type /\ tracker'[t].addr = tracker[t].addr
           /\ tracker'[t].init_client_id = tracker[t].init_client_id /\ tracker'[t].data = tracker[t].data
           /\ tracker'[t].init_sharer_cnt = tracker[t].init_sharer_cnt
<1> USE DEF Idle
<1>1. tracker \in [AcquireIds -> AcquireTracker]
  BY DEF TypeOK, L2TypeOK
<1>2. CASE UNCHANGED tracker
  BY <1>2
<1>3. ASSUME NEW c \in Clients, AcceptAcquire(c)
      PROVE  tracker'[t] = tracker[t]
  <2>1. PICK u \in AcquireIds : Allocated(u) /\ \E r : tracker' = [tracker EXCEPT ![u] = r]
    BY <1>3 DEF AcceptAcquire
  <2> QED
    BY <1>1, <2>1 DEF Allocated
<1>4. ASSUME NEW c \in Clients, TakeGrantAck(c)
      PROVE  tracker'[t] = tracker[t]
  BY <1>4 DEF TakeGrantAck, IdleTracker
<1>5. CASE \E c \in Clients : TakeProbeRelease(c)
  BY <1>5, TakeProbeReleaseEffect
<1>6. CASE \E u \in AcquireIds : SendProbe(u) \/ MemWrite(u) \/ MemRead(u)
  BY <1>1, <1>6 DEF SendProbe, MemWrite, MemRead, AcquireTracker
<1>7. CASE \E u \in AcquireIds : ForwardGrant(u) \/ MakeGrant(u)
  BY <1>1, <1>7 DEF ForwardGrant, MakeGrant, AcquireTracker
<1>8. (\E c \in Clients : TakeVoluntaryRelease(c)) \/ VoluntaryStep => UNCHANGED tracker
  BY DEF TakeVoluntaryRelease, VoluntaryStep, VoluntaryWrite, VoluntaryAck
<1> QED
  BY <1>2, <1>3, <1>4, <1>5, <1>6, <1>7, <1>8
     DEF Next, OfL2, OfTile, OfHtif, L2Step, TakeRelease, TrackerStep, l2vars, vars

(* What a transaction is when it starts.                                   *)
LEMMA AcceptEffect ==
    ASSUME TypeOK, NEW c \in Clients, AcceptAcquire(c)
    PROVE  \E t \in AcquireIds :
             /\ Idle(t) /\ acquire[c] # << >> /\ \A u \in AcquireIds : u # t => tracker'[u] = tracker[u]
             /\ tracker'[t].state = "s_probe" /\ tracker'[t].probe_flags = Tiles
             /\ tracker'[t].init_client_id = c /\ tracker'[t].init_sharer_cnt = nClients % CountRange
             /\ tracker'[t].release_count = nTiles % CountRange
             /\ tracker'[t].a_type = Head(acquire[c]).a_type /\ tracker'[t].addr = Head(acquire[c]).addr
             /\ \A u \in AcquireIds : ~Idle(u) => tracker[u].addr # Head(acquire[c]).addr
             /\ UNCHANGED << voluntary, mem, outer, probe, release, grant, grant_ack, latest >>
<1>1. tracker \in [AcquireIds -> AcquireTracker]
  BY DEF TypeOK, L2TypeOK
<1>2. probe_initial_flags = Tiles /\ Tiles # {} /\ Cardinality(Tiles) = nTiles
  <2>1. probe_initial_flags = Tiles /\ 0 \in Tiles
    BY TileLinkAssumption DEF probe_initial_flags, Clients, Tiles, HTIF
  <2>2. Cardinality(0 .. nTiles - 1) = nTiles
    BY FS_Interval, TileLinkAssumption
  <2> QED
    BY <2>1, <2>2 DEF Tiles
<1> DEFINE acq == Head(acquire[c])
<1>3. PICK t \in AcquireIds :
        /\ Allocated(t)
        /\ tracker' = [tracker EXCEPT ![t] =
             [state |-> IF probe_initial_flags # {} THEN "s_probe" ELSE AfterProbes(acq.a_type),
              a_type |-> acq.a_type, addr |-> acq.addr, data |-> acq.data,
              init_client_id |-> c, init_sharer_cnt |-> nClients % CountRange,
              release_count |-> Cardinality(probe_initial_flags) % CountRange,
              probe_flags |-> probe_initial_flags]]
  BY DEF AcceptAcquire
<1>4. /\ tracker'[t].state = "s_probe" /\ tracker'[t].probe_flags = Tiles
      /\ tracker'[t].init_client_id = c /\ tracker'[t].init_sharer_cnt = nClients % CountRange
      /\ tracker'[t].release_count = nTiles % CountRange
      /\ tracker'[t].a_type = acq.a_type /\ tracker'[t].addr = acq.addr
      /\ \A u \in AcquireIds : u # t => tracker'[u] = tracker[u]
  BY <1>1, <1>2, <1>3
<1>5. \A u \in AcquireIds : ~Idle(u) => tracker[u].addr # acq.addr
  BY DEF AcceptAcquire, has_acquire_conflict, isCoherenceConflict
<1> QED
  BY <1>3, <1>4, <1>5 DEF AcceptAcquire, Allocated

-----------------------------------------------------------------------------
(* The release queue: an answer or an eviction is added, the head is taken. *)

ReleaseAdded(c, n, m) ==
    /\ \A d \in Tiles : d # c => release'[d] = release[d]
    /\ n = Len(release[c]) + 1 /\ n = Len(release'[c]) /\ n \in Nat /\ n \notin DOMAIN release[c]
    /\ \A i : i \in DOMAIN release'[c] <=> i \in DOMAIN release[c] \/ i = n
    /\ \A i \in DOMAIN release[c] : release'[c][i] = release[c][i]
    /\ release'[c][n] = m

ReleaseTaken(c) ==
    /\ \A d \in Tiles : d # c => release'[d] = release[d]
    /\ 1 \in DOMAIN release[c] /\ Head(release[c]) = release[c][1]
    /\ \A i \in DOMAIN release'[c] : /\ i \in Nat /\ i + 1 \in DOMAIN release[c] /\ i + 1 # 1
                                     /\ release'[c][i] = release[c][i + 1]
                                     /\ i + 1 = Len(release[c]) => i = Len(release'[c])
    /\ \A i \in DOMAIN release[c] : i # 1 => \E j \in DOMAIN release'[c] : i = j + 1 /\ release'[c][j] = release[c][i]

(* What Send does to the release queue.                                    *)
LEMMA ReleaseAdds ==
    ASSUME TypeOK, NEW c \in Tiles, NEW m \in ReleaseMsg(TrackerIds), release' = Send(release, c, m)
    PROVE  \E n \in Nat : ReleaseAdded(c, n, m)
<1>1. release \in [Clients -> Seq(ReleaseMsg(TrackerIds))] /\ c \in Clients /\ Tiles \subseteq Clients
  BY ClientSets DEF TypeOK, ChannelsTypeOK
<1>2. /\ \A d \in Clients : d # c => release'[d] = release[d]
      /\ Len(release'[c]) = Len(release[c]) + 1 /\ Len(release[c]) \in Nat
      /\ DOMAIN release[c] = 1 .. Len(release[c]) /\ DOMAIN release'[c] = 1 .. Len(release[c]) + 1
      /\ \A i \in DOMAIN release[c] : release'[c][i] = release[c][i]
      /\ release'[c][Len(release[c]) + 1] = m
  BY <1>1, SendEffect
<1> QED
  BY <1>1, <1>2 DEF ReleaseAdded

(* What Receive does to the release queue.                                 *)
LEMMA ReleaseTakes ==
    ASSUME TypeOK, NEW c \in Tiles, release[c] # << >>, release' = Receive(release, c)
    PROVE  ReleaseTaken(c)
<1>1. release \in [Clients -> Seq(ReleaseMsg(TrackerIds))] /\ c \in Clients /\ Tiles \subseteq Clients
  BY ClientSets DEF TypeOK, ChannelsTypeOK
<1>2. /\ \A d \in Clients : d # c => release'[d] = release[d]
      /\ Len(release[c]) \in Nat /\ Len(release[c]) >= 1 /\ Len(release'[c]) = Len(release[c]) - 1
      /\ DOMAIN release[c] = 1 .. Len(release[c]) /\ DOMAIN release'[c] = 1 .. Len(release[c]) - 1
      /\ \A i \in DOMAIN release'[c] : i + 1 \in DOMAIN release[c] /\ release'[c][i] = release[c][i + 1]
      /\ 1 \in DOMAIN release[c] /\ Head(release[c]) = release[c][1]
  BY <1>1, ReceiveEffect
<1>3. ASSUME NEW i \in DOMAIN release[c], i # 1
      PROVE  \E j \in DOMAIN release'[c] : i = j + 1 /\ release'[c][j] = release[c][i]
  <2>1. i - 1 \in DOMAIN release'[c] /\ i = (i - 1) + 1
    BY <1>2, <1>3
  <2> QED
    BY <1>2, <2>1
<1>4. \A i \in DOMAIN release'[c] : i \in Nat /\ i + 1 # 1 /\ (i + 1 = Len(release[c]) => i = Len(release'[c]))
  BY <1>2
<1> QED
  BY <1>1, <1>2, <1>3, <1>4 DEF ReleaseTaken

(* While a prober answers, its tile evicts nothing.                        *)
LEMMA NoEviction ==
    ASSUME Context, NEW c \in Tiles, mshr[c].state # "s_wb_resp" \/ prober[c].state \notin {"s_invalid", "s_meta_read"}
    PROVE  /\ \A i \in DOMAIN release[c] : ~isVoluntary(release[c][i].r_type)
           /\ ~EvictTr(c) /\ ~EvictAck(c) /\ ~EvictWb(c)
<1>1. mshr[c].state # "s_wb_resp"
  BY MachineFacts DEF MshrOk
<1> QED
  BY <1>1 DEF Context, TokenContext, TokenInv, Evictions, EvictRel, Evicting

(* The prober answers for a line that is not dirty.                        *)
LEMMA ProbeReleaseAdds ==
    ASSUME Context, NEW c \in Tiles, ProbeRelease(c), ~ProbeDirty(c)
    PROVE  \E n \in Nat, m \in ReleaseMsg(TrackerIds) :
             /\ ReleaseAdded(c, n, m) /\ m.addr = prober[c].addr /\ m.master_xact_id = prober[c].master_xact_id
             /\ m.r_type = ReleaseOnProbe(prober[c].p_type, FALSE) /\ ~isVoluntary(m.r_type)
<1> USE DEF Context, TokenContext
<1>1. prober[c] \in ProbeUnit(TrackerIds) /\ AValue \in Values /\ ProbeDirty(c) = FALSE
  BY TileTypes, Constants DEF ProbeDirty
<1>2. ReleaseOnProbe(prober[c].p_type, FALSE) \in ReleaseTypes /\ ~isVoluntary(ReleaseOnProbe(prober[c].p_type, FALSE))
  BY <1>1, PolicyAnswers DEF ProbeUnit
<1>3. PICK m \in ReleaseMsg(TrackerIds) :
         m = [r_type |-> ReleaseOnProbe(prober[c].p_type, FALSE), addr |-> prober[c].addr,
              master_xact_id |-> prober[c].master_xact_id, data |-> AValue]
  BY <1>1, <1>2 DEF ReleaseMsg, ProbeUnit
<1>4. release' = Send(release, c, m)
  BY <1>1, <1>3 DEF ProbeRelease, ProbeReleaseType
<1>5. \E n \in Nat : ReleaseAdded(c, n, m)
  BY <1>4, ReleaseAdds
<1> QED
  BY <1>2, <1>3, <1>5

(* The WritebackUnit releases what it was handed.                          *)
LEMMA WbReleaseAdds ==
    ASSUME TypeOK, NEW c \in Tiles, WbRelease(c)
    PROVE  \E n \in Nat, m \in ReleaseMsg(TrackerIds) :
             /\ ReleaseAdded(c, n, m) /\ m.addr = wb[c].addr /\ m.master_xact_id = wb[c].master_xact_id
             /\ m.r_type = wb[c].r_type /\ m.data = wb[c].data
<1>1. wb[c] \in WritebackUnit(TrackerIds)
  BY TileTypes
<1>2. PICK m \in ReleaseMsg(TrackerIds) :
         m = [r_type |-> wb[c].r_type, addr |-> wb[c].addr,
              master_xact_id |-> wb[c].master_xact_id, data |-> wb[c].data]
  BY <1>1 DEF ReleaseMsg, WritebackUnit
<1>3. release' = Send(release, c, m)
  BY <1>2 DEF WbRelease
<1>4. \E n \in Nat : ReleaseAdded(c, n, m)
  BY <1>3, ReleaseAdds
<1> QED
  BY <1>2, <1>4

(* A step that takes from a release queue.                                 *)
LEMMA TakeReleaseTakes ==
    ASSUME Context, NEW c \in Clients, TakeRelease(c)
    PROVE  c \in Tiles /\ ReleaseTaken(c)
<1>1. c \in Tiles /\ release[c] # << >> /\ release' = Receive(release, c)
  BY ClientSets DEF Context, TokenContext, TokenInv, Evictions, TakeRelease, TakeProbeRelease, TakeVoluntaryRelease
<1> QED
  BY <1>1, ReleaseTakes DEF Context, TokenContext

(* The steps that change the release queues.                               *)
LEMMA ReleaseSteps ==
    ASSUME [Next]_vars
    PROVE  \/ UNCHANGED release
           \/ \E c \in Clients : TakeRelease(c)
           \/ \E c \in Tiles : ProbeRelease(c) /\ ~ProbeDirty(c)
           \/ \E c \in Tiles : WbRelease(c)
<1> USE DEF channels
<1>1. CASE L2Step
  <2>1. CASE \E c \in Clients : AcceptAcquire(c) \/ TakeGrantAck(c)
    BY <2>1 DEF AcceptAcquire, TakeGrantAck
  <2>2. CASE VoluntaryStep \/ \E t \in AcquireIds : TrackerStep(t)
    BY <2>2 DEF VoluntaryStep, VoluntaryWrite, VoluntaryAck, TrackerStep, SendProbe, MemWrite, MemRead, ForwardGrant, MakeGrant
  <2> QED
    BY <1>1, <2>1, <2>2 DEF L2Step
<1>2. ASSUME NEW c \in Tiles, TileStep(c)
      PROVE  UNCHANGED release \/ (ProbeRelease(c) /\ ~ProbeDirty(c)) \/ WbRelease(c)
  <2>1. CASE CoreRequest(c) \/ MshrFinish(c) \/ LrscExpire(c)
    <3>1. CoreRequest(c) =>
            \E cmd, a, v : CpuHit(c, cmd, a, v) \/ PrimaryMiss(c, cmd, a, v) \/ SecondaryMiss(c, cmd, a, v)
      BY DEF CoreRequest
    <3>2. ASSUME NEW cmd, NEW a, NEW v, CpuHit(c, cmd, a, v) \/ PrimaryMiss(c, cmd, a, v) \/ SecondaryMiss(c, cmd, a, v)
          PROVE  UNCHANGED release
      BY <3>2 DEF CpuHit, PrimaryMiss, SecondaryMiss
    <3>3. MshrFinish(c) \/ LrscExpire(c) => UNCHANGED release
      BY DEF MshrFinish, LrscExpire
    <3> QED
      BY <2>1, <3>1, <3>2, <3>3
  <2>2. CASE MshrStep(c)
    <3>1. CASE MshrWbReq(c) \/ MshrWbResp(c) \/ MshrMetaClear(c) \/ MshrRefillReq(c)
      BY <3>1 DEF MshrWbReq, MshrWbResp, MshrMetaClear, MshrRefillReq
    <3>2. CASE MshrMetaWrite(c) \/ MshrReplay(c) \/ MshrDrained(c)
      BY <3>2 DEF MshrMetaWrite, MshrReplay, MshrDrained
    <3>3. CASE MshrRefill(c)
      BY <3>3 DEF MshrRefill
    <3> QED
      BY <2>2, <3>1, <3>2, <3>3 DEF MshrStep
  <2>3. CASE ProbeStep(c) \/ WbStep(c)
    <3>1. CASE ProbeRelease(c)
      BY <3>1 DEF ProbeRelease
    <3>2. CASE ProbeAccept(c) \/ ProbeLookup(c) \/ ProbeWbReq(c) \/ ProbeWbResp(c) \/ ProbeMetaWrite(c) \/ WbRead(c)
      BY <3>2 DEF ProbeAccept, ProbeLookup, ProbeWbReq, ProbeWbResp, ProbeMetaWrite, WbRead
    <3> QED
      BY <2>3, <3>1, <3>2 DEF ProbeStep, WbStep
  <2> QED
    BY <1>2, <2>1, <2>2, <2>3 DEF TileStep
<1>3. CASE HtifStep
  BY <1>3 DEF HtifStep, HostRequest, HtifRequest, HtifGrant, HtifFinish
<1> QED
  BY <1>1, <1>2, <1>3 DEF Next, OfL2, OfTile, OfHtif, vars

(* Nothing follows an eviction: the prober waits while the MSHR evicts.    *)
LEMMA EvictionsLastStep == ASSUME Context, [Next]_vars PROVE EvictionsLast'
<1> USE DEF Context, TokenContext, ProbeInv, TokenInv
<1>1. CASE UNCHANGED release
  BY <1>1 DEF EvictionsLast
<1>2. ASSUME NEW c \in Tiles, ReleaseTaken(c) PROVE EvictionsLast'
  BY <1>2 DEF EvictionsLast, ReleaseTaken
<1>3. ASSUME NEW c \in Tiles, NEW n, NEW m, ReleaseAdded(c, n, m),
             \A i \in DOMAIN release[c] : ~isVoluntary(release[c][i].r_type)
      PROVE  EvictionsLast'
  BY <1>3 DEF EvictionsLast, ReleaseAdded
<1>4. ASSUME NEW c \in Tiles, ProbeRelease(c), ~ProbeDirty(c) PROVE EvictionsLast'
  <2>1. \A i \in DOMAIN release[c] : ~isVoluntary(release[c][i].r_type)
    BY <1>4, NoEviction DEF ProbeRelease
  <2> QED
    BY <1>3, <1>4, <2>1, ProbeReleaseAdds
<1>5. ASSUME NEW c \in Tiles, WbRelease(c) PROVE EvictionsLast'
  <2>1. \A i \in DOMAIN release[c] : ~isVoluntary(release[c][i].r_type)
    <3>1. CASE isVoluntary(wb[c].r_type)
      BY <1>5, <3>1 DEF Evictions, EvictWb, EvictRel, WbRelease
    <3>2. CASE ~isVoluntary(wb[c].r_type)
      BY <1>5, <3>2, MachineFacts, NoEviction DEF WbRelease
    <3> QED
      BY <3>1, <3>2
  <2> QED
    BY <1>3, <1>5, <2>1, WbReleaseAdds
<1> QED
  BY <1>1, <1>2, <1>4, <1>5, ReleaseSteps, TakeReleaseTakes

-----------------------------------------------------------------------------
(* Grants.                                                                 *)

(* A tracker reaches the states that write memory or make a grant only for *)
(* a write of the host.                                                    *)
LEMMA StagesStep == ASSUME Context, [Next]_vars PROVE Stages'
<1> USE DEF Context, TokenContext, ProbeInv
<1>1. tracker \in [AcquireIds -> AcquireTracker]
  BY DEF TypeOK, L2TypeOK
<1>2. CASE UNCHANGED tracker
  BY <1>2 DEF Stages
<1>3. ASSUME NEW c \in Clients, AcceptAcquire(c) PROVE Stages'
  <2>1. PICK t \in AcquireIds : tracker'[t].state = "s_probe" /\ \A u \in AcquireIds : u # t => tracker'[u] = tracker[u]
    BY <1>3, AcceptEffect
  <2> QED
    BY <2>1 DEF Stages
<1>4. ASSUME NEW c \in Clients, TakeGrantAck(c) PROVE Stages'
  BY <1>4 DEF TakeGrantAck, IdleTracker, Stages
<1>5. ASSUME NEW c \in Clients, TakeProbeRelease(c) PROVE Stages'
  <2>1. ASSUME NEW u \in AcquireIds, tracker'[u].state \in {"s_mem_write", "s_make_grant"}
        PROVE  tracker'[u].a_type = "writeUncached"
    <3>1. CASE u = Head(release[c]).master_xact_id
      BY <1>5, <2>1, <3>1, TakeProbeReleaseEffect DEF AfterProbes, acquireHasData, needsOuterRead
    <3>2. CASE u # Head(release[c]).master_xact_id
      BY <1>5, <2>1, <3>2, TakeProbeReleaseEffect DEF Stages
    <3> QED
      BY <3>1, <3>2
  <2> QED
    BY <2>1 DEF Stages
<1>6. ASSUME NEW u \in AcquireIds, SendProbe(u) \/ MemWrite(u) \/ MemRead(u) PROVE Stages'
  <2>1. CASE SendProbe(u)
    BY <1>1, <2>1 DEF SendProbe, AcquireTracker, Stages
  <2>2. CASE MemWrite(u)
    BY <1>1, <2>2 DEF MemWrite, AcquireTracker, Stages
  <2>3. CASE MemRead(u)
    BY <1>1, <2>3 DEF MemRead, AcquireTracker, AfterGrant, Stages
  <2> QED
    BY <1>6, <2>1, <2>2, <2>3
<1>7. CASE \E u \in AcquireIds : ForwardGrant(u) \/ MakeGrant(u)
  BY <1>1, <1>7 DEF ForwardGrant, MakeGrant, AcquireTracker, AfterGrant, Stages
<1>8. (\E c \in Clients : TakeVoluntaryRelease(c)) \/ VoluntaryStep => UNCHANGED tracker
  BY DEF TakeVoluntaryRelease, VoluntaryStep, VoluntaryWrite, VoluntaryAck
<1> QED
  BY <1>2, <1>3, <1>4, <1>5, <1>6, <1>7, <1>8
     DEF Next, OfL2, OfTile, OfHtif, L2Step, TakeRelease, TrackerStep, l2vars, vars

(* The steps that change the grant channel.                                *)
LEMMA GrantSteps ==
    ASSUME [Next]_vars
    PROVE  \/ UNCHANGED grant
           \/ \E t \in AcquireIds : ForwardGrant(t) \/ MakeGrant(t)
           \/ VoluntaryAck
           \/ \E c \in Tiles : MshrWbResp(c) \/ MshrRefill(c)
           \/ HtifGrant
<1> USE DEF channels
<1>1. CASE L2Step
  <2>1. CASE \E c \in Clients : AcceptAcquire(c) \/ TakeGrantAck(c)
    BY <2>1 DEF AcceptAcquire, TakeGrantAck
  <2>2. CASE VoluntaryStep \/ \E t \in AcquireIds : TrackerStep(t)
    BY <2>2 DEF VoluntaryStep, VoluntaryWrite, TrackerStep, SendProbe, MemWrite, MemRead
  <2>3. CASE \E c \in Clients : TakeRelease(c)
    BY <2>3 DEF TakeRelease, TakeProbeRelease, TakeVoluntaryRelease
  <2> QED
    BY <1>1, <2>1, <2>2, <2>3 DEF L2Step
<1>2. ASSUME NEW c \in Tiles, TileStep(c)
      PROVE  UNCHANGED grant \/ MshrWbResp(c) \/ MshrRefill(c)
  <2>1. CASE CoreRequest(c) \/ MshrFinish(c) \/ LrscExpire(c)
    <3>1. CoreRequest(c) =>
            \E cmd, a, v : CpuHit(c, cmd, a, v) \/ PrimaryMiss(c, cmd, a, v) \/ SecondaryMiss(c, cmd, a, v)
      BY DEF CoreRequest
    <3>2. ASSUME NEW cmd, NEW a, NEW v, CpuHit(c, cmd, a, v) \/ PrimaryMiss(c, cmd, a, v) \/ SecondaryMiss(c, cmd, a, v)
          PROVE  UNCHANGED grant
      BY <3>2 DEF CpuHit, PrimaryMiss, SecondaryMiss
    <3>3. MshrFinish(c) \/ LrscExpire(c) => UNCHANGED grant
      BY DEF MshrFinish, LrscExpire
    <3> QED
      BY <2>1, <3>1, <3>2, <3>3
  <2>2. CASE MshrStep(c)
    BY <2>2 DEF MshrStep, MshrWbReq, MshrMetaClear, MshrRefillReq, MshrMetaWrite, MshrReplay, MshrDrained
  <2>3. CASE ProbeStep(c) \/ WbStep(c)
    BY <2>3 DEF ProbeStep, WbStep, ProbeRelease, ProbeAccept, ProbeLookup, ProbeWbReq, ProbeWbResp, ProbeMetaWrite, WbRead, WbRelease
  <2> QED
    BY <1>2, <2>1, <2>2, <2>3 DEF TileStep
<1>3. CASE HtifStep
  BY <1>3 DEF HtifStep, HostRequest, HtifRequest, HtifFinish
<1> QED
  BY <1>1, <1>2, <1>3 DEF Next, OfL2, OfTile, OfHtif, vars

(* A grant that is under way was there, or was sent by this step.          *)
LEMMA SendGrant ==
    ASSUME TypeOK, Lengths, NEW c \in Clients, NEW m \in GrantMsg(TrackerIds), GrantRoom(c), grant' = Send(grant, c, m),
           NEW t \in AcquireIds, NEW d \in Clients, GrantOf(t, d)'
    PROVE  \/ d # c /\ GrantOf(t, d) /\ Head(grant'[d]) = Head(grant[d])
           \/ d = c /\ Head(grant'[d]) = m /\ m.master_xact_id = t /\ requiresAckForGrant(m.g_type)
<1>1. grant \in [Clients -> Seq(GrantMsg(TrackerIds))]
  BY DEF TypeOK, ChannelsTypeOK
<1>2. grant[c] = << >>
  BY <1>1 DEF GrantRoom, GrantEntries
<1>3. (\A e \in Clients : e # c => grant'[e] = grant[e]) /\ Head(grant'[c]) = m
  BY <1>1, <1>2, SendFirst
<1> QED
  BY <1>3 DEF GrantOf

(* A grant that is under way was there, and was not the one taken.         *)
LEMMA ReceiveGrant ==
    ASSUME TypeOK, Lengths, NEW c \in Clients, grant[c] # << >>, grant' = Receive(grant, c),
           NEW t \in AcquireIds, NEW d \in Clients, GrantOf(t, d)'
    PROVE  d # c /\ GrantOf(t, d) /\ Head(grant'[d]) = Head(grant[d])
<1>1. grant \in [Clients -> Seq(GrantMsg(TrackerIds))]
  BY DEF TypeOK, ChannelsTypeOK
<1>2. (\A e \in Clients : e # c => grant'[e] = grant[e]) /\ grant'[c] = << >>
  BY <1>1, ReceiveOnly DEF Lengths
<1> QED
  BY <1>2 DEF GrantOf

(* Where a grant under way comes from.                                     *)
LEMMA GrantChange ==
    ASSUME Context, [Next]_vars, NEW c \in Clients, NEW t \in AcquireIds, GrantOf(t, c)'
    PROVE  \/ GrantOf(t, c) /\ Head(grant'[c]) = Head(grant[c])
           \/ /\ client(t) = c /\ ~Idle(t) /\ Head(grant'[c]).g_type = grant_type(t)
              /\ \/ ForwardGrant(t) /\ \E r \in outer : r.id = t /\ Head(grant'[c]).data = r.data
                 \/ MakeGrant(t) /\ tracker[t].a_type = "writeUncached"
<1> USE DEF Context, TokenContext, TokenInv, ProbeInv
<1>1. CASE UNCHANGED grant
  BY <1>1 DEF GrantOf
<1>2. ASSUME NEW u \in AcquireIds, ForwardGrant(u) \/ MakeGrant(u)
      PROVE  \/ GrantOf(t, c) /\ Head(grant'[c]) = Head(grant[c])
             \/ /\ client(t) = c /\ ~Idle(t) /\ Head(grant'[c]).g_type = grant_type(t)
                /\ \/ ForwardGrant(t) /\ \E r \in outer : r.id = t /\ Head(grant'[c]).data = r.data
                   \/ MakeGrant(t) /\ tracker[t].a_type = "writeUncached"
  <2>1. client(u) \in Clients /\ grant_type(u) \in GrantTypes /\ u \in TrackerIds /\ SomeValue \in Values
        /\ outer \subseteq [id : AcquireIds, data : Values]
    BY TrackerFields, ClientSets, Constants DEF TypeOK, L2TypeOK
  <2>2. PICK e \in Clients : e = client(u)
    BY <2>1
  <2>3. CASE ForwardGrant(u)
    <3>1. PICK r \in outer : r.id = u /\ grant' = Send(grant, e, [g_type |-> grant_type(u), master_xact_id |-> u, data |-> r.data])
      BY <2>2, <2>3 DEF ForwardGrant, client
    <3>2. PICK m \in GrantMsg(TrackerIds) : m = [g_type |-> grant_type(u), master_xact_id |-> u, data |-> r.data]
      BY <2>1 DEF GrantMsg
    <3>3. grant' = Send(grant, e, m) /\ GrantRoom(e)
      BY <2>2, <2>3, <3>1, <3>2 DEF ForwardGrant, client
    <3>4. CASE c = e
      <4>1. Head(grant'[c]) = m /\ t = u
        BY <3>2, <3>3, <3>4, SendGrant
      <4> QED
        BY <2>2, <2>3, <3>1, <3>2, <3>4, <4>1 DEF ForwardGrant, Idle
    <3>5. CASE c # e
      BY <3>3, <3>5, SendGrant
    <3> QED
      BY <3>4, <3>5
  <2>4. CASE MakeGrant(u)
    <3>2. PICK m \in GrantMsg(TrackerIds) : m = [g_type |-> grant_type(u), master_xact_id |-> u, data |-> SomeValue]
      BY <2>1 DEF GrantMsg
    <3>3. grant' = Send(grant, e, m) /\ GrantRoom(e) /\ tracker[u].a_type = "writeUncached"
      BY <2>2, <2>4, <3>2 DEF MakeGrant, client, Stages
    <3>4. CASE c = e
      <4>1. Head(grant'[c]) = m /\ t = u
        BY <3>2, <3>3, <3>4, SendGrant
      <4> QED
        BY <2>2, <2>4, <3>2, <3>3, <3>4, <4>1 DEF MakeGrant, Idle
    <3>5. CASE c # e
      BY <3>3, <3>5, SendGrant
    <3> QED
      BY <3>4, <3>5
  <2> QED
    BY <1>2, <2>3, <2>4
<1>3. CASE VoluntaryAck
  <2>1. voluntary.init_client_id \in Clients /\ 0 \in TrackerIds /\ SomeValue \in Values
    BY Constants DEF TypeOK, L2TypeOK, VoluntaryReleaseTracker
  <2>2. PICK e \in Clients : e = voluntary.init_client_id
    BY <2>1
  <2>3. PICK m \in GrantMsg(TrackerIds) : m = [g_type |-> "voluntaryAck", master_xact_id |-> 0, data |-> SomeValue]
    BY <2>1 DEF GrantMsg, GrantTypes
  <2>4. grant' = Send(grant, e, m) /\ GrantRoom(e)
    BY <1>3, <2>2, <2>3 DEF VoluntaryAck
  <2> QED
    BY <2>3, <2>4, SendGrant DEF requiresAckForGrant
<1>4. ASSUME NEW e \in Tiles, MshrWbResp(e) \/ MshrRefill(e)
      PROVE  GrantOf(t, c) /\ Head(grant'[c]) = Head(grant[c])
  <2>1. grant[e] # << >> /\ grant' = Receive(grant, e) /\ e \in Clients
    BY <1>4, ClientSets DEF MshrWbResp, MshrRefill
  <2> QED
    BY <2>1, ReceiveGrant
<1>5. CASE HtifGrant
  <2>1. grant[HTIF] # << >> /\ grant' = Receive(grant, HTIF) /\ HTIF \in Clients
    BY <1>5, ClientSets DEF HtifGrant
  <2> QED
    BY <2>1, ReceiveGrant
<1> QED
  BY <1>1, <1>2, <1>3, <1>4, <1>5, GrantSteps

(* A tracker keeps what it was asked for until its grant is acknowledged,  *)
(* so the grant has the right kind.                                        *)
LEMMA GrantsRightStep == ASSUME Context, [Next]_vars PROVE GrantsRight'
<1> USE DEF Context, TokenContext, TokenInv, ProbeInv
<1> SUFFICES ASSUME NEW c \in Clients, NEW t \in AcquireIds, GrantOf(t, c)'
             PROVE  Head(grant'[c]).g_type = grant_type(t)'
  BY DEF GrantsRight
<1>1. Tokens'
  BY TokensStep
<1>2. BusyFor(t, c)'
  BY <1>1, ClientSets DEF Tokens, OnePlace
<1>3. ~Idle(t)'
  BY <1>2 DEF BusyFor, Idle
<1>4. ~Idle(t) /\ Head(grant'[c]).g_type = grant_type(t)
  BY GrantChange, ClientSets DEF GrantsRight, OnePlace, BusyFor, Idle
<1>5. grant_type(t)' = grant_type(t)
  BY <1>3, <1>4, TrackerKept DEF grant_type
<1> QED
  BY <1>4, <1>5

-----------------------------------------------------------------------------
(* Steps that leave the transactions that probe, or the probers, alone.    *)
SameTransactions ==
    \A t \in AcquireIds :
        /\ tracker'[t].state = "s_probe" <=> tracker[t].state = "s_probe"
        /\ tracker[t].state = "s_probe" =>
              /\ tracker'[t].addr = tracker[t].addr /\ tracker'[t].a_type = tracker[t].a_type
              /\ tracker'[t].release_count = tracker[t].release_count
SameTrackers == SameTransactions /\ \A t \in AcquireIds : tracker'[t].probe_flags = tracker[t].probe_flags
SameProbers ==
    \A c \in Tiles :
        /\ Probing(c)' <=> Probing(c)
        /\ Probing(c) => /\ prober'[c].addr = prober[c].addr /\ prober'[c].p_type = prober[c].p_type
                         /\ prober'[c].master_xact_id = prober[c].master_xact_id
SameToAnswer == \A t \in AcquireIds, c \in Tiles : ToAnswer(t, c)' <=> ToAnswer(t, c)
SameAnswer == \A t \in AcquireIds, c \in Tiles : Answer(t, c)' <=> Answer(t, c)

FewerProbers ==
    \A c \in Tiles : Probing(c)' =>
        /\ Probing(c) /\ prober'[c].addr = prober[c].addr /\ prober'[c].p_type = prober[c].p_type
        /\ prober'[c].master_xact_id = prober[c].master_xact_id

\* The transactions that somebody has still to answer go on asking.
StillAsked ==
    \A t \in AcquireIds :
        /\ tracker'[t].probe_flags = tracker[t].probe_flags
        /\ (\E d \in Tiles : ToAnswer(t, d)) =>
              (\A a : ProbesFor(t, a) => ProbesFor(t, a)') /\ probe_type(t)' = probe_type(t)

(* A step that sends no probe, when the transactions still ask for what    *)
(* they did.                                                               *)
LEMMA ProbesSentKept ==
    ASSUME ProbesSent, StillAsked, FewerProbers, UNCHANGED probe
    PROVE  ProbesSent'
<1>1. \A t \in AcquireIds : /\ tracker'[t].probe_flags = tracker[t].probe_flags
                            /\ \A c \in Tiles : /\ Flagged(t, c)' <=> Flagged(t, c)
                                                /\ ProbeIn(t, c)' <=> ProbeIn(t, c)
                                                /\ ProbedBy(t, c)' => ProbedBy(t, c)
  BY DEF StillAsked, FewerProbers, Flagged, ProbeIn, ProbedBy
<1>2. \A t \in AcquireIds, c \in Tiles : ToAnswer(t, c) =>
         (\A a : ProbesFor(t, a) => ProbesFor(t, a)') /\ probe_type(t)' = probe_type(t)
  BY DEF StillAsked
<1>3. \A c \in Tiles : Probing(c)' =>
                             /\ Probing(c) /\ prober'[c].addr = prober[c].addr /\ prober'[c].p_type = prober[c].p_type
                             /\ prober'[c].master_xact_id = prober[c].master_xact_id
  BY DEF FewerProbers
<1>4. ASSUME NEW t \in AcquireIds
      PROVE  tracker'[t].probe_flags \subseteq Tiles /\ (tracker'[t].probe_flags # {} => tracker'[t].state = "s_probe")
  <2>1. tracker'[t].probe_flags \subseteq Tiles
    BY <1>1 DEF ProbesSent
  <2>2. ASSUME NEW d \in tracker'[t].probe_flags PROVE tracker'[t].state = "s_probe"
    <3>1. d \in Tiles /\ Flagged(t, d) /\ ToAnswer(t, d) /\ tracker[t].state = "s_probe"
      BY <1>1, <2>1 DEF Flagged, ToAnswer, ProbesSent
    <3>2. ProbesFor(t, tracker[t].addr)
      BY <3>1 DEF ProbesFor
    <3>3. PICK a : a = tracker[t].addr
      OBVIOUS
    <3>4. ProbesFor(t, a)'
      BY <1>2, <3>1, <3>2, <3>3
    <3> QED
      BY <3>4 DEF ProbesFor
  <2> QED
    BY <2>1, <2>2
<1>5. ASSUME NEW c \in Tiles, NEW t \in AcquireIds, NEW i \in DOMAIN probe'[c], probe'[c][i].master_xact_id = t
      PROVE  ProbesFor(t, probe[c][i].addr)' /\ probe'[c][i].p_type = probe_type(t)' /\ ~Flagged(t, c)'
  <2>1. ProbesFor(t, probe[c][i].addr) /\ probe[c][i].p_type = probe_type(t) /\ ~Flagged(t, c)
    BY <1>5 DEF ProbesSent
  <2>2. PICK a : a = probe[c][i].addr /\ a = probe'[c][i].addr
    OBVIOUS
  <2>3. ToAnswer(t, c)
    BY <1>5 DEF ToAnswer, ProbeIn
  <2>4. ProbesFor(t, a)' /\ probe_type(t)' = probe_type(t)
    BY <1>2, <2>1, <2>2, <2>3
  <2> QED
    BY <1>1, <2>1, <2>2, <2>4 DEF ProbesFor
<1>6. ASSUME NEW c \in Tiles, NEW t \in AcquireIds, ProbedBy(t, c)'
      PROVE  /\ ProbesFor(t, prober[c].addr)' /\ prober'[c].p_type = probe_type(t)'
             /\ ~Flagged(t, c)' /\ ~ProbeIn(t, c)'
  <2>1. Probing(c)' /\ ProbedBy(t, c) /\ ToAnswer(t, c)
    BY <1>1, <1>6 DEF ProbedBy, ToAnswer
  <2>2. ProbesFor(t, prober[c].addr) /\ prober[c].p_type = probe_type(t) /\ ~Flagged(t, c) /\ ~ProbeIn(t, c)
    BY <2>1 DEF ProbesSent
  <2>3. PICK a : a = prober[c].addr /\ a = prober'[c].addr
    BY <1>3, <2>1
  <2>4. ProbesFor(t, a)' /\ probe_type(t)' = probe_type(t)
    BY <1>2, <2>1, <2>2, <2>3
  <2> QED
    BY <1>1, <1>3, <2>1, <2>2, <2>3, <2>4 DEF ProbesFor
<1>7. \A c \in Tiles : Probing(c)' => prober'[c].master_xact_id \in AcquireIds
  BY <1>3 DEF ProbesSent
<1>8. /\ probe'[HTIF] = << >>
      /\ \A c \in Tiles : \A i \in DOMAIN probe'[c] :
          /\ probe'[c][i].master_xact_id \in AcquireIds
          /\ \A j \in DOMAIN probe'[c] : probe'[c][i].master_xact_id = probe'[c][j].master_xact_id => i = j
  BY DEF ProbesSent
<1> QED
  BY <1>4, <1>5, <1>6, <1>7, <1>8 DEF ProbesSent

(* Transactions that a step leaves alone still ask for what they did.      *)
LEMMA SameAsked == ASSUME ProbesSent, SameTrackers PROVE StillAsked
<1> SUFFICES ASSUME NEW t \in AcquireIds, NEW d \in Tiles, ToAnswer(t, d)
             PROVE  (\A a : ProbesFor(t, a) => ProbesFor(t, a)') /\ probe_type(t)' = probe_type(t)
  BY DEF SameTrackers, StillAsked
<1>1. tracker[t].state = "s_probe"
  BY DEF ToAnswer, Flagged, ProbeIn, ProbesSent, ProbesFor
<1> QED
  BY <1>1 DEF SameTrackers, SameTransactions, ProbesFor, probe_type

(* A step that leaves transactions and probers alone.                      *)
LEMMA ProbesSentFrame ==
    ASSUME ProbesSent, SameTrackers, SameProbers, UNCHANGED probe
    PROVE  ProbesSent' /\ SameToAnswer
<1>1. FewerProbers
  BY DEF FewerProbers, SameProbers
<1>2. SameToAnswer
  BY DEF SameTransactions, SameTrackers, SameProbers, SameToAnswer, ToAnswer, Flagged, ProbeIn, ProbedBy
<1> QED
  BY <1>1, <1>2, SameAsked, ProbesSentKept

(* Answers, one release queue at a time.                                   *)
AnswersAt(c) ==
    /\ \A i \in DOMAIN release[c] : ~isVoluntary(release[c][i].r_type) =>
          /\ release[c][i].master_xact_id \in AcquireIds
          /\ \A j \in DOMAIN release[c] :
               ~isVoluntary(release[c][j].r_type) /\ release[c][i].master_xact_id = release[c][j].master_xact_id =>
                   i = j
    /\ \A t \in AcquireIds : \A i \in DOMAIN release[c] :
          ~isVoluntary(release[c][i].r_type) /\ release[c][i].master_xact_id = t =>
          /\ ProbesFor(t, release[c][i].addr) /\ ~ToAnswer(t, c)
          /\ \E d \in BOOLEAN : release[c][i].r_type = ReleaseOnProbe(probe_type(t), d)

\* What an answer under way depends on.
Asked(t, c) == /\ \A a \in Addrs : ProbesFor(t, a) => ProbesFor(t, a)'
               /\ probe_type(t)' = probe_type(t)
               /\ ToAnswer(t, c)' => ToAnswer(t, c)

(* The answers, tile by tile.                                              *)
LEMMA AnswersEach == AnswersSent <=> \A c \in Tiles : AnswersAt(c)
<1>1. AnswersSent => \A c \in Tiles : AnswersAt(c)
  BY DEF AnswersSent, AnswersAt
<1>2. (\A c \in Tiles : AnswersAt(c)) => AnswersSent
  BY DEF AnswersSent, AnswersAt
<1> QED
  BY <1>1, <1>2

(* The answers after a step, tile by tile.                                 *)
LEMMA AnswersEachNext == ASSUME \A c \in Tiles : AnswersAt(c)' PROVE AnswersSent'
<1>1. (AnswersSent <=> \A c \in Tiles : AnswersAt(c))'
  BY AnswersEach, PTL
<1> QED
  BY <1>1

(* The fields of a release.                                                *)
LEMMA ReleaseFields ==
    ASSUME TypeOK, NEW c \in Tiles, NEW i \in DOMAIN release[c]
    PROVE  release[c][i] \in ReleaseMsg(TrackerIds) /\ release[c][i].addr \in Addrs
<1>1. release[c] \in Seq(ReleaseMsg(TrackerIds))
  BY ClientSets DEF TypeOK, ChannelsTypeOK
<1>2. release[c][i] \in ReleaseMsg(TrackerIds)
  BY <1>1
<1> QED
  BY <1>2 DEF ReleaseMsg

(* A tile whose release queue stays.                                       *)
LEMMA AnswersAtFrame ==
    ASSUME TypeOK, NEW c \in Tiles, AnswersAt(c), release'[c] = release[c],
           \A t \in AcquireIds : Answer(t, c) => Asked(t, c)
    PROVE  AnswersAt(c)' /\ \A t \in AcquireIds : Answer(t, c)' <=> Answer(t, c)
<1>1. ASSUME NEW t \in AcquireIds, NEW i \in DOMAIN release'[c],
             ~isVoluntary(release'[c][i].r_type), release'[c][i].master_xact_id = t
      PROVE  /\ ProbesFor(t, release[c][i].addr)' /\ ~ToAnswer(t, c)'
             /\ \E d \in BOOLEAN : release'[c][i].r_type = ReleaseOnProbe(probe_type(t)', d)
  <2>1. Asked(t, c) /\ release[c][i].addr \in Addrs
    BY <1>1, ReleaseFields DEF Answer
  <2>2. /\ ProbesFor(t, release[c][i].addr) /\ ~ToAnswer(t, c)
        /\ \E d \in BOOLEAN : release[c][i].r_type = ReleaseOnProbe(probe_type(t), d)
    BY <1>1 DEF AnswersAt
  <2>3. ProbesFor(t, release[c][i].addr)'
    BY <2>1, <2>2 DEF Asked, ProbesFor
  <2> QED
    BY <2>1, <2>2, <2>3 DEF Asked
<1>2. \A i \in DOMAIN release'[c] : ~isVoluntary(release'[c][i].r_type) =>
          /\ release'[c][i].master_xact_id \in AcquireIds
          /\ \A j \in DOMAIN release'[c] :
               ~isVoluntary(release'[c][j].r_type) /\ release'[c][i].master_xact_id = release'[c][j].master_xact_id =>
                   i = j
  BY DEF AnswersAt
<1>3. \A t \in AcquireIds : Answer(t, c)' <=> Answer(t, c)
  BY DEF Answer
<1> QED
  BY <1>1, <1>2, <1>3 DEF AnswersAt

(* The agent takes the first release: one answer less, or none.            *)
LEMMA AnswerTaken ==
    ASSUME NEW c \in Tiles, AnswersAt(c), ReleaseTaken(c), NEW t \in AcquireIds
    PROVE  /\ Answer(t, c)' => Answer(t, c)
           /\ Answer(t, c) => Answer(t, c)' \/ (~isVoluntary(release[c][1].r_type) /\ t = release[c][1].master_xact_id)
           /\ Answer(t, c)' => isVoluntary(release[c][1].r_type) \/ t # release[c][1].master_xact_id
<1>1. \A i \in DOMAIN release'[c] : /\ i \in Nat /\ i + 1 \in DOMAIN release[c] /\ i + 1 # 1
                                    /\ release'[c][i] = release[c][i + 1]
  BY DEF ReleaseTaken
<1>2. 1 \in DOMAIN release[c]
  BY DEF ReleaseTaken
<1>3. Answer(t, c)' => Answer(t, c)
  BY <1>1 DEF Answer
<1>4. Answer(t, c) => Answer(t, c)' \/ (~isVoluntary(release[c][1].r_type) /\ t = release[c][1].master_xact_id)
  BY DEF Answer, ReleaseTaken
<1>5. Answer(t, c)' => isVoluntary(release[c][1].r_type) \/ t # release[c][1].master_xact_id
  BY <1>1, <1>2 DEF Answer, AnswersAt
<1> QED
  BY <1>3, <1>4, <1>5

(* The answers that are left are still the right ones.                     *)
LEMMA AnswersAtTaken ==
    ASSUME TypeOK, NEW c \in Tiles, AnswersAt(c), ReleaseTaken(c),
           \A t \in AcquireIds : Answer(t, c)' => Asked(t, c)
    PROVE  AnswersAt(c)'
<1>1. \A i \in DOMAIN release'[c] : /\ i \in Nat /\ i + 1 \in DOMAIN release[c]
                                    /\ release'[c][i] = release[c][i + 1]
  BY DEF ReleaseTaken
<1>2. ASSUME NEW t \in AcquireIds, NEW i \in DOMAIN release'[c],
             ~isVoluntary(release'[c][i].r_type), release'[c][i].master_xact_id = t
      PROVE  /\ ProbesFor(t, release[c][i].addr)' /\ ~ToAnswer(t, c)'
             /\ \E d \in BOOLEAN : release'[c][i].r_type = ReleaseOnProbe(probe_type(t)', d)
  <2>1. PICK k \in DOMAIN release[c] : release'[c][i] = release[c][k]
    BY <1>1
  <2>2. Asked(t, c) /\ release[c][k].addr \in Addrs
    BY <1>2, ReleaseFields DEF Answer
  <2>3. /\ ProbesFor(t, release[c][k].addr) /\ ~ToAnswer(t, c)
        /\ \E d \in BOOLEAN : release[c][k].r_type = ReleaseOnProbe(probe_type(t), d)
    BY <1>2, <2>1 DEF AnswersAt
  <2>4. ProbesFor(t, release[c][i].addr)'
    BY <2>1, <2>2, <2>3 DEF Asked, ProbesFor
  <2> QED
    BY <2>1, <2>2, <2>3, <2>4 DEF Asked
<1>3. ASSUME NEW i \in DOMAIN release'[c], ~isVoluntary(release'[c][i].r_type)
      PROVE  /\ release'[c][i].master_xact_id \in AcquireIds
             /\ \A j \in DOMAIN release'[c] :
                  ~isVoluntary(release'[c][j].r_type) /\ release'[c][i].master_xact_id = release'[c][j].master_xact_id =>
                      i = j
  <2>1. release'[c][i].master_xact_id \in AcquireIds
    BY <1>1, <1>3 DEF AnswersAt
  <2>2. ASSUME NEW j \in DOMAIN release'[c], ~isVoluntary(release'[c][j].r_type),
               release'[c][i].master_xact_id = release'[c][j].master_xact_id
        PROVE  i = j
    <3>1. /\ i \in Nat /\ j \in Nat /\ i + 1 \in DOMAIN release[c] /\ j + 1 \in DOMAIN release[c]
          /\ release'[c][i] = release[c][i + 1] /\ release'[c][j] = release[c][j + 1]
      BY <1>1
    <3>2. i + 1 = j + 1
      BY <1>3, <2>2, <3>1 DEF AnswersAt
    <3> QED
      BY <3>1, <3>2
  <2> QED
    BY <2>1, <2>2
<1> QED
  BY <1>2, <1>3 DEF AnswersAt

(* A tile answers: one answer more, to a transaction that it has not       *)
(* answered.                                                               *)
LEMMA AnswersAtAdded ==
    ASSUME TypeOK, NEW c \in Tiles, NEW n, NEW m \in ReleaseMsg(TrackerIds), AnswersAt(c), ReleaseAdded(c, n, m),
           \A t \in AcquireIds : Answer(t, c) => Asked(t, c),
           ~isVoluntary(m.r_type) =>
             \E t \in AcquireIds : 
               /\ m.master_xact_id = t /\ ~Answer(t, c) /\ ProbesFor(t, m.addr)' /\ ~ToAnswer(t, c)'
               /\ \E d \in BOOLEAN : m.r_type = ReleaseOnProbe(probe_type(t)', d)
    PROVE  /\ AnswersAt(c)'
           /\ \A t \in AcquireIds : Answer(t, c)' <=> Answer(t, c) \/ (~isVoluntary(m.r_type) /\ t = m.master_xact_id)
<1>1. /\ n \notin DOMAIN release[c]
      /\ \A i : i \in DOMAIN release'[c] <=> i \in DOMAIN release[c] \/ i = n
      /\ \A i \in DOMAIN release[c] : release'[c][i] = release[c][i]
      /\ release'[c][n] = m
  BY DEF ReleaseAdded
<1>2. \A t \in AcquireIds : Answer(t, c)' <=> Answer(t, c) \/ (~isVoluntary(m.r_type) /\ t = m.master_xact_id)
  BY <1>1 DEF Answer
<1>3. ASSUME NEW t \in AcquireIds, NEW i \in DOMAIN release'[c],
             ~isVoluntary(release'[c][i].r_type), release'[c][i].master_xact_id = t
      PROVE  /\ ProbesFor(t, release[c][i].addr)' /\ ~ToAnswer(t, c)'
             /\ \E d \in BOOLEAN : release'[c][i].r_type = ReleaseOnProbe(probe_type(t)', d)
  <2>1. CASE i = n
    BY <1>1, <1>3, <2>1 DEF ProbesFor
  <2>2. CASE i # n
    <3>1. i \in DOMAIN release[c] /\ release'[c][i] = release[c][i]
      BY <1>1, <2>2
    <3>2. Asked(t, c) /\ release[c][i].addr \in Addrs
      BY <1>3, <3>1, ReleaseFields DEF Answer
    <3>3. /\ ProbesFor(t, release[c][i].addr) /\ ~ToAnswer(t, c)
          /\ \E d \in BOOLEAN : release[c][i].r_type = ReleaseOnProbe(probe_type(t), d)
      BY <1>3, <3>1 DEF AnswersAt
    <3>4. ProbesFor(t, release[c][i].addr)'
      BY <3>1, <3>2, <3>3 DEF Asked, ProbesFor
    <3> QED
      BY <3>1, <3>2, <3>3, <3>4 DEF Asked
  <2> QED
    BY <2>1, <2>2
<1>4. \A i \in DOMAIN release'[c] : ~isVoluntary(release'[c][i].r_type) => release'[c][i].master_xact_id \in AcquireIds
  BY <1>1 DEF AnswersAt
<1>5. ASSUME NEW i \in DOMAIN release'[c], ~isVoluntary(release'[c][i].r_type),
             NEW j \in DOMAIN release'[c], ~isVoluntary(release'[c][j].r_type),
             release'[c][i].master_xact_id = release'[c][j].master_xact_id
      PROVE  i = j
  <2>1. CASE i # n /\ j # n
    BY <1>1, <1>5, <2>1 DEF AnswersAt
  <2>2. CASE i = n /\ j # n
    BY <1>1, <1>5, <2>2 DEF Answer
  <2>3. CASE i # n /\ j = n
    BY <1>1, <1>5, <2>3 DEF Answer
  <2> QED
    BY <2>1, <2>2, <2>3
<1> QED
  BY <1>2, <1>3, <1>4, <1>5 DEF AnswersAt

ProbeTokens == ProbesSent /\ AnswersSent /\ AnswersCounted
SamePending == \A t \in AcquireIds, c \in Tiles : Pending(t, c)' <=> Pending(t, c)

(* The count stays right when nobody answers and nobody is counted.        *)
LEMMA CountedFrame ==
    ASSUME AnswersCounted, SameTransactions, SamePending
    PROVE  AnswersCounted'
<1> SUFFICES ASSUME NEW t \in AcquireIds, tracker'[t].state = "s_probe"
             PROVE  /\ tracker'[t].release_count = Cardinality({c \in Tiles : Pending(t, c)'})
                    /\ \E c \in Tiles : Pending(t, c)'
  BY DEF AnswersCounted
<1>1. /\ tracker[t].state = "s_probe" /\ tracker'[t].release_count = tracker[t].release_count
  BY DEF SameTransactions
<1>2. {c \in Tiles : Pending(t, c)'} = {c \in Tiles : Pending(t, c)}
  BY DEF SamePending
<1> QED
  BY <1>1, <1>2 DEF AnswersCounted, SamePending

(* An answer under way is for a transaction that still wants it.           *)
LEMMA AskedFrame ==
    ASSUME Context, SameTransactions, NEW c \in Tiles, NEW t \in AcquireIds, Answer(t, c), ToAnswer(t, c)' => ToAnswer(t, c)
    PROVE  Asked(t, c)
<1>1. tracker[t].state = "s_probe"
  BY DEF Context, ProbeInv, AnswersSent, Answer, ProbesFor
<1> QED
  BY <1>1 DEF SameTransactions, Asked, ProbesFor, probe_type

(* Steps that send no probe and no answer.                                 *)
LEMMA ProbeTokensFrame ==
    ASSUME Context, SameTrackers, SameProbers, UNCHANGED << probe, release >>
    PROVE  ProbeTokens'
<1> USE DEF Context, TokenContext, ProbeInv
<1>1. ProbesSent' /\ SameToAnswer
  BY ProbesSentFrame
<1>2. \A c \in Tiles, t \in AcquireIds : Answer(t, c) => Asked(t, c)
  BY <1>1, AskedFrame DEF SameTrackers, SameToAnswer
<1>3. \A c \in Tiles : AnswersAt(c)' /\ \A t \in AcquireIds : Answer(t, c)' <=> Answer(t, c)
  BY <1>2, AnswersAtFrame, AnswersEach
<1>4. SamePending
  BY <1>1, <1>3 DEF SamePending, Pending, SameToAnswer
<1>5. AnswersCounted'
  BY <1>4, CountedFrame DEF SameTrackers
<1> QED
  BY <1>1, <1>3, <1>5, AnswersEachNext DEF ProbeTokens

(* The agent takes an eviction.                                            *)
LEMMA ProbeTokensEviction ==
    ASSUME Context, NEW c \in Clients, TakeVoluntaryRelease(c), UNCHANGED dcvars
    PROVE  ProbeTokens'
<1> USE DEF Context, TokenContext, ProbeInv
<1>1. /\ UNCHANGED << tracker, probe, prober, wb >> /\ isVoluntary(Head(release[c]).r_type)
  BY DEF TakeVoluntaryRelease, dcvars
<1>2. c \in Tiles /\ ReleaseTaken(c) /\ isVoluntary(release[c][1].r_type)
  BY <1>1, TakeReleaseTakes DEF TakeRelease, ReleaseTaken
<1>3. SameTrackers /\ SameProbers
  BY <1>1 DEF SameTransactions, SameTrackers, SameProbers, Probing
<1>4. ProbesSent' /\ SameToAnswer
  BY <1>1, <1>3, ProbesSentFrame
<1>5. \A d \in Tiles, t \in AcquireIds : Answer(t, d) => Asked(t, d)
  BY <1>3, <1>4, AskedFrame DEF SameTrackers, SameToAnswer
<1>6. \A d \in Tiles : AnswersAt(d)
  BY AnswersEach
<1>7. AnswersAt(c)' /\ \A t \in AcquireIds : Answer(t, c)' <=> Answer(t, c)
  BY <1>2, <1>5, <1>6, AnswerTaken, AnswersAtTaken
<1>8. \A d \in Tiles : d # c => release'[d] = release[d]
  BY <1>2 DEF ReleaseTaken
<1>9. \A d \in Tiles : AnswersAt(d)' /\ \A t \in AcquireIds : Answer(t, d)' <=> Answer(t, d)
  BY <1>5, <1>6, <1>7, <1>8, AnswersAtFrame
<1>10. SamePending
  BY <1>4, <1>9 DEF SamePending, Pending, SameToAnswer
<1>11. AnswersCounted'
  BY <1>3, <1>10, CountedFrame DEF SameTrackers
<1> QED
  BY <1>4, <1>9, <1>11, AnswersEachNext DEF ProbeTokens

(* The eviction leaves the WritebackUnit.                                  *)
LEMMA ProbeTokensEvictionSent ==
    ASSUME Context, NEW c \in Tiles, WbRelease(c), isVoluntary(wb[c].r_type), UNCHANGED l2vars
    PROVE  ProbeTokens'
<1> USE DEF Context, TokenContext, ProbeInv
<1>1. /\ UNCHANGED << tracker, probe, prober >> /\ wb[c].state # "inactive" /\ \A d \in Tiles : d # c => wb'[d] = wb[d]
  BY TileTypes DEF WbRelease, l2vars
<1>2. PICK n \in Nat, m \in ReleaseMsg(TrackerIds) : ReleaseAdded(c, n, m) /\ m.r_type = wb[c].r_type
  BY WbReleaseAdds
<1>3. prober[c].state \in {"s_invalid", "s_meta_read"}
  BY <1>1, MachineFacts
<1>4. SameTrackers /\ SameProbers
  BY <1>1, <1>3 DEF SameTransactions, SameTrackers, SameProbers, Probing
<1>5. ProbesSent' /\ SameToAnswer
  BY <1>1, <1>4, ProbesSentFrame
<1>6. \A d \in Tiles, t \in AcquireIds : Answer(t, d) => Asked(t, d)
  BY <1>4, <1>5, AskedFrame DEF SameTrackers, SameToAnswer
<1>7. \A d \in Tiles : AnswersAt(d)
  BY AnswersEach
<1>8. AnswersAt(c)' /\ \A t \in AcquireIds : Answer(t, c)' <=> Answer(t, c)
  BY <1>2, <1>6, <1>7, AnswersAtAdded
<1>9. \A d \in Tiles : d # c => release'[d] = release[d]
  BY <1>2 DEF ReleaseAdded
<1>10. \A d \in Tiles : AnswersAt(d)' /\ \A t \in AcquireIds : Answer(t, d)' <=> Answer(t, d)
  BY <1>6, <1>7, <1>8, <1>9, AnswersAtFrame
<1>11. SamePending
  BY <1>5, <1>10 DEF SamePending, Pending, SameToAnswer
<1>12. AnswersCounted'
  BY <1>4, <1>11, CountedFrame DEF SameTrackers
<1> QED
  BY <1>5, <1>10, <1>12, AnswersEachNext DEF ProbeTokens

(* A prober answers, itself or through the WritebackUnit.                  *)
LEMMA ProbeTokensAnswer ==
    ASSUME Context, NEW c \in Tiles, NEW n, NEW m \in ReleaseMsg(TrackerIds), ReleaseAdded(c, n, m), Probing(c),
           m.addr = prober[c].addr, m.master_xact_id = prober[c].master_xact_id, ~isVoluntary(m.r_type),
           \E d \in BOOLEAN : m.r_type = ReleaseOnProbe(prober[c].p_type, d),
           UNCHANGED << tracker, probe >>, ~Probing(c)',
           \A d \in Tiles : d # c => (Probing(d)' <=> Probing(d)) /\ prober'[d] = prober[d]
    PROVE  ProbeTokens'
<1> USE DEF Context, TokenContext, ProbeInv
<1>1. PICK t \in AcquireIds : t = prober[c].master_xact_id
  BY DEF ProbesSent
<1>2. ProbedBy(t, c)
  BY <1>1 DEF ProbedBy
<1>3. ProbesFor(t, prober[c].addr) /\ prober[c].p_type = probe_type(t) /\ ~Flagged(t, c) /\ ~ProbeIn(t, c)
  BY <1>2 DEF ProbesSent
<1>4. SameTrackers /\ FewerProbers
  BY DEF SameTransactions, SameTrackers, FewerProbers
<1>5. ProbesSent'
  BY <1>4, SameAsked, ProbesSentKept
<1>6. /\ \A u \in AcquireIds, d \in Tiles : (Flagged(u, d)' <=> Flagged(u, d)) /\ (ProbeIn(u, d)' <=> ProbeIn(u, d))
      /\ \A u \in AcquireIds, d \in Tiles : ProbedBy(u, d)' <=> ProbedBy(u, d) /\ d # c
      /\ \A u \in AcquireIds : ProbedBy(u, c) <=> u = t
  BY <1>1 DEF Flagged, ProbeIn, ProbedBy
<1>7. \A u \in AcquireIds, d \in Tiles : ToAnswer(u, d)' <=> ToAnswer(u, d) /\ ~(u = t /\ d = c)
  BY <1>3, <1>6 DEF ToAnswer
<1>8. ToAnswer(t, c) /\ ~ToAnswer(t, c)'
  BY <1>2, <1>7 DEF ToAnswer
<1>9. \A d \in Tiles, u \in AcquireIds : Answer(u, d) => Asked(u, d)
  BY <1>4, <1>7, AskedFrame DEF SameTrackers
<1>10. \A d \in Tiles : AnswersAt(d)
  BY AnswersEach
<1>11. ~Answer(t, c)
  BY <1>8, <1>10 DEF Answer, AnswersAt
<1>12. ProbesFor(t, m.addr)' /\ probe_type(t)' = probe_type(t)
  BY <1>3 DEF ProbesFor, probe_type
<1>13. /\ AnswersAt(c)'
       /\ \A u \in AcquireIds : Answer(u, c)' <=> Answer(u, c) \/ u = t
  BY <1>1, <1>3, <1>8, <1>9, <1>10, <1>11, <1>12, AnswersAtAdded
<1>14. \A d \in Tiles : d # c => release'[d] = release[d]
  BY DEF ReleaseAdded
<1>15. \A d \in Tiles : d # c => AnswersAt(d)' /\ \A u \in AcquireIds : Answer(u, d)' <=> Answer(u, d)
  BY <1>9, <1>10, <1>14, AnswersAtFrame
<1>16. SamePending
  BY <1>7, <1>8, <1>13, <1>15 DEF SamePending, Pending
<1>17. AnswersCounted'
  BY <1>4, <1>16, CountedFrame DEF SameTrackers
<1> QED
  BY <1>5, <1>13, <1>15, <1>17, AnswersEachNext DEF ProbeTokens

(* The prober's answer: the probe is answered as it leaves the prober.     *)
LEMMA ProbeTokensProbeRelease ==
    ASSUME Context, NEW c \in Tiles, ProbeRelease(c), ~ProbeDirty(c), UNCHANGED l2vars
    PROVE  ProbeTokens'
<1>1. PICK n \in Nat, m \in ReleaseMsg(TrackerIds) :
             /\ ReleaseAdded(c, n, m) /\ m.addr = prober[c].addr /\ m.master_xact_id = prober[c].master_xact_id
             /\ m.r_type = ReleaseOnProbe(prober[c].p_type, FALSE) /\ ~isVoluntary(m.r_type)
  BY ProbeReleaseAdds
<1>2. UNCHANGED << tracker, probe, wb >> /\ prober[c].state = "s_release" /\ prober'[c].state \in {"s_meta_write", "s_invalid"}
      /\ \A d \in Tiles : d # c => prober'[d] = prober[d]
  <2>1. prober' = [prober EXCEPT ![c].state = "s_meta_write"] \/ prober' = [prober EXCEPT ![c] = IdleProber]
    BY DEF ProbeRelease
  <2>2. prober \in [Tiles -> ProbeUnit(TrackerIds)] /\ IdleProber.state = "s_invalid"
    BY TileTypes DEF IdleProber, Context, TokenContext
  <2>3. prober'[c].state \in {"s_meta_write", "s_invalid"} /\ \A d \in Tiles : d # c => prober'[d] = prober[d]
    BY <2>1, <2>2 DEF ProbeUnit
  <2> QED
    BY <2>3 DEF ProbeRelease, l2vars
<1>3. Probing(c) /\ ~Probing(c)' /\ \A d \in Tiles : d # c => (Probing(d)' <=> Probing(d)) /\ prober'[d] = prober[d]
  BY <1>2 DEF Probing
<1> QED
  BY <1>1, <1>2, <1>3, ProbeTokensAnswer

(* The answer, or the eviction, that the WritebackUnit sends.              *)
LEMMA ProbeTokensWbRelease ==
    ASSUME Context, NEW c \in Tiles, WbRelease(c), UNCHANGED l2vars
    PROVE  ProbeTokens'
<1>1. CASE isVoluntary(wb[c].r_type)
  BY <1>1, ProbeTokensEvictionSent
<1>2. CASE ~isVoluntary(wb[c].r_type)
  <2>1. PICK n \in Nat, m \in ReleaseMsg(TrackerIds) :
             /\ ReleaseAdded(c, n, m) /\ m.addr = wb[c].addr /\ m.master_xact_id = wb[c].master_xact_id
             /\ m.r_type = wb[c].r_type
    BY WbReleaseAdds DEF Context, TokenContext
  <2>2. UNCHANGED << tracker, probe, prober >> /\ wb[c].state = "release" /\ wb'[c].state = "inactive"
        /\ \A d \in Tiles : d # c => wb'[d] = wb[d]
    BY TileTypes DEF WbRelease, l2vars, IdleWb, Context, TokenContext
  <2>3. /\ prober[c].state = "s_writeback_resp"
        /\ wb[c].addr = prober[c].addr /\ wb[c].master_xact_id = prober[c].master_xact_id
        /\ wb[c].r_type = ReleaseOnProbe(prober[c].p_type, TRUE)
    BY <1>2, <2>2, MachineFacts DEF WritebackOk
  <2>4. Probing(c) /\ ~Probing(c)' /\ \A d \in Tiles : d # c => (Probing(d)' <=> Probing(d)) /\ prober'[d] = prober[d]
    BY <2>2, <2>3 DEF Probing
  <2> QED
    BY <1>2, <2>1, <2>2, <2>3, <2>4, ProbeTokensAnswer
<1> QED
  BY <1>1, <1>2

(* A prober takes a probe.                                                 *)
LEMMA ProbeTokensAccept ==
    ASSUME Context, NEW c \in Tiles, ProbeAccept(c), UNCHANGED l2vars
    PROVE  ProbeTokens' /\ SameToAnswer
<1> USE DEF Context, TokenContext, ProbeInv
<1>1. /\ prober[c].state = "s_invalid" /\ probe[c] # << >> /\ probe' = Receive(probe, c)
      /\ UNCHANGED << tracker, wb, release >> /\ prober'[c].state = "s_meta_read"
      /\ prober'[c].addr = Head(probe[c]).addr /\ prober'[c].p_type = Head(probe[c]).p_type
      /\ prober'[c].master_xact_id = Head(probe[c]).master_xact_id
      /\ \A d \in Tiles : d # c => prober'[d] = prober[d]
  BY TileTypes DEF ProbeAccept, IdleProber, l2vars
<1>2. probe \in [Clients -> Seq(ProbeMsg(TrackerIds))] /\ c \in Clients /\ c # HTIF /\ HTIF \in Clients /\ Tiles \subseteq Clients
  BY ClientSets DEF TypeOK, ChannelsTypeOK
<1>3. /\ \A d \in Clients : d # c => probe'[d] = probe[d]
      /\ Len(probe[c]) \in Nat /\ DOMAIN probe[c] = 1 .. Len(probe[c]) /\ DOMAIN probe'[c] = 1 .. Len(probe[c]) - 1
      /\ \A i \in DOMAIN probe'[c] : i + 1 \in DOMAIN probe[c] /\ probe'[c][i] = probe[c][i + 1]
      /\ 1 \in DOMAIN probe[c] /\ Head(probe[c]) = probe[c][1]
  BY <1>1, <1>2, ReceiveEffect
<1>4. PICK t \in AcquireIds : t = probe[c][1].master_xact_id
  BY <1>3 DEF ProbesSent
<1>5. ProbesFor(t, probe[c][1].addr) /\ probe[c][1].p_type = probe_type(t) /\ ~Flagged(t, c) /\ ProbeIn(t, c)
  BY <1>3, <1>4 DEF ProbesSent, ProbeIn
<1>6. /\ \A i \in DOMAIN probe'[c] : i \in Nat /\ i + 1 \in DOMAIN probe[c] /\ i + 1 # 1 /\ probe'[c][i] = probe[c][i + 1]
      /\ \A i \in DOMAIN probe[c] : i # 1 => \E j \in DOMAIN probe'[c] : probe'[c][j] = probe[c][i]
  <2>1. \A i \in DOMAIN probe'[c] : i \in Nat /\ i + 1 # 1
    BY <1>3
  <2>2. ASSUME NEW i \in DOMAIN probe[c], i # 1 PROVE \E j \in DOMAIN probe'[c] : probe'[c][j] = probe[c][i]
    <3>1. i - 1 \in DOMAIN probe'[c] /\ i = (i - 1) + 1
      BY <1>3, <2>2
    <3> QED
      BY <1>3, <3>1
  <2> QED
    BY <1>3, <2>1, <2>2
<1>7. ~Probing(c) /\ Probing(c)' /\ \A d \in Tiles : d # c => (Probing(d)' <=> Probing(d))
  BY <1>1 DEF Probing
<1>8. \A u \in AcquireIds : /\ ProbeIn(u, c)' <=> ProbeIn(u, c) /\ u # t
                            /\ ProbedBy(u, c)' <=> u = t
                            /\ ~ProbedBy(u, c)
  <2>1. ASSUME NEW u \in AcquireIds, ProbeIn(u, c)' PROVE ProbeIn(u, c) /\ u # t
    <3>1. PICK i \in DOMAIN probe'[c] : probe'[c][i].master_xact_id = u
      BY <2>1 DEF ProbeIn
    <3>2. i + 1 \in DOMAIN probe[c] /\ i + 1 # 1 /\ probe[c][i + 1].master_xact_id = u
      BY <1>6, <3>1
    <3>3. u # t
      BY <1>3, <1>4, <3>2 DEF ProbesSent
    <3> QED
      BY <3>2, <3>3 DEF ProbeIn
  <2>2. \A u \in AcquireIds : ProbeIn(u, c) /\ u # t => ProbeIn(u, c)'
    BY <1>4, <1>6 DEF ProbeIn
  <2> QED
    BY <1>1, <1>3, <1>4, <1>7, <2>1, <2>2 DEF ProbedBy
<1>9. \A u \in AcquireIds, d \in Tiles :
         /\ Flagged(u, d)' <=> Flagged(u, d)
         /\ d # c => (ProbeIn(u, d)' <=> ProbeIn(u, d)) /\ (ProbedBy(u, d)' <=> ProbedBy(u, d))
         /\ \A a : ProbesFor(u, a)' <=> ProbesFor(u, a)
         /\ probe_type(u)' = probe_type(u)
  BY <1>1, <1>2, <1>3, <1>7 DEF Flagged, ProbeIn, ProbedBy, ProbesFor, probe_type
<1>10. SameToAnswer
  BY <1>5, <1>8, <1>9 DEF SameToAnswer, ToAnswer
<1>11. SameTrackers
  BY <1>1 DEF SameTransactions, SameTrackers
<1>12. ASSUME NEW d \in Tiles, d # c
       PROVE  /\ \A i \in DOMAIN probe'[d] :
                   /\ probe'[d][i].master_xact_id \in AcquireIds
                   /\ \A j \in DOMAIN probe'[d] : probe'[d][i].master_xact_id = probe'[d][j].master_xact_id => i = j
              /\ \A u \in AcquireIds : \A i \in DOMAIN probe'[d] : probe'[d][i].master_xact_id = u =>
                   ProbesFor(u, probe[d][i].addr)' /\ probe'[d][i].p_type = probe_type(u)' /\ ~Flagged(u, d)'
              /\ Probing(d)' => prober'[d].master_xact_id \in AcquireIds
              /\ \A u \in AcquireIds : ProbedBy(u, d)' =>
                   /\ ProbesFor(u, prober[d].addr)' /\ prober'[d].p_type = probe_type(u)'
                   /\ ~Flagged(u, d)' /\ ~ProbeIn(u, d)'
  <2>1. probe'[d] = probe[d] /\ prober'[d] = prober[d] /\ (Probing(d)' <=> Probing(d))
    BY <1>1, <1>2, <1>3, <1>7, <1>12
  <2>2. \A u \in AcquireIds : \A i \in DOMAIN probe'[d] : probe'[d][i].master_xact_id = u =>
                   ProbesFor(u, probe[d][i].addr)' /\ probe'[d][i].p_type = probe_type(u)' /\ ~Flagged(u, d)'
    BY <1>1, <1>9, <2>1 DEF ProbesSent, ProbesFor
  <2>3. \A u \in AcquireIds : ProbedBy(u, d)' =>
                   /\ ProbesFor(u, prober[d].addr)' /\ prober'[d].p_type = probe_type(u)'
                   /\ ~Flagged(u, d)' /\ ~ProbeIn(u, d)'
    BY <1>1, <1>9, <1>12, <2>1 DEF ProbesSent, ProbesFor
  <2> QED
    BY <2>1, <2>2, <2>3 DEF ProbesSent
<1>13. /\ \A i \in DOMAIN probe'[c] :
            /\ probe'[c][i].master_xact_id \in AcquireIds
            /\ \A j \in DOMAIN probe'[c] : probe'[c][i].master_xact_id = probe'[c][j].master_xact_id => i = j
       /\ \A u \in AcquireIds : \A i \in DOMAIN probe'[c] : probe'[c][i].master_xact_id = u =>
            ProbesFor(u, probe[c][i].addr)' /\ probe'[c][i].p_type = probe_type(u)' /\ ~Flagged(u, c)'
  <2>1. ASSUME NEW i \in DOMAIN probe'[c], NEW j \in DOMAIN probe'[c], probe'[c][i].master_xact_id = probe'[c][j].master_xact_id
        PROVE  i = j
    <3>1. i + 1 = j + 1 /\ i \in Nat /\ j \in Nat
      BY <1>6, <2>1 DEF ProbesSent
    <3> QED
      BY <3>1
  <2>2. \A i \in DOMAIN probe'[c] : probe'[c][i].master_xact_id \in AcquireIds
    BY <1>6 DEF ProbesSent
  <2>3. ASSUME NEW u \in AcquireIds, NEW i \in DOMAIN probe'[c], probe'[c][i].master_xact_id = u
        PROVE  ProbesFor(u, probe[c][i].addr)' /\ probe'[c][i].p_type = probe_type(u)' /\ ~Flagged(u, c)'
    <3>1. PICK k \in DOMAIN probe[c] : probe'[c][i] = probe[c][k]
      BY <1>6
    <3>2. ProbesFor(u, probe[c][k].addr) /\ probe[c][k].p_type = probe_type(u) /\ ~Flagged(u, c)
      BY <2>3, <3>1 DEF ProbesSent
    <3> QED
      BY <1>1, <1>9, <3>1, <3>2 DEF ProbesFor
  <2> QED
    BY <2>1, <2>2, <2>3
<1>14. \A u \in AcquireIds : ProbedBy(u, c)' =>
            /\ ProbesFor(u, prober[c].addr)' /\ prober'[c].p_type = probe_type(u)'
            /\ ~Flagged(u, c)' /\ ~ProbeIn(u, c)'
  BY <1>1, <1>3, <1>5, <1>8, <1>9 DEF ProbesFor
<1>15. prober'[c].master_xact_id \in AcquireIds /\ probe'[HTIF] = << >>
  BY <1>1, <1>2, <1>3, <1>4 DEF ProbesSent
<1>16. \A u \in AcquireIds : /\ tracker'[u].probe_flags \subseteq Tiles
                             /\ tracker'[u].probe_flags # {} => tracker'[u].state = "s_probe"
  BY <1>1 DEF ProbesSent
<1>17. ProbesSent'
  BY <1>12, <1>13, <1>14, <1>15, <1>16 DEF ProbesSent
<1>18. \A d \in Tiles, u \in AcquireIds : Answer(u, d) => Asked(u, d)
  BY <1>10, <1>11, AskedFrame DEF SameTrackers, SameToAnswer
<1>19. \A d \in Tiles : AnswersAt(d)' /\ \A u \in AcquireIds : Answer(u, d)' <=> Answer(u, d)
  BY <1>1, <1>18, AnswersAtFrame, AnswersEach
<1>20. SamePending
  BY <1>10, <1>19 DEF SamePending, Pending, SameToAnswer
<1>21. AnswersCounted'
  BY <1>11, <1>20, CountedFrame DEF SameTrackers
<1> QED
  BY <1>10, <1>17, <1>19, <1>21, AnswersEachNext DEF ProbeTokens

(* The agent sends a probe.                                                *)
LEMMA ProbeTokensSend ==
    ASSUME Context, NEW t \in AcquireIds, SendProbe(t), UNCHANGED dcvars
    PROVE  ProbeTokens' /\ SameToAnswer
<1> USE DEF Context, TokenContext, ProbeInv
<1>0. tracker \in [AcquireIds -> AcquireTracker] /\ tracker[t].state = "s_probe"
  BY DEF TypeOK, L2TypeOK, SendProbe
<1>1. PICK c \in tracker[t].probe_flags :
         /\ probe' = Send(probe, c, [p_type |-> probe_type(t), addr |-> tracker[t].addr, master_xact_id |-> t])
         /\ tracker' = [tracker EXCEPT ![t].probe_flags = @ \ {c}]
  BY DEF SendProbe, probe_type
<1>2. c \in Tiles /\ c \in Clients /\ c # HTIF /\ HTIF \in Clients /\ Tiles \subseteq Clients
      /\ probe \in [Clients -> Seq(ProbeMsg(TrackerIds))]
  BY ClientSets DEF ProbesSent, TypeOK, ChannelsTypeOK
<1>3. PICK m \in ProbeMsg(TrackerIds) : m = [p_type |-> probe_type(t), addr |-> tracker[t].addr, master_xact_id |-> t]
  <2>1. probe_type(t) \in ProbeTypes
    BY PolicyType, TrackerFields DEF probe_type
  <2> QED
    BY <2>1, TrackerFields, ClientSets DEF ProbeMsg
<1>4. /\ \A d \in Clients : d # c => probe'[d] = probe[d]
      /\ Len(probe[c]) \in Nat /\ DOMAIN probe[c] = 1 .. Len(probe[c]) /\ DOMAIN probe'[c] = 1 .. Len(probe[c]) + 1
      /\ \A i \in DOMAIN probe[c] : probe'[c][i] = probe[c][i]
      /\ probe'[c][Len(probe[c]) + 1] = m
  <2>1. probe' = Send(probe, c, m)
    BY <1>1, <1>3
  <2> QED
    BY <1>2, <2>1, SendEffect
<1>5. PICK n \in Nat : /\ n \notin DOMAIN probe[c] /\ \A i : i \in DOMAIN probe'[c] <=> i \in DOMAIN probe[c] \/ i = n
                       /\ probe'[c][n] = m
  BY <1>4
<1>6. Flagged(t, c) /\ ~ProbeIn(t, c) /\ ~ProbedBy(t, c)
  BY <1>1, <1>2 DEF Flagged, ProbesSent, ProbeIn
<1>7. UNCHANGED << prober, wb, release >>
  BY DEF SendProbe, dcvars
<1>8. /\ \A u \in AcquireIds : u # t => tracker'[u] = tracker[u]
      /\ tracker'[t].state = "s_probe" /\ tracker'[t].addr = tracker[t].addr /\ tracker'[t].a_type = tracker[t].a_type
      /\ tracker'[t].release_count = tracker[t].release_count /\ tracker'[t].probe_flags = tracker[t].probe_flags \ {c}
  BY <1>0, <1>1 DEF AcquireTracker
<1>9. SameTransactions
  BY <1>0, <1>8 DEF SameTransactions
<1>10. \A u \in AcquireIds, d \in Tiles :
         /\ Flagged(u, d)' <=> Flagged(u, d) /\ ~(u = t /\ d = c)
         /\ ProbedBy(u, d)' <=> ProbedBy(u, d)
         /\ Probing(d)' <=> Probing(d)
         /\ \A a : ProbesFor(u, a)' <=> ProbesFor(u, a)
         /\ probe_type(u)' = probe_type(u)
  BY <1>0, <1>2, <1>7, <1>8 DEF Flagged, ProbedBy, Probing, ProbesFor, probe_type
<1>11. \A u \in AcquireIds, d \in Tiles : ProbeIn(u, d)' <=> ProbeIn(u, d) \/ (u = t /\ d = c)
  <2>1. \A u \in AcquireIds, d \in Tiles : d # c => (ProbeIn(u, d)' <=> ProbeIn(u, d))
    BY <1>2, <1>4 DEF ProbeIn
  <2>2. m.master_xact_id = t
    BY <1>3
  <2>3. \A u \in AcquireIds : ProbeIn(u, c)' <=> ProbeIn(u, c) \/ u = t
    BY <1>4, <1>5, <2>2 DEF ProbeIn
  <2> QED
    BY <2>1, <2>3
<1>12. SameToAnswer
  BY <1>6, <1>10, <1>11 DEF SameToAnswer, ToAnswer
<1>13. \A d \in Tiles, u \in AcquireIds : Answer(u, d) => Asked(u, d)
  BY <1>9, <1>12, AskedFrame DEF SameToAnswer
<1>14. \A d \in Tiles : AnswersAt(d)' /\ \A u \in AcquireIds : Answer(u, d)' <=> Answer(u, d)
  BY <1>7, <1>13, AnswersAtFrame, AnswersEach
<1>15. SamePending
  BY <1>12, <1>14 DEF SamePending, Pending, SameToAnswer
<1>16. AnswersCounted'
  BY <1>9, <1>15, CountedFrame
<1>17. ASSUME NEW d \in Tiles, d # c
       PROVE  /\ \A i \in DOMAIN probe'[d] :
                   /\ probe'[d][i].master_xact_id \in AcquireIds
                   /\ \A j \in DOMAIN probe'[d] : probe'[d][i].master_xact_id = probe'[d][j].master_xact_id => i = j
              /\ \A u \in AcquireIds : \A i \in DOMAIN probe'[d] : probe'[d][i].master_xact_id = u =>
                   ProbesFor(u, probe[d][i].addr)' /\ probe'[d][i].p_type = probe_type(u)' /\ ~Flagged(u, d)'
  <2>1. probe'[d] = probe[d]
    BY <1>2, <1>4, <1>17
  <2>2. ASSUME NEW u \in AcquireIds, NEW i \in DOMAIN probe'[d], probe'[d][i].master_xact_id = u
        PROVE  ProbesFor(u, probe[d][i].addr)' /\ probe'[d][i].p_type = probe_type(u)' /\ ~Flagged(u, d)'
    <3>1. ProbesFor(u, probe[d][i].addr) /\ probe[d][i].p_type = probe_type(u) /\ ~Flagged(u, d)
      BY <2>1, <2>2 DEF ProbesSent
    <3> QED
      BY <1>0, <1>8, <1>10, <1>17, <2>1, <3>1 DEF ProbesFor
  <2> QED
    BY <2>1, <2>2 DEF ProbesSent
<1>18. ASSUME NEW u \in AcquireIds, NEW i \in DOMAIN probe'[c], probe'[c][i].master_xact_id = u
       PROVE  ProbesFor(u, probe[c][i].addr)' /\ probe'[c][i].p_type = probe_type(u)' /\ ~Flagged(u, c)'
  <2>1. CASE i = n
    <3>1. u = t
      BY <1>3, <1>5, <1>18, <2>1
    <3> QED
      BY <1>2, <1>3, <1>5, <1>8, <1>10, <2>1, <3>1 DEF ProbesFor
  <2>2. CASE i # n
    <3>1. i \in DOMAIN probe[c] /\ probe'[c][i] = probe[c][i]
      BY <1>4, <1>5, <2>2
    <3>2. ProbesFor(u, probe[c][i].addr) /\ probe[c][i].p_type = probe_type(u) /\ ~Flagged(u, c)
      BY <1>2, <1>18, <3>1 DEF ProbesSent
    <3> QED
      BY <1>0, <1>2, <1>8, <1>10, <3>1, <3>2 DEF ProbesFor
  <2> QED
    BY <2>1, <2>2
<1>19. ASSUME NEW i \in DOMAIN probe'[c]
       PROVE  /\ probe'[c][i].master_xact_id \in AcquireIds
              /\ \A j \in DOMAIN probe'[c] : probe'[c][i].master_xact_id = probe'[c][j].master_xact_id => i = j
  <2>1. \A j \in DOMAIN probe[c] : probe[c][j].master_xact_id # t
    BY <1>6 DEF ProbeIn
  <2>2. \A j \in DOMAIN probe'[c] : j = n \/ (j \in DOMAIN probe[c] /\ probe'[c][j] = probe[c][j])
    BY <1>4, <1>5
  <2>3. probe'[c][n].master_xact_id = t
    BY <1>3, <1>5
  <2>4. probe'[c][i].master_xact_id \in AcquireIds
    BY <1>2, <2>2, <2>3 DEF ProbesSent
  <2> QED
    BY <1>2, <2>1, <2>2, <2>3, <2>4, SMTT(20) DEF ProbesSent
<1>20. ASSUME NEW d \in Tiles, NEW u \in AcquireIds, ProbedBy(u, d)'
       PROVE  /\ ProbesFor(u, prober[d].addr)' /\ prober'[d].p_type = probe_type(u)'
              /\ ~Flagged(u, d)' /\ ~ProbeIn(u, d)'
  <2>1. ProbedBy(u, d)
    BY <1>10, <1>20
  <2>2. ProbesFor(u, prober[d].addr) /\ prober[d].p_type = probe_type(u) /\ ~Flagged(u, d) /\ ~ProbeIn(u, d)
    BY <2>1 DEF ProbesSent
  <2> QED
    BY <1>0, <1>6, <1>7, <1>8, <1>10, <1>11, <2>1, <2>2 DEF ProbesFor
<1>21. \A d \in Tiles : Probing(d)' => prober'[d].master_xact_id \in AcquireIds
  BY <1>7, <1>10 DEF ProbesSent
<1>22. \A u \in AcquireIds : /\ tracker'[u].probe_flags \subseteq Tiles
                             /\ tracker'[u].probe_flags # {} => tracker'[u].state = "s_probe"
  BY <1>8 DEF ProbesSent
<1>23. probe'[HTIF] = << >>
  BY <1>2, <1>4 DEF ProbesSent
<1>24. ProbesSent'
  BY <1>17, <1>18, <1>19, <1>20, <1>21, <1>22, <1>23 DEF ProbesSent
<1> QED
  BY <1>12, <1>14, <1>16, <1>24, AnswersEachNext DEF ProbeTokens

-----------------------------------------------------------------------------
\* The count registers of a tracker hold the number of clients, or there is
\* one tile only, and nobody it could share with.
SharersFit == nTiles = 1 \/ nClients < CountRange

(* The count of releases of a tracker can hold the number of tiles.        *)
LEMMA CountsFit ==
    ASSUME SharersFit
    PROVE  nTiles < CountRange /\ CountRange \in Nat \ {0} /\ nTiles \in Nat \ {0}
<1>1. CASE nClients < CountRange
  BY <1>1, CountRangePositive, TileLinkAssumption DEF nClients
<1>2. CASE nTiles = 1
  <2> DEFINE S == {m \in 1 .. 2 * nClients - 1 : \E k \in 0 .. nClients : m = 2 ^ k}
  <2>1. nClients = 2 /\ 2 ^ 1 = 2
    BY <1>2 DEF nClients
  <2>2. 2 \in S
    <3>1. 2 \in 1 .. 2 * nClients - 1 /\ 1 \in 0 .. nClients
      BY <2>1
    <3>2. 2 = 2 ^ 1
      BY <2>1
    <3> QED
      BY <3>1, <3>2, Zenon
  <2>3. S \in SUBSET (0 .. 2 * nClients - 1) /\ 2 * nClients - 1 \in Nat
    BY <2>1
  <2>4. 2 <= Max(S)
    BY <2>2, <2>3, MaxMember
  <2> QED
    BY <1>2, <2>4, CountRangePositive DEF CountRange
<1> QED
  BY <1>1, <1>2 DEF SharersFit

(* Counters that wrap do not where the count fits.                         *)
LEMMA CountKept ==
    ASSUME NEW r \in Nat, NEW d \in Nat \ {0}, r < d
    PROVE  (r % d) = r /\ (r >= 1 => ((r + d - 1) % d) = r - 1)
<1>1. r % d = r
  <2>1. (0 * d + r) % d = r
    BY QuotientIs
  <2> QED
    BY <2>1
<1>2. ASSUME r >= 1 PROVE (r + d - 1) % d = r - 1
  <2>1. (1 * d + (r - 1)) % d = r - 1
    BY <1>2, QuotientIs
  <2>2. 1 * d + (r - 1) = r + d - 1
    OBVIOUS
  <2> QED
    BY <2>1, <2>2
<1> QED
  BY <1>1, <1>2

(* A transaction starts: it waits for every tile.                          *)
LEMMA ProbeTokensAcquire ==
    ASSUME Context, SharersFit, NEW c \in Clients, AcceptAcquire(c), UNCHANGED dcvars
    PROVE  ProbeTokens'
<1> USE DEF Context, TokenContext, ProbeInv
<1>1. PICK t \in AcquireIds :
             /\ Idle(t) /\ \A u \in AcquireIds : u # t => tracker'[u] = tracker[u]
             /\ tracker'[t].state = "s_probe" /\ tracker'[t].probe_flags = Tiles
             /\ tracker'[t].release_count = nTiles % CountRange
             /\ UNCHANGED << probe, release >>
  BY AcceptEffect
<1>2. UNCHANGED << prober, wb >>
  BY DEF dcvars
<1>3. \A d \in Tiles : /\ ~Flagged(t, d) /\ ~ProbeIn(t, d) /\ ~ProbedBy(t, d) /\ ~Answer(t, d) /\ Flagged(t, d)'
                       /\ ~ProbeIn(t, d)' /\ ~ProbedBy(t, d)' /\ ~Answer(t, d)'
  <2>1. tracker[t].state # "s_probe"
    BY <1>1 DEF Idle
  <2>2. \A d \in Tiles : /\ ~Flagged(t, d) /\ ~ProbeIn(t, d) /\ ~ProbedBy(t, d) /\ ~Answer(t, d)
    BY <2>1 DEF ProbesSent, AnswersSent, Flagged, ProbeIn, Answer, ProbesFor
  <2> QED
    BY <1>1, <1>2, <2>2 DEF Flagged, ProbeIn, ProbedBy, Probing, Answer
<1>4. \A d \in Tiles : (Probing(d)' <=> Probing(d)) /\ prober'[d] = prober[d]
  BY <1>2 DEF Probing
<1>5. \A u \in AcquireIds, d \in Tiles : u # t =>
        /\ Flagged(u, d)' <=> Flagged(u, d)
        /\ ProbeIn(u, d)' <=> ProbeIn(u, d)
        /\ ProbedBy(u, d)' <=> ProbedBy(u, d)
        /\ Answer(u, d)' <=> Answer(u, d)
        /\ \A a : ProbesFor(u, a)' <=> ProbesFor(u, a)
        /\ probe_type(u)' = probe_type(u)
  BY <1>1, <1>2 DEF Flagged, ProbeIn, ProbedBy, Probing, Answer, ProbesFor, probe_type
<1>6. \A u \in AcquireIds, d \in Tiles : u # t => (ToAnswer(u, d)' <=> ToAnswer(u, d)) /\ (Pending(u, d)' <=> Pending(u, d))
  BY <1>5 DEF ToAnswer, Pending
<1>7. ProbesSent'
  <2>1. \A u \in AcquireIds : /\ tracker'[u].probe_flags \subseteq Tiles
                              /\ tracker'[u].probe_flags # {} => tracker'[u].state = "s_probe"
    BY <1>1 DEF ProbesSent
  <2>2. ASSUME NEW d \in Tiles, NEW u \in AcquireIds, NEW i \in DOMAIN probe'[d], probe'[d][i].master_xact_id = u
        PROVE  ProbesFor(u, probe[d][i].addr)' /\ probe'[d][i].p_type = probe_type(u)' /\ ~Flagged(u, d)'
    <3>1. ProbeIn(u, d)' /\ u # t /\ i \in DOMAIN probe[d] /\ probe'[d] = probe[d]
      BY <1>1, <1>3, <2>2 DEF ProbeIn
    <3>2. ProbesFor(u, probe[d][i].addr) /\ probe[d][i].p_type = probe_type(u) /\ ~Flagged(u, d)
      BY <2>2, <3>1 DEF ProbesSent
    <3> QED
      BY <1>1, <1>5, <3>1, <3>2 DEF ProbesFor
  <2>3. ASSUME NEW d \in Tiles, NEW u \in AcquireIds, ProbedBy(u, d)'
        PROVE  /\ ProbesFor(u, prober[d].addr)' /\ prober'[d].p_type = probe_type(u)'
               /\ ~Flagged(u, d)' /\ ~ProbeIn(u, d)'
    <3>1. u # t /\ ProbedBy(u, d)
      BY <1>3, <1>5, <2>3
    <3>2. ProbesFor(u, prober[d].addr) /\ prober[d].p_type = probe_type(u) /\ ~Flagged(u, d) /\ ~ProbeIn(u, d)
      BY <3>1 DEF ProbesSent
    <3> QED
      BY <1>1, <1>4, <1>5, <3>1, <3>2 DEF ProbesFor
  <2>4. \A d \in Tiles : Probing(d)' => prober'[d].master_xact_id \in AcquireIds
    BY <1>4 DEF ProbesSent
  <2>5. /\ probe'[HTIF] = << >>
        /\ \A d \in Tiles : \A i \in DOMAIN probe'[d] :
            /\ probe'[d][i].master_xact_id \in AcquireIds
            /\ \A j \in DOMAIN probe'[d] : probe'[d][i].master_xact_id = probe'[d][j].master_xact_id => i = j
    BY <1>1 DEF ProbesSent
  <2> QED
    BY <2>1, <2>2, <2>3, <2>4, <2>5 DEF ProbesSent
<1>8. \A d \in Tiles : AnswersAt(d)'
  <2>1. \A d \in Tiles, u \in AcquireIds : Answer(u, d) => Asked(u, d)
    BY <1>3, <1>5, <1>6 DEF Asked
  <2> QED
    BY <1>1, <2>1, AnswersAtFrame, AnswersEach
<1>9. AnswersCounted'
  <2>1. ASSUME NEW u \in AcquireIds, u # t, tracker'[u].state = "s_probe"
        PROVE  /\ tracker'[u].release_count = Cardinality({d \in Tiles : Pending(u, d)'})
               /\ \E d \in Tiles : Pending(u, d)'
    <3>1. {d \in Tiles : Pending(u, d)'} = {d \in Tiles : Pending(u, d)}
      BY <1>6, <2>1
    <3> QED
      BY <1>1, <1>6, <2>1, <3>1 DEF AnswersCounted
  <2>2. /\ tracker'[t].release_count = Cardinality({d \in Tiles : Pending(t, d)'})
        /\ \E d \in Tiles : Pending(t, d)'
    <3>1. {d \in Tiles : Pending(t, d)'} = Tiles
      BY <1>3 DEF Pending, ToAnswer
    <3>2. Cardinality(Tiles) = nTiles /\ 0 \in Tiles
      BY FS_Interval, TileLinkAssumption DEF Tiles
    <3>3. nTiles % CountRange = nTiles
      BY CountsFit, CountKept
    <3> QED
      BY <1>1, <3>1, <3>2, <3>3
  <2> QED
    BY <2>1, <2>2 DEF AnswersCounted
<1> QED
  BY <1>7, <1>8, <1>9, AnswersEachNext DEF ProbeTokens

(* An answer is counted; the last one ends the probes.                     *)
LEMMA ProbeTokensAnswered ==
    ASSUME Context, SharersFit, NEW c \in Clients, TakeProbeRelease(c), UNCHANGED dcvars
    PROVE  ProbeTokens'
<1> USE DEF Context, TokenContext, ProbeInv
<1>1. c \in Tiles /\ ReleaseTaken(c) /\ ~isVoluntary(release[c][1].r_type) /\ Head(release[c]) = release[c][1]
      /\ 1 \in DOMAIN release[c]
  BY TakeReleaseTakes DEF TakeRelease, ReleaseTaken, TakeProbeRelease
<1>2. PICK t \in AcquireIds : t = release[c][1].master_xact_id
  BY <1>1 DEF AnswersSent
<1>3. UNCHANGED << probe, prober, wb >>
  BY DEF dcvars, TakeProbeRelease
<1>4. \A d \in Tiles : AnswersAt(d)
  BY AnswersEach
<1>5. Answer(t, c) /\ ~ToAnswer(t, c) /\ Pending(t, c) /\ tracker[t].state = "s_probe"
  BY <1>1, <1>2, <1>4 DEF Answer, AnswersAt, Pending, ProbesFor
<1>6. /\ \A u \in AcquireIds : u # t => tracker'[u] = tracker[u]
      /\ tracker'[t].a_type = tracker[t].a_type /\ tracker'[t].addr = tracker[t].addr
      /\ tracker'[t].probe_flags = tracker[t].probe_flags
      /\ tracker'[t].state = IF tracker[t].release_count = 1 THEN AfterProbes(tracker[t].a_type) ELSE "s_probe"
      /\ tracker'[t].release_count = (tracker[t].release_count + CountRange - 1) % CountRange
  BY <1>1, <1>2, TakeProbeReleaseEffect
<1>7. \A u \in AcquireIds, d \in Tiles :
        /\ Flagged(u, d)' <=> Flagged(u, d)
        /\ ProbeIn(u, d)' <=> ProbeIn(u, d)
        /\ ProbedBy(u, d)' <=> ProbedBy(u, d)
        /\ u # t => \A a : ProbesFor(u, a)' <=> ProbesFor(u, a)
        /\ probe_type(u)' = probe_type(u)
  BY <1>3, <1>6 DEF Flagged, ProbeIn, ProbedBy, Probing, ProbesFor, probe_type
<1>8. \A u \in AcquireIds, d \in Tiles : ToAnswer(u, d)' <=> ToAnswer(u, d)
  BY <1>7 DEF ToAnswer
<1>9. \A d \in Tiles : d # c => release'[d] = release[d]
  BY <1>1 DEF ReleaseTaken
<1>10. \A u \in AcquireIds : Answer(u, c)' <=> Answer(u, c) /\ u # t
  BY <1>1, <1>2, <1>4, AnswerTaken
<1>11. \A u \in AcquireIds, d \in Tiles : d # c => (Answer(u, d)' <=> Answer(u, d))
  BY <1>9 DEF Answer
<1>12. \A u \in AcquireIds, d \in Tiles : Pending(u, d)' <=> Pending(u, d) /\ ~(u = t /\ d = c)
  BY <1>5, <1>8, <1>10, <1>11 DEF Pending
<1> DEFINE P == {d \in Tiles : Pending(t, d)}
<1>13. /\ IsFiniteSet(P) /\ c \in P /\ tracker[t].release_count = Cardinality(P) /\ Cardinality(P) \in Nat
       /\ Cardinality(P \ {c}) = Cardinality(P) - 1 /\ Cardinality(P) < CountRange
       /\ IsFiniteSet(P \ {c}) /\ CountRange \in Nat \ {0}
  <2>1. IsFiniteSet(Tiles) /\ Cardinality(Tiles) = nTiles
    BY FS_Interval, TileLinkAssumption DEF Tiles
  <2>2. P \in SUBSET Tiles /\ c \in P
    BY <1>1, <1>5
  <2>3. IsFiniteSet(P) /\ Cardinality(P) <= nTiles
    BY <2>1, <2>2, FS_Subset
  <2>4. Cardinality(P) \in Nat
    BY <2>3, FS_CardinalityType
  <2>5. Cardinality(P \ {c}) = Cardinality(P) - 1 /\ IsFiniteSet(P \ {c})
    BY <2>2, <2>3, FS_RemoveElement
  <2>6. tracker[t].release_count = Cardinality(P)
    BY <1>5 DEF AnswersCounted
  <2> QED
    BY <2>2, <2>3, <2>4, <2>5, <2>6, CountsFit
<1>14. {d \in Tiles : Pending(t, d)'} = P \ {c}
  BY <1>12
<1>15. tracker[t].release_count >= 1 /\ tracker'[t].release_count = Cardinality(P \ {c})
  <2>1. Cardinality(P \ {c}) \in Nat
    BY <1>13, FS_CardinalityType
  <2>2. tracker[t].release_count \in Nat /\ tracker[t].release_count >= 1 /\ tracker[t].release_count < CountRange
    BY <1>13, <2>1
  <2>3. (tracker[t].release_count + CountRange - 1) % CountRange = tracker[t].release_count - 1
    BY <1>13, <2>2, CountKept
  <2> QED
    BY <1>6, <1>13, <2>2, <2>3
<1>16. tracker[t].release_count = 1 => \A d \in Tiles : d # c => ~Pending(t, d)
  <2>1. tracker[t].release_count = 1 => P \ {c} = {}
    BY <1>13, FS_EmptySet
  <2> QED
    BY <2>1
<1>17. tracker[t].release_count # 1 => \E d \in Tiles : Pending(t, d)'
  <2>1. tracker[t].release_count # 1 => Cardinality(P \ {c}) # 0
    BY <1>13
  <2>2. tracker[t].release_count # 1 => P \ {c} # {}
    BY <1>13, <2>1, FS_EmptySet
  <2> QED
    BY <1>14, <2>2
<1> HIDE DEF P
<1>18. \A d \in Tiles : Pending(t, d)' => \A a : ProbesFor(t, a) => ProbesFor(t, a)'
  BY <1>6, <1>12, <1>16 DEF ProbesFor
<1>19. \A u \in AcquireIds, d \in Tiles : Pending(u, d)' =>
         (\A a : ProbesFor(u, a) => ProbesFor(u, a)') /\ probe_type(u)' = probe_type(u)
  BY <1>7, <1>18
<1>20. ProbesSent'
  <2>1. FewerProbers
    BY <1>3 DEF FewerProbers, Probing
  <2>2. StillAsked
    BY <1>6, <1>8, <1>19 DEF StillAsked, Pending
  <2> QED
    BY <1>3, <2>1, <2>2, ProbesSentKept
<1>21. \A d \in Tiles, u \in AcquireIds : Answer(u, d)' => Asked(u, d)
  BY <1>8, <1>19 DEF Asked, Pending
<1>22. AnswersAt(c)'
  BY <1>1, <1>4, <1>21, AnswersAtTaken
<1>23. \A d \in Tiles : d # c => AnswersAt(d)'
  BY <1>4, <1>9, <1>11, <1>21, AnswersAtFrame
<1>24. AnswersCounted'
  <2>1. ASSUME NEW u \in AcquireIds, u # t, tracker'[u].state = "s_probe"
        PROVE  /\ tracker'[u].release_count = Cardinality({d \in Tiles : Pending(u, d)'})
               /\ \E d \in Tiles : Pending(u, d)'
    <3>1. {d \in Tiles : Pending(u, d)'} = {d \in Tiles : Pending(u, d)}
      BY <1>12, <2>1
    <3> QED
      BY <1>6, <1>12, <2>1, <3>1 DEF AnswersCounted
  <2>2. tracker'[t].state = "s_probe" => tracker[t].release_count # 1
    BY <1>6 DEF AfterProbes
  <2> QED
    BY <1>14, <1>15, <1>17, <2>1, <2>2 DEF AnswersCounted
<1> QED
  BY <1>20, <1>22, <1>23, <1>24, AnswersEachNext, SMTT(20) DEF ProbeTokens

(* The steps of the agent that leave the probes alone.                     *)
LEMMA AgentFrame ==
    ASSUME Context,
           \/ \E c \in Clients : TakeGrantAck(c)
           \/ \E t \in AcquireIds : MemWrite(t) \/ MemRead(t) \/ ForwardGrant(t) \/ MakeGrant(t)
           \/ VoluntaryStep
    PROVE  SameTrackers /\ UNCHANGED << probe, release >>
<1> USE DEF Context, TokenContext, ProbeInv
<1>1. tracker \in [AcquireIds -> AcquireTracker]
  BY DEF TypeOK, L2TypeOK
<1>2. ASSUME NEW c \in Clients, TakeGrantAck(c) PROVE SameTrackers /\ UNCHANGED << probe, release >>
  <2>1. \A t \in AcquireIds : tracker[t].state = "s_busy" => tracker[t].probe_flags = {}
    BY DEF ProbesSent
  <2>2. \A t \in AcquireIds : tracker'[t] = tracker[t] \/ (tracker[t].state = "s_busy" /\ tracker'[t] = IdleTracker)
    BY <1>2 DEF TakeGrantAck
  <2>3. IdleTracker.state = "s_idle" /\ IdleTracker.probe_flags = {}
    BY DEF IdleTracker
  <2> QED
    BY <1>2, <2>1, <2>2, <2>3 DEF TakeGrantAck, SameTrackers, SameTransactions
<1>3. ASSUME NEW u \in AcquireIds, MemWrite(u) PROVE SameTrackers /\ UNCHANGED << probe, release >>
  BY <1>1, <1>3 DEF MemWrite, AcquireTracker, channels, SameTrackers, SameTransactions
<1>4. ASSUME NEW u \in AcquireIds, MemRead(u) PROVE SameTrackers /\ UNCHANGED << probe, release >>
  BY <1>1, <1>4 DEF MemRead, AfterGrant, AcquireTracker, channels, SameTrackers, SameTransactions
<1>5. ASSUME NEW u \in AcquireIds, MakeGrant(u) PROVE SameTrackers /\ UNCHANGED << probe, release >>
  BY <1>1, <1>5 DEF MakeGrant, AfterGrant, AcquireTracker, SameTrackers, SameTransactions
<1>6. ASSUME NEW u \in AcquireIds, ForwardGrant(u) PROVE SameTrackers /\ UNCHANGED << probe, release >>
  BY <1>6 DEF ForwardGrant, SameTrackers, SameTransactions
<1>7. CASE VoluntaryStep
  BY <1>7 DEF VoluntaryStep, VoluntaryWrite, VoluntaryAck, channels, SameTrackers, SameTransactions
<1> QED
  BY <1>2, <1>3, <1>4, <1>5, <1>6, <1>7

(* The steps of a tile that leave its prober's answer open or given.       *)
LEMMA ProberKept ==
    ASSUME Context, NEW c \in Tiles, TileStep(c), ~ProbeAccept(c), ~WbRelease(c), ~(ProbeRelease(c) /\ ~ProbeDirty(c))
    PROVE  /\ UNCHANGED << probe, release >>
           /\ Probing(c)' <=> Probing(c)
           /\ Probing(c) => /\ prober'[c].addr = prober[c].addr /\ prober'[c].p_type = prober[c].p_type
                            /\ prober'[c].master_xact_id = prober[c].master_xact_id
<1> USE DEF Context, TokenContext, channels, Probing
<1>0. prober \in [Tiles -> ProbeUnit(TrackerIds)] /\ wb \in [Tiles -> WritebackUnit(TrackerIds)]
  BY TileTypes
<1>1. CASE CoreRequest(c) \/ MshrFinish(c) \/ LrscExpire(c)
  <2>1. CoreRequest(c) =>
          \E cmd, a, v : CpuHit(c, cmd, a, v) \/ PrimaryMiss(c, cmd, a, v) \/ SecondaryMiss(c, cmd, a, v)
    BY DEF CoreRequest
  <2>2. ASSUME NEW cmd, NEW a, NEW v, CpuHit(c, cmd, a, v) \/ PrimaryMiss(c, cmd, a, v) \/ SecondaryMiss(c, cmd, a, v)
        PROVE  UNCHANGED << probe, release, prober, wb >>
    BY <2>2 DEF CpuHit, PrimaryMiss, SecondaryMiss
  <2>3. MshrFinish(c) \/ LrscExpire(c) => UNCHANGED << probe, release, prober, wb >>
    BY DEF MshrFinish, LrscExpire
  <2> QED
    BY <1>1, <2>1, <2>2, <2>3
<1>2. CASE MshrWbResp(c) \/ MshrMetaClear(c) \/ MshrRefillReq(c) \/ MshrRefill(c)
  BY <1>2 DEF MshrWbResp, MshrMetaClear, MshrRefillReq, MshrRefill
<1>3. CASE MshrMetaWrite(c) \/ MshrReplay(c) \/ MshrDrained(c)
  BY <1>3 DEF MshrMetaWrite, MshrReplay, MshrDrained
<1>4. CASE MshrWbReq(c)
  <2>1. prober[c].state \in {"s_invalid", "s_meta_read"} /\ UNCHANGED << probe, release, prober >>
    BY <1>4, MachineFacts DEF MshrWbReq, MshrOk
  <2> QED
    BY <2>1
<1>5. CASE WbRead(c)
  <2>1. UNCHANGED << probe, release, prober >> /\ wb[c].state = "read" /\ wb'[c].state = "release"
    BY <1>0, <1>5 DEF WbRead, WritebackUnit
  <2> QED
    BY <2>1
<1>6. CASE ProbeLookup(c)
  BY <1>0, <1>6 DEF ProbeLookup, ProbeUnit
<1>7. CASE ProbeRelease(c)
  <2>1. ProbeDirty(c)
    BY <1>7
  <2> QED
    BY <1>0, <1>7, <2>1 DEF ProbeRelease, ProbeUnit
<1>8. CASE ProbeWbReq(c)
  <2>1. /\ UNCHANGED << probe, release >> /\ prober[c].state = "s_writeback_req" /\ prober'[c].state = "s_writeback_resp"
        /\ wb'[c].state = "read" /\ prober'[c].addr = prober[c].addr /\ prober'[c].p_type = prober[c].p_type
        /\ prober'[c].master_xact_id = prober[c].master_xact_id
    BY <1>0, <1>8 DEF ProbeWbReq, ProbeUnit, IdleWb
  <2> QED
    BY <2>1
<1>9. CASE ProbeWbResp(c)
  BY <1>0, <1>9 DEF ProbeWbResp, ProbeUnit
<1>10. CASE ProbeMetaWrite(c)
  BY <1>0, <1>10 DEF ProbeMetaWrite, ProbeUnit, IdleProber
<1> QED
  BY <1>1, <1>2, <1>3, <1>4, <1>5, <1>6, <1>7, <1>8, <1>9, <1>10 DEF TileStep, MshrStep, WbStep, ProbeStep

(* Every step keeps track of who has to answer.                            *)
LEMMA ProbeTokensStep == ASSUME Context, SharersFit, [Next]_vars PROVE ProbeTokens'
<1> USE DEF Context, TokenContext
<1>1. CASE UNCHANGED vars \/ OfHtif(HtifStep)
  <2>1. UNCHANGED << tracker, probe, release, prober, wb >>
    BY <1>1 DEF vars, OfHtif, HtifStep, HostRequest, HtifRequest, HtifGrant, HtifFinish, channels, l2vars, dcvars
  <2>2. SameTrackers /\ SameProbers
    BY <2>1 DEF SameTrackers, SameTransactions, SameProbers, Probing
  <2> QED
    BY <2>1, <2>2, ProbeTokensFrame
<1>2. CASE OfL2(L2Step)
  <2>1. L2Step /\ UNCHANGED dcvars
    BY <1>2 DEF OfL2
  <2>2. SameProbers
    BY <2>1 DEF SameProbers, Probing, dcvars
  <2>3. CASE \E c \in Clients : AcceptAcquire(c)
    BY <2>1, <2>3, ProbeTokensAcquire
  <2>4. CASE \E c \in Clients : TakeRelease(c)
    BY <2>1, <2>4, ProbeTokensAnswered, ProbeTokensEviction DEF TakeRelease
  <2>5. CASE \E t \in AcquireIds : SendProbe(t)
    BY <2>1, <2>5, ProbeTokensSend
  <2>6. CASE \/ \E c \in Clients : TakeGrantAck(c)
             \/ \E t \in AcquireIds : MemWrite(t) \/ MemRead(t) \/ ForwardGrant(t) \/ MakeGrant(t)
             \/ VoluntaryStep
    BY <2>2, <2>6, AgentFrame, ProbeTokensFrame
  <2> QED
    BY <2>1, <2>3, <2>4, <2>5, <2>6 DEF L2Step, TrackerStep
<1>3. ASSUME NEW c \in Tiles, OfTile(TileStep(c)) PROVE ProbeTokens'
  <2>1. TileStep(c) /\ UNCHANGED l2vars
    BY <1>3 DEF OfTile
  <2>2. CASE ProbeAccept(c)
    BY <2>1, <2>2, ProbeTokensAccept
  <2>3. CASE WbRelease(c)
    BY <2>1, <2>3, ProbeTokensWbRelease
  <2>4. CASE ProbeRelease(c) /\ ~ProbeDirty(c)
    BY <2>1, <2>4, ProbeTokensProbeRelease
  <2>5. CASE ~ProbeAccept(c) /\ ~WbRelease(c) /\ ~(ProbeRelease(c) /\ ~ProbeDirty(c))
    <3>1. /\ UNCHANGED << probe, release >>
          /\ Probing(c)' <=> Probing(c)
          /\ Probing(c) => /\ prober'[c].addr = prober[c].addr /\ prober'[c].p_type = prober[c].p_type
                           /\ prober'[c].master_xact_id = prober[c].master_xact_id
      BY <2>1, <2>5, ProberKept
    <3>2. \A d \in Tiles : d # c => prober'[d] = prober[d] /\ wb'[d] = wb[d]
      BY <2>1, TileFrame
    <3>3. SameTrackers
      BY <2>1 DEF SameTrackers, SameTransactions, l2vars
    <3>4. SameProbers
      <4>1. \A d \in Tiles : d # c => (Probing(d)' <=> Probing(d))
        BY <3>2 DEF Probing
      <4> QED
        BY <3>1, <3>2, <4>1 DEF SameProbers
    <3> QED
      BY <3>1, <3>3, <3>4, ProbeTokensFrame
  <2> QED
    BY <2>2, <2>3, <2>4, <2>5
<1> QED
  BY <1>1, <1>2, <1>3 DEF Next

(* At first nobody has to answer.                                          *)
LEMMA ProbeInit == Init => ProbeInv
<1> SUFFICES ASSUME Init PROVE ProbeInv
  OBVIOUS
<1>1. /\ \A c \in Clients : probe[c] = << >> /\ release[c] = << >> /\ grant[c] = << >>
      /\ \A t \in AcquireIds : tracker[t] = IdleTracker
      /\ \A c \in Tiles : prober[c] = IdleProber /\ wb[c] = IdleWb /\ mshr[c] = IdleMSHR /\ line[c].state = "Invalid"
  BY DEF Init, ChannelsInit, L2Init, DCacheInit
<1>2. HTIF \in Clients /\ Tiles \subseteq Clients
  BY ClientSets
<1>3. /\ IdleTracker.state = "s_idle" /\ IdleTracker.probe_flags = {}
      /\ IdleProber.state = "s_invalid" /\ IdleWb.state = "inactive" /\ IdleMSHR.state = "s_invalid"
  BY DEF IdleTracker, IdleProber, IdleWb, IdleMSHR
<1>4. \A c \in Tiles : ~Probing(c) /\ ~LookedUp(c)
  BY <1>1, <1>3 DEF Probing, LookedUp
<1>5. ProbesSent
  BY <1>1, <1>2, <1>3, <1>4 DEF ProbesSent, ProbedBy
<1>6. AnswersSent /\ EvictionsLast
  BY <1>1, <1>2 DEF AnswersSent, EvictionsLast
<1>7. AnswersCounted /\ Stages
  BY <1>1, <1>3 DEF AnswersCounted, Stages
<1>8. GrantsRight
  BY <1>1 DEF GrantsRight, GrantOf
<1>9. Machines
  <2>1. ASSUME NEW c \in Tiles PROVE MshrOk(c)
    BY <1>1, <1>3, PolicyHits DEF MshrOk
  <2>2. ASSUME NEW c \in Tiles PROVE ProberOk(c) /\ WritebackOk(c)
    BY <1>1, <1>3, <1>4 DEF ProberOk, WritebackOk
  <2> QED
    BY <2>1, <2>2 DEF Machines
<1> QED
  BY <1>5, <1>6, <1>7, <1>8, <1>9 DEF ProbeInv

(* The second layer is inductive, on top of the first.                     *)
LEMMA ProbeStepKept == ASSUME Context, SharersFit, [Next]_vars PROVE ProbeInv'
BY ProbeTokensStep, MachinesStep, EvictionsLastStep, GrantsRightStep, StagesStep DEF ProbeInv, ProbeTokens

(* A transaction that probes waits for exactly the tiles that have not     *)
(* answered it: each of these is flagged, has the probe in its channel, in *)
(* its prober or its answer in the release queue, and release_count is     *)
(* their number. In a tile the MSHR, the prober and the WritebackUnit are  *)
(* never at work on the same line in a way that lets one undo what the     *)
(* other has seen. SharersFit keeps release_count, which counts tiles,     *)
(* inside its register.                                                    *)
THEOREM ProbesCorrect == ASSUME ~MetaStalls, SharersFit PROVE Spec => []ProbeInv
<1>1. Init => ProbeInv
  BY ProbeInit
<1>2. ProbeInv /\ TypeOK /\ OneTransactionPerLine /\ TokenInv /\ [Next]_vars => ProbeInv'
  BY ProbeStepKept DEF Context, TokenContext
<1>3. Spec => []TypeOK
  BY CoherentTypeCorrect
<1>4. Spec => []OneTransactionPerLine
  BY OneTransaction
<1>5. Spec => []TokenInv
  BY TokensCorrect
<1> QED
  BY <1>1, <1>2, <1>3, <1>4, <1>5, PTL DEF Spec

-----------------------------------------------------------------------------
(* Replays.                                                                *)

ReplaysOf(c) ==
    \A i \in DOMAIN mshr[c].rpq :
        /\ mshr[c].state \in {"s_wb_req", "s_wb_resp", "s_meta_clear", "s_refill_req", "s_refill_resp"} =>
              \A sharers \in BOOLEAN : Served(GrantedState(mshr[c].acquire_type, sharers), mshr[c].rpq[i].cmd)
        /\ mshr[c].state = "s_meta_write_req" => Served(mshr[c].line_state, mshr[c].rpq[i].cmd)
        /\ mshr[c].state = "s_drain_rpq" => Served(line[c].state, mshr[c].rpq[i].cmd)

(* Replays, tile by tile.                                                  *)
LEMMA ReplaysEach == (Replays <=> \A c \in Tiles : ReplaysOf(c)) /\ ((\A c \in Tiles : ReplaysOf(c)') => Replays')
BY DEF Replays, ReplaysOf

\* What is added to a replay queue.
LEMMA ReplayedOnly ==
    ASSUME NEW q \in Seq(Replay), NEW cmd \in Cmds, NEW v \in Values
    PROVE  /\ \A i \in DOMAIN Replayed(cmd, v) : Replayed(cmd, v)[i].cmd = cmd
           /\ \A i \in DOMAIN (q \o Replayed(cmd, v)) :
                (i \in DOMAIN q /\ (q \o Replayed(cmd, v))[i] = q[i]) \/ (q \o Replayed(cmd, v))[i].cmd = cmd
<1>1. PICK r \in Replay : r = [cmd |-> cmd, data |-> v]
  BY DEF Replay
<1>2. CASE isPrefetch(cmd)
  BY <1>2 DEF Replayed
<1>3. CASE ~isPrefetch(cmd)
  <2>1. Replayed(cmd, v) = << r >> /\ r.cmd = cmd
    BY <1>1, <1>3 DEF Replayed
  <2>2. Len(<< r >>) = 1 /\ DOMAIN << r >> = {1} /\ << r >>[1] = r
    OBVIOUS
  <2> QED
    BY <2>1, <2>2
<1> QED
  BY <1>2, <1>3

(* The first request that a miss queues asks for what the acquire asks     *)
(* for.                                                                    *)
LEMMA ReplaysPrimaryMiss ==
    ASSUME Context, NEW c \in Tiles, NEW cmd \in Cmds, NEW a \in Addrs, NEW v \in Values, PrimaryMiss(c, cmd, a, v)
    PROVE  ReplaysOf(c)'
<1>1. \A i \in DOMAIN mshr'[c].rpq : mshr'[c].rpq[i].cmd = cmd
  <2>1. mshr'[c].rpq = Replayed(cmd, v)
    BY PrimaryMissEffect
  <2>2. << >> \in Seq(Replay)
    OBVIOUS
  <2>3. \A i \in DOMAIN Replayed(cmd, v) : Replayed(cmd, v)[i].cmd = cmd
    BY <2>2, ReplayedOnly
  <2> QED
    BY <2>1, <2>3, Zenon
<1>2. /\ mshr'[c].acquire_type = co.acquireOnMiss[cmd] /\ mshr'[c].state # "s_drain_rpq"
      /\ mshr'[c].state = "s_meta_write_req" => mshr'[c].line_state = "ExclusiveDirty"
  BY PrimaryMissEffect
<1>3. Served("ExclusiveDirty", cmd) /\ \A s \in BOOLEAN : Served(GrantedState(co.acquireOnMiss[cmd], s), cmd)
  BY PolicyHits, PolicyReplays
<1> QED
  BY <1>1, <1>2, <1>3 DEF ReplaysOf

(* A request joins the queue only if the acquire that is under way         *)
(* suffices for it.                                                        *)
LEMMA ReplaysSecondaryMiss ==
    ASSUME Context, NEW c \in Tiles, ReplaysOf(c), NEW cmd \in Cmds, NEW a \in Addrs, NEW v \in Values,
           SecondaryMiss(c, cmd, a, v)
    PROVE  ReplaysOf(c)'
<1> USE DEF Context, TokenContext, TokenInv
<1>1. mshr[c] \in MSHR /\ mshr[c].rpq \in Seq(Replay) /\ mshr[c].acquire_type \in AcquireTypes
  BY TileTypes DEF MSHR
<1>2. /\ mshr'[c].state = mshr[c].state /\ mshr'[c].rpq = mshr[c].rpq \o Replayed(cmd, v)
      /\ mshr'[c].acquire_type = co.acquireOnSecondary[cmd][mshr[c].acquire_type]
      /\ mshr[c].state \in {"s_wb_req", "s_wb_resp", "s_meta_clear", "s_refill_req", "s_refill_resp"}
  BY SecondaryMissEffect
<1>3. CachedType(mshr[c].acquire_type)
  BY <1>2 DEF Asking
<1>4. PICK x : x = mshr[c].acquire_type
  OBVIOUS
<1>5. \A s \in BOOLEAN : /\ Served(GrantedState(co.acquireOnSecondary[cmd][x], s), cmd)
                         /\ \A cmd2 \in Cmds : Served(GrantedState(x, s), cmd2) =>
                               Served(GrantedState(co.acquireOnSecondary[cmd][x], s), cmd2)
  BY <1>3, <1>4, PolicyReplays
<1>6. \A i \in DOMAIN mshr[c].rpq :
         mshr[c].rpq[i].cmd \in Cmds /\ \A s \in BOOLEAN : Served(GrantedState(x, s), mshr[c].rpq[i].cmd)
  <2>1. ASSUME NEW i \in DOMAIN mshr[c].rpq PROVE mshr[c].rpq[i].cmd \in Cmds
    <3>1. mshr[c].rpq[i] \in Replay
      BY <1>1, <2>1
    <3> QED
      BY <3>1 DEF Replay
  <2>2. \A i \in DOMAIN mshr[c].rpq : \A s \in BOOLEAN : Served(GrantedState(mshr[c].acquire_type, s), mshr[c].rpq[i].cmd)
    BY <1>2 DEF ReplaysOf
  <2> QED
    BY <1>4, <2>1, <2>2
<1>7. \A i \in DOMAIN mshr'[c].rpq : (i \in DOMAIN mshr[c].rpq /\ mshr'[c].rpq[i] = mshr[c].rpq[i]) \/ mshr'[c].rpq[i].cmd = cmd
  BY <1>1, <1>2, ReplayedOnly
<1>8. mshr'[c].acquire_type = co.acquireOnSecondary[cmd][x]
  BY <1>2, <1>4
<1>9. \A i \in DOMAIN mshr'[c].rpq : \A s \in BOOLEAN : Served(GrantedState(co.acquireOnSecondary[cmd][x], s), mshr'[c].rpq[i].cmd)
  BY <1>5, <1>6, <1>7
<1> QED
  BY <1>2, <1>8, <1>9 DEF ReplaysOf

\* A request of the core, with what it may write.
LEMMA CoreRequestCases ==
    ASSUME NEW c \in Tiles, CoreRequest(c)
    PROVE  \E cmd \in Cmds, a \in Addrs, v \in Values :
             CpuHit(c, cmd, a, v) \/ PrimaryMiss(c, cmd, a, v) \/ SecondaryMiss(c, cmd, a, v)
BY Constants DEF CoreRequest

(* The other steps of a tile keep or shorten the queue, and the grant      *)
(* brings what was asked for.                                              *)
LEMMA ReplaysRest ==
    ASSUME Context, NEW c \in Tiles, ReplaysOf(c), TileStep(c), ~CoreRequest(c)
    PROVE  ReplaysOf(c)'
<1> USE DEF Context, TokenContext
<1>0. mshr \in [Tiles -> MSHR] /\ line \in [Tiles -> Line]
  BY TileTypes
<1>1. CASE MshrWbReq(c) \/ MshrWbResp(c) \/ MshrRefillReq(c)
  <2>1. /\ mshr'[c].rpq = mshr[c].rpq /\ mshr'[c].acquire_type = mshr[c].acquire_type
        /\ mshr[c].state \in {"s_wb_req", "s_wb_resp", "s_refill_req"}
        /\ mshr'[c].state \in {"s_wb_resp", "s_meta_clear", "s_refill_resp"}
    BY <1>0, <1>1 DEF MSHR, MshrWbReq, MshrWbResp, MshrRefillReq
  <2> QED
    BY <2>1 DEF ReplaysOf
<1>2. CASE MshrMetaClear(c)
  <2>1. /\ mshr'[c].rpq = mshr[c].rpq /\ mshr'[c].acquire_type = mshr[c].acquire_type
        /\ mshr[c].state = "s_meta_clear" /\ mshr'[c].state = "s_refill_req"
    BY <1>0, <1>2 DEF MSHR, MshrMetaClear
  <2> QED
    BY <2>1 DEF ReplaysOf
<1>3. CASE MshrRefill(c)
  <2>1. PICK s \in BOOLEAN :
           /\ mshr[c].state = "s_refill_resp" /\ mshr'[c].state = "s_meta_write_req" /\ mshr'[c].rpq = mshr[c].rpq
           /\ mshr'[c].line_state = GrantedState(mshr[c].acquire_type, s)
    BY <1>3, RefillEffect
  <2>2. PICK q : q = mshr[c].rpq /\ q = mshr'[c].rpq
    BY <2>1
  <2>3. \A i \in DOMAIN q : Served(GrantedState(mshr[c].acquire_type, s), q[i].cmd)
    BY <2>1, <2>2 DEF ReplaysOf
  <2>4. \A i \in DOMAIN q : Served(mshr'[c].line_state, q[i].cmd)
    BY <2>1, <2>3
  <2> QED
    BY <2>1, <2>2, <2>4 DEF ReplaysOf
<1>4. CASE MshrMetaWrite(c)
  <2>1. /\ mshr'[c].rpq = mshr[c].rpq /\ mshr[c].state = "s_meta_write_req" /\ mshr'[c].state = "s_drain_rpq"
        /\ line'[c].state = mshr[c].line_state
    BY <1>0, <1>4 DEF MSHR, Line, MshrMetaWrite
  <2>2. PICK q : q = mshr[c].rpq /\ q = mshr'[c].rpq
    BY <2>1
  <2>3. \A i \in DOMAIN q : Served(mshr[c].line_state, q[i].cmd)
    BY <2>1, <2>2 DEF ReplaysOf
  <2>4. \A i \in DOMAIN q : Served(line'[c].state, q[i].cmd)
    BY <2>1, <2>3
  <2> QED
    BY <2>1, <2>2, <2>4 DEF ReplaysOf
<1>5. CASE MshrReplay(c)
  <2>1. /\ mshr'[c].rpq = Tail(mshr[c].rpq) /\ mshr[c].state = "s_drain_rpq" /\ mshr'[c].state = "s_drain_rpq"
        /\ mshr[c].rpq # << >> /\ mshr[c].rpq \in Seq(Replay)
    BY <1>0, <1>5 DEF MSHR, MshrReplay
  <2>2. line'[c].state = line[c].state
    BY <1>5, PerformEffect DEF MshrReplay
  <2>3. \A i \in DOMAIN mshr'[c].rpq : i + 1 \in DOMAIN mshr[c].rpq /\ mshr'[c].rpq[i] = mshr[c].rpq[i + 1]
    BY <2>1
  <2>4. \A i \in DOMAIN mshr[c].rpq : Served(line[c].state, mshr[c].rpq[i].cmd)
    BY <2>1 DEF ReplaysOf
  <2>5. \A i \in DOMAIN mshr'[c].rpq : Served(line'[c].state, mshr'[c].rpq[i].cmd)
    BY <2>2, <2>3, <2>4
  <2> QED
    BY <2>1, <2>5 DEF ReplaysOf
<1>6. CASE MshrDrained(c)
  <2>1. mshr'[c].state = "s_invalid"
    BY <1>0, <1>6 DEF MshrDrained, IdleMSHR
  <2> QED
    BY <2>1 DEF ReplaysOf
<1>7. CASE ProbeMetaWrite(c)
  <2>1. mshr'[c] = mshr[c] /\ mshr[c].state # "s_drain_rpq"
    BY <1>7, MachineFacts DEF ProbeMetaWrite, Unsettled
  <2> QED
    BY <2>1 DEF ReplaysOf
<1>8. CASE WbStep(c) \/ MshrFinish(c) \/ LrscExpire(c) \/ (ProbeStep(c) /\ ~ProbeMetaWrite(c))
  <2>1. UNCHANGED << mshr, line >>
    BY <1>8 DEF WbStep, WbRead, WbRelease, MshrFinish, LrscExpire, ProbeStep, ProbeAccept, ProbeLookup, ProbeRelease,
       ProbeWbReq, ProbeWbResp
  <2> QED
    BY <2>1 DEF ReplaysOf
<1> QED
  BY <1>1, <1>2, <1>3, <1>4, <1>5, <1>6, <1>7, <1>8 DEF TileStep, MshrStep, ProbeStep

(* Every step keeps the promise made to the replay queue.                  *)
LEMMA ReplaysStep == ASSUME Context, Replays, [Next]_vars PROVE Replays'
<1> USE DEF Context, TokenContext
<1>0. \A c \in Tiles : ReplaysOf(c)
  BY ReplaysEach
<1>1. CASE UNCHANGED dcvars
  <2>1. \A c \in Tiles : ReplaysOf(c)'
    BY <1>0, <1>1 DEF ReplaysOf, dcvars
  <2> QED
    BY <2>1, ReplaysEach
<1>2. ASSUME NEW c \in Tiles, TileStep(c) PROVE Replays'
  <2>1. ASSUME NEW d \in Tiles, d # c PROVE ReplaysOf(d)'
    <3>1. mshr'[d] = mshr[d] /\ line'[d] = line[d]
      BY <1>2, <2>1, TileFrame
    <3> QED
      BY <1>0, <3>1 DEF ReplaysOf
  <2>2. ReplaysOf(c)'
    <3>1. CASE CoreRequest(c)
      <4>1. PICK cmd \in Cmds, a \in Addrs, v \in Values :
               CpuHit(c, cmd, a, v) \/ PrimaryMiss(c, cmd, a, v) \/ SecondaryMiss(c, cmd, a, v)
        BY <3>1, CoreRequestCases
      <4>2. CASE CpuHit(c, cmd, a, v)
        <5>1. mshr'[c] = mshr[c] /\ line'[c].state = line[c].state
          BY <4>2, PerformEffect DEF CpuHit
        <5> QED
          BY <1>0, <5>1 DEF ReplaysOf
      <4> QED
        BY <1>0, <4>1, <4>2, ReplaysPrimaryMiss, ReplaysSecondaryMiss
    <3>2. CASE ~CoreRequest(c)
      BY <1>0, <1>2, <3>2, ReplaysRest
    <3> QED
      BY <3>1, <3>2
  <2> QED
    BY <2>1, <2>2, ReplaysEach
<1> QED
  BY <1>1, <1>2 DEF Next, OfL2, OfTile, OfHtif, vars

(* What was promised is what the replay finds.                             *)
LEMMA ReplaysFound == ASSUME Context, Replays PROVE ReplaysHit
<1> SUFFICES ASSUME NEW c \in Tiles, mshr[c].state = "s_drain_rpq", mshr[c].rpq # << >>
             PROVE  s2_hit(c, Head(mshr[c].rpq).cmd, mshr[c].addr)
  BY DEF ReplaysHit
<1>1. mshr[c] \in MSHR /\ line[c] \in Line
  BY TileTypes DEF Context, TokenContext
<1>2. Head(mshr[c].rpq) = mshr[c].rpq[1] /\ 1 \in DOMAIN mshr[c].rpq /\ mshr[c].rpq[1] \in Replay
  BY <1>1 DEF MSHR
<1>3. PICK cmd \in Cmds : cmd = Head(mshr[c].rpq).cmd
  BY <1>2 DEF Replay
<1>4. Served(line[c].state, cmd)
  BY <1>2, <1>3 DEF Replays
<1>5. line[c].tag = mshr[c].addr /\ Known(line[c].state)
  BY MachineFacts DEF MshrOk
<1>6. "Invalid" \notin co.isHit[cmd]
  BY <1>1, <1>5, PolicyHits DEF Line
<1> QED
  BY <1>3, <1>4, <1>5, <1>6 DEF Served, s2_hit, tag_match, permitted, isValid

(* Nothing waits at first.                                                 *)
LEMMA ReplaysInit == Init => Replays
<1> SUFFICES ASSUME Init PROVE Replays
  OBVIOUS
<1>1. \A c \in Tiles : mshr[c].state = "s_invalid"
  BY DEF Init, DCacheInit, IdleMSHR
<1> QED
  BY <1>1 DEF Replays

(* A replay, whose hit the cache does not check, finds its line with the   *)
(* permission that its command needs.                                      *)
THEOREM ReplaysCorrect == ASSUME ~MetaStalls, SharersFit PROVE Spec => []ReplaysHit
<1>1. Init => Replays
  BY ReplaysInit
<1>2. Replays /\ ProbeInv /\ TypeOK /\ OneTransactionPerLine /\ TokenInv /\ [Next]_vars => Replays'
  BY ReplaysStep DEF Context, TokenContext
<1>3. Replays /\ ProbeInv /\ TypeOK /\ OneTransactionPerLine /\ TokenInv => ReplaysHit
  BY ReplaysFound DEF Context, TokenContext
<1>4. Spec => []TypeOK
  BY CoherentTypeCorrect
<1>5. Spec => []OneTransactionPerLine
  BY OneTransaction
<1>6. Spec => []TokenInv
  BY TokensCorrect
<1>7. Spec => []ProbeInv
  BY ProbesCorrect
<1> QED
  BY <1>1, <1>2, <1>3, <1>4, <1>5, <1>6, <1>7, PTL DEF Spec
=============================================================================
