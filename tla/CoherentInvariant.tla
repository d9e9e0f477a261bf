------------------------- MODULE CoherentInvariant -------------------------
(***************************************************************************)
(* What is true in every state of the memory system: the inductive         *)
(* invariant behind the safety properties of CoherentSystem, in layers.    *)
(* Tokens: where the request, the grant and the acknowledgement of a       *)
(* transaction are, and where a line is that is being evicted.  Probes:    *)
(* who still has to answer a transaction, and how far each machine of a    *)
(* tile is.  Lines: who may read and write a line, and where its last      *)
(* value is.                                                               *)
(***************************************************************************)
EXTENDS CoherentSystem

-----------------------------------------------------------------------------
(* Tokens.  A transaction whose tracker is busy is at one place: a read in *)
(* memory, a grant, a client that has taken it, an acknowledgement.        *)

client(t) == tracker[t].init_client_id

InOuter(t)    == \E r \in outer : r.id = t
GrantOf(t, c) == /\ grant[c] # << >> /\ requiresAckForGrant(Head(grant[c]).g_type)
                 /\ Head(grant[c]).master_xact_id = t
HeldBy(t, c)  == \/ c \in Tiles /\ ackq[c] # << >> /\ Head(ackq[c]) = t
                 \/ c = HTIF /\ htif.state = "state_mem_finish" /\ htif.mem_gxid = t
Acked(t, c)   == \E i \in DOMAIN grant_ack[c] : grant_ack[c][i] = t
Consumed(t, c) == HeldBy(t, c) \/ Acked(t, c)

BusyFor(t, c) == t \in AcquireIds /\ tracker[t].state = "s_busy" /\ client(t) = c

Lengths ==
    /\ \A c \in Clients : Len(acquire[c]) <= 1 /\ Len(grant[c]) <= 1
    /\ \A c \in Tiles : /\ Len(ackq[c]) <= 1
                        /\ mshr[c].state \in {"s_wb_resp", "s_refill_resp"} => ackq[c] = << >>

OnePlace ==
    /\ \A r, s \in outer : r.id = s.id => r = s
    /\ \A t \in AcquireIds, c \in Clients : InOuter(t) =>
          tracker[t].state = "s_busy" /\ ~GrantOf(t, c) /\ ~Consumed(t, c)
    /\ \A t \in TrackerIds, c \in Clients :
          /\ GrantOf(t, c) => BusyFor(t, c) /\ ~Consumed(t, c)
          /\ HeldBy(t, c) => BusyFor(t, c) /\ ~Acked(t, c)
          /\ Acked(t, c) => BusyFor(t, c)
    /\ \A c \in Clients : \A i, j \in DOMAIN grant_ack[c] : grant_ack[c][i] = grant_ack[c][j] => i = j
    /\ \A t \in AcquireIds : tracker[t].state = "s_busy" =>
          InOuter(t) \/ \E c \in Clients : GrantOf(t, c) \/ Consumed(t, c)

\* The acquire types a tile sends with the policy.
CachedType(a_type) == \E cmd \in Cmds : a_type = co.acquireOnMiss[cmd]

Waiting(c, a_type, a) ==
    IF c = HTIF
    THEN /\ htif.state = "state_mem_resp" /\ htif.a_type = a_type /\ htif.addr = a
         /\ messageIsUncached(a_type)
    ELSE mshr[c].state = "s_refill_resp" /\ mshr[c].acquire_type = a_type /\ mshr[c].addr = a

\* A client waits for what it asked for until the grant has come.
Asking ==
    /\ \A c \in Clients, x \in AcquireTypes, a \in Addrs :
          acquire[c] # << >> /\ Head(acquire[c]).a_type = x /\ Head(acquire[c]).addr = a => Waiting(c, x, a)
    /\ \A t \in AcquireIds, c \in Clients :
          acquire[c] # << >> /\ ~Idle(t) /\ client(t) = c => Consumed(t, c)
    /\ \A t \in AcquireIds, c \in Clients, x \in AcquireTypes, a \in Addrs :
          ~Idle(t) /\ client(t) = c /\ ~Consumed(t, c) /\ tracker[t].a_type = x /\ tracker[t].addr = a =>
              Waiting(c, x, a)
    /\ \A c \in Tiles : mshr[c].state # "s_invalid" => CachedType(mshr[c].acquire_type)

\* An eviction: in the WritebackUnit, in the release queue, in the
\* VoluntaryReleaseTracker, or acknowledged.
EvictWb(c)     == wb[c].state # "inactive" /\ isVoluntary(wb[c].r_type)
EvictRel(c, i) == isVoluntary(release[c][i].r_type)
EvictTr(c)     == voluntary.state # "s_idle" /\ voluntary.init_client_id = c
EvictAck(c)    == grant[c] # << >> /\ ~requiresAckForGrant(Head(grant[c]).g_type)
Evicting(c, a) == mshr[c].state = "s_wb_resp" /\ mshr[c].old_tag = a

Evictions ==
    /\ release[HTIF] = << >> /\ ~EvictTr(HTIF) /\ ~EvictAck(HTIF)
    /\ \A c \in Tiles :
         /\ EvictWb(c) => /\ Evicting(c, wb[c].addr) /\ ~EvictTr(c) /\ ~EvictAck(c)
                          /\ \A i \in DOMAIN release[c] : ~EvictRel(c, i)
         /\ \A i \in DOMAIN release[c] : EvictRel(c, i) =>
              /\ Evicting(c, release[c][i].addr) /\ ~EvictTr(c) /\ ~EvictAck(c)
              /\ \A j \in DOMAIN release[c] : EvictRel(c, j) => i = j
         /\ EvictTr(c) => Evicting(c, voluntary.addr) /\ ~EvictAck(c)
         /\ EvictAck(c) => mshr[c].state = "s_wb_resp"

TokenInv == Lengths /\ OnePlace /\ Asking /\ Evictions

-----------------------------------------------------------------------------
(* Probes.  A transaction waits for the tiles that it has still to probe,  *)
(* whose probe or whose answer is under way, or whose prober is at work.   *)

Flagged(t, c)  == c \in tracker[t].probe_flags
ProbeIn(t, c)  == \E i \in DOMAIN probe[c] : probe[c][i].master_xact_id = t
Probing(c)     == \/ prober[c].state \in {"s_meta_read", "s_release", "s_writeback_req"}
                  \/ prober[c].state = "s_writeback_resp" /\ wb[c].state # "inactive"
ProbedBy(t, c) == Probing(c) /\ prober[c].master_xact_id = t
ToAnswer(t, c) == Flagged(t, c) \/ ProbeIn(t, c) \/ ProbedBy(t, c)
Answer(t, c)   == \E i \in DOMAIN release[c] :
                     ~isVoluntary(release[c][i].r_type) /\ release[c][i].master_xact_id = t
Pending(t, c)  == ToAnswer(t, c) \/ Answer(t, c)

probe_type(t) == co.getProbeType[tracker[t].a_type]
\* The transaction of t is asking for a.
ProbesFor(t, a) == tracker[t].state = "s_probe" /\ tracker[t].addr = a

ProbesSent ==
    /\ probe[HTIF] = << >>
    /\ \A t \in AcquireIds : /\ tracker[t].probe_flags \subseteq Tiles
                             /\ tracker[t].probe_flags # {} => tracker[t].state = "s_probe"
    /\ \A c \in Tiles : \A i \in DOMAIN probe[c] :
          /\ probe[c][i].master_xact_id \in AcquireIds
          /\ \A j \in DOMAIN probe[c] : probe[c][i].master_xact_id = probe[c][j].master_xact_id => i = j
    /\ \A c \in Tiles, t \in AcquireIds : \A i \in DOMAIN probe[c] :
          probe[c][i].master_xact_id = t =>
          ProbesFor(t, probe[c][i].addr) /\ probe[c][i].p_type = probe_type(t) /\ ~Flagged(t, c)
    /\ \A c \in Tiles : Probing(c) => prober[c].master_xact_id \in AcquireIds
    /\ \A c \in Tiles, t \in AcquireIds : ProbedBy(t, c) =>
          /\ ProbesFor(t, prober[c].addr) /\ prober[c].p_type = probe_type(t)
          /\ ~Flagged(t, c) /\ ~ProbeIn(t, c)

AnswersSent ==
    /\ \A c \in Tiles : \A i \in DOMAIN release[c] : ~isVoluntary(release[c][i].r_type) =>
          /\ release[c][i].master_xact_id \in AcquireIds
          /\ \A j \in DOMAIN release[c] :
               ~isVoluntary(release[c][j].r_type) /\ release[c][i].master_xact_id = release[c][j].master_xact_id =>
                   i = j
    /\ \A c \in Tiles, t \in AcquireIds : \A i \in DOMAIN release[c] :
          ~isVoluntary(release[c][i].r_type) /\ release[c][i].master_xact_id = t =>
          /\ ProbesFor(t, release[c][i].addr) /\ ~ToAnswer(t, c)
          /\ \E d \in BOOLEAN : release[c][i].r_type = ReleaseOnProbe(probe_type(t), d)

AnswersCounted ==
    \A t \in AcquireIds : tracker[t].state = "s_probe" =>
        /\ tracker[t].release_count = Cardinality({c \in Tiles : Pending(t, c)})
        /\ \E c \in Tiles : Pending(t, c)

\* The prober has given its answer and has still to write the tags.
Unsettled(c) == \/ prober[c].state = "s_meta_write"
                \/ prober[c].state = "s_writeback_resp" /\ wb[c].state = "inactive"

\* The permission of a tile: what its tags say, or are going to say because
\* of an answer already given to a probe or a grant already taken.
Perm(c, a) ==
    IF line[c].tag # a THEN "Invalid"
    ELSE IF Unsettled(c) THEN co.newStateOnProbe[prober[c].p_type][prober[c].line_state]
    ELSE IF mshr[c].state = "s_meta_write_req" THEN mshr[c].line_state
    ELSE line[c].state

LookedUp(c) == prober[c].state \in {"s_release", "s_writeback_req", "s_writeback_resp", "s_meta_write"}

\* A state that the policy uses.
Known(st) == st = "Invalid" \/ st \in co.isHit["load"]

MshrOk(c) ==
    /\ Known(line[c].state)
    /\ mshr[c].state = "s_meta_write_req" => Known(mshr[c].line_state) /\ mshr[c].line_state # "Invalid"
    /\ mshr[c].state \in {"s_refill_req", "s_refill_resp", "s_meta_write_req", "s_drain_rpq"} =>
          line[c].tag = mshr[c].addr
    /\ mshr[c].state \in {"s_refill_req", "s_refill_resp"} => line[c].state \in {"Invalid", "Shared"}
    /\ mshr[c].state \in {"s_wb_req", "s_wb_resp", "s_meta_clear"} =>
          line[c].tag = mshr[c].old_tag /\ prober[c].state \in {"s_invalid", "s_meta_read"}
    /\ mshr[c].state \in {"s_wb_req", "s_wb_resp"} => line[c].state = "ExclusiveDirty"

ProberOk(c) ==
    /\ prober[c].state # "s_invalid" => \E x \in AcquireTypes : prober[c].p_type = co.getProbeType[x]
    /\ LookedUp(c) /\ prober[c].hit =>
          /\ line[c].tag = prober[c].addr /\ line[c].state = prober[c].line_state
          /\ prober[c].line_state # "Invalid"
          /\ mshr[c].state \in {"s_invalid", "s_refill_req", "s_refill_resp"}
    /\ LookedUp(c) /\ ~prober[c].hit =>
          /\ prober[c].state = "s_release"
          /\ \A a \in Addrs : prober[c].addr = a => Perm(c, a) = "Invalid"
    /\ prober[c].state \in {"s_writeback_req", "s_writeback_resp"} =>
          prober[c].line_state = "ExclusiveDirty"

WritebackOk(c) ==
    /\ wb[c].state # "inactive" =>
          \/ isVoluntary(wb[c].r_type)
          \/ /\ prober[c].state = "s_writeback_resp"
             /\ wb[c].addr = prober[c].addr /\ wb[c].master_xact_id = prober[c].master_xact_id
             /\ wb[c].r_type = ReleaseOnProbe(prober[c].p_type, TRUE)
    /\ wb[c].state = "release" => wb[c].data = line[c].data

Machines == \A c \in Tiles : MshrOk(c) /\ ProberOk(c) /\ WritebackOk(c)

\* Nothing follows an eviction in the release queue.
EvictionsLast ==
    \A c \in Tiles : \A i \in DOMAIN release[c] : isVoluntary(release[c][i].r_type) => i = Len(release[c])

\* A grant gives what was asked for.
GrantsRight == \A c \in Clients, t \in AcquireIds : GrantOf(t, c) => Head(grant[c]).g_type = grant_type(t)

\* Only a write of the host is answered without a read of memory.
Stages ==
    \A t \in AcquireIds : tracker[t].state \in {"s_mem_write", "s_make_grant"} => tracker[t].a_type = "writeUncached"

ProbeInv == ProbesSent /\ AnswersSent /\ AnswersCounted /\ Machines /\ EvictionsLast /\ GrantsRight /\ Stages

-----------------------------------------------------------------------------
(* Replays: what waits in the replay queue will find what it needs.        *)

Served(st, cmd) == st \in co.isHit[cmd] /\ st = co.newStateOnHit[cmd][st]
GrantedState(a_type, sharers) == co.newStateOnGrant[co.getGrantType[a_type][sharers]][a_type]

Replays ==
    \A c \in Tiles : \A i \in DOMAIN mshr[c].rpq :
        LET cmd == mshr[c].rpq[i].cmd IN
        /\ mshr[c].state \in {"s_wb_req", "s_wb_resp", "s_meta_clear", "s_refill_req", "s_refill_resp"} =>
              \A sharers \in BOOLEAN : Served(GrantedState(mshr[c].acquire_type, sharers), cmd)
        /\ mshr[c].state = "s_meta_write_req" => Served(mshr[c].line_state, cmd)
        /\ mshr[c].state = "s_drain_rpq" => Served(line[c].state, cmd)

-----------------------------------------------------------------------------
(* Lines.                                                                  *)

Exclusive(st) == st \in {"ExclusiveClean", "ExclusiveDirty"}

\* What a tile that has answered a probe may keep.
Compatible(p_type, st) ==
    /\ p_type = "invalidate" => st = "Invalid"
    /\ p_type = "downgrade" => st \in {"Invalid", "Shared"}

OneWriter ==
    \A c, d \in Tiles, a \in Addrs : c # d /\ Exclusive(Perm(c, a)) => Perm(d, a) = "Invalid"

\* A tile that has answered a transaction, its own included, keeps only what
\* the transaction leaves it, until it has taken the grant.
AnswersKept ==
    \A t \in AcquireIds, c \in Tiles, a \in Addrs :
        ~Idle(t) /\ tracker[t].addr = a /\ ~ToAnswer(t, c) /\ ~(client(t) = c /\ Consumed(t, c)) =>
            Compatible(probe_type(t), Perm(c, a))

Sharers == nClients % CountRange
SharersKnown == \A t \in AcquireIds : ~Idle(t) => tracker[t].init_sharer_cnt = Sharers

CopiesLatest == \A c \in Tiles, a \in Addrs : Perm(c, a) # "Invalid" => line[c].data = latest[a]

\* The eviction of the line has reached memory.
Written(c) == \/ mshr[c].state = "s_meta_clear"
              \/ EvictAck(c)
              \/ EvictTr(c) /\ voluntary.state = "s_ack"
\* The line is in the answer to a probe that took it away.
Returning(c, a) == \E i \in DOMAIN release[c] :
    release[c][i].addr = a /\ release[c][i].r_type \in {"invalidateData", "downgradeData"}
Owes(c, a) == (Perm(c, a) = "ExclusiveDirty" /\ ~Written(c)) \/ Returning(c, a)

MemoryLatest ==
    /\ \A a \in Addrs : mem[a] = latest[a] \/ \E c \in Tiles : Owes(c, a)
    /\ \A c \in Tiles : Written(c) /\ line[c].state = "ExclusiveDirty" => mem[line[c].tag] = latest[line[c].tag]

\* Data on its way: in a release, in the VoluntaryReleaseTracker, read from
\* memory, in a grant.
ReleaseData ==
    \A c \in Tiles, a \in Addrs : \A i \in DOMAIN release[c] : release[c][i].addr = a =>
      /\ release[c][i].r_type \in {"invalidateData", "downgradeData", "voluntaryInvalidateData"} =>
            release[c][i].data = latest[a]
      /\ release[c][i].r_type \in {"invalidateData", "downgradeData"} =>
            \A d \in Tiles : ~Exclusive(Perm(d, a))
      /\ release[c][i].r_type = "copyData" =>
            Perm(c, a) = "ExclusiveDirty" /\ ~Written(c) /\ ~EvictTr(c)
EvictionData == voluntary.state = "s_mem" => voluntary.data = latest[voluntary.addr]
ReadData == \A r \in outer : ~messageIsUncached(tracker[r.id].a_type) => r.data = latest[tracker[r.id].addr]
GrantData == \A c \in Tiles, t \in AcquireIds : GrantOf(t, c) => Head(grant[c]).data = latest[tracker[t].addr]

Travelling == ReleaseData /\ EvictionData /\ ReadData /\ GrantData

LineInv == OneWriter /\ AnswersKept /\ SharersKnown /\ CopiesLatest /\ MemoryLatest /\ Travelling

-----------------------------------------------------------------------------
(* The host's read, and reservations.                                      *)

HostAsks == htif.state = "state_mem_resp" /\ htif.a_type = "readUncached"
HostRead(t) == ~Idle(t) /\ client(t) = HTIF /\ ~Consumed(t, HTIF)
\* The answer of c to the host's read carries the line.
CopyOf(t, c, i) == release[c][i].r_type = "copyData" /\ release[c][i].master_xact_id = t

\* The value that the read is going to return is one of those seen.
ReadsSeen(t, a) ==
    /\ \A c \in Tiles : \A i \in DOMAIN release[c] : CopyOf(t, c, i) => release[c][i].data \in seen
    /\ tracker[t].state \in {"s_probe", "s_mem_read"} =>
         \/ mem[a] \in seen
         \/ \E c \in Tiles : \E i \in DOMAIN release[c] : CopyOf(t, c, i)
         \/ \E c \in Tiles : ToAnswer(t, c) /\ Perm(c, a) = "ExclusiveDirty" /\ ~Written(c)
    /\ \A r \in outer : r.id = t => r.data \in seen
    /\ GrantOf(t, HTIF) => Head(grant[HTIF]).data \in seen

HostInv ==
    \A a \in Addrs : HostAsks /\ htif.addr = a =>
        latest[a] \in seen /\ \A t \in AcquireIds : HostRead(t) => ReadsSeen(t, a)

\* Nobody else has the line of a reservation, and no transaction of it is past
\* the tile's prober, unless it is the tile's own or takes only a copy.
ReservationInv ==
    \A c \in Tiles, a \in Addrs : lrsc[c].valid /\ lrsc[c].addr = a =>
      /\ \A d \in Tiles : d # c => Perm(d, a) = "Invalid"
      /\ \A t \in AcquireIds : ~Idle(t) /\ tracker[t].addr = a =>
            (ToAnswer(t, c) /\ ~ProbedBy(t, c)) \/ client(t) = c \/ probe_type(t) = "copy"

\* A load-reserve that waits for its replay does so under the transaction that
\* brought the line.
LrAcked ==
    \A c \in Tiles, a \in Addrs : \A i \in DOMAIN mshr[c].rpq :
        mshr[c].rpq[i].cmd = "lr" /\ mshr[c].state \in {"s_meta_write_req", "s_drain_rpq"} /\ mshr[c].addr = a =>
            \E t \in AcquireIds : HeldBy(t, c) /\ tracker[t].addr = a

LrInv == ReservationInv /\ LrAcked
=============================================================================
