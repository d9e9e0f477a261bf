---------------------------- MODULE DCacheClient ----------------------------
(***************************************************************************)
(* The coherence side of a tile's data cache, HellaCache of                *)
(* rocket/src/main/scala/nbdcache.scala: the tags and data of one set of   *)
(* one way, the MSHR that may be working on that set (a second miss to the *)
(* same index never gets an MSHR of its own), the WritebackUnit, the       *)
(* ProbeUnit and the load-reservation.  Addresses in Addrs share the set,  *)
(* so a miss on one evicts the other.                                      *)
(*                                                                         *)
(* One action is one transition of one of these machines, at any speed,    *)
(* except for what the clock settles.  Two things are atomic: a request's  *)
(* tag check and its hand-over to an MSHR (stages 1 and 2 of the           *)
(* pipeline), and the prober's tag read and the meta_hazard check that     *)
(* validates it.  And the prober, which releases a line a clock or two     *)
(* before it writes the tags, has written them when the grant that its     *)
(* release made possible has crossed the chip.  The cache's other MSHRs    *)
(* appear only in what they can hold up: AckStalls and MetaStalls.         *)
(***************************************************************************)
EXTENDS TileLink

CONSTANTS
    rpqEntries,   \* nrpq, the replay queue of an MSHR
    AckStalls,    \* may the grant_ack arbiters turn this MSHR away for a clock
    MetaStalls    \* may another MSHR's tag write go first for a clock

ASSUME DCacheAssumption ==
    rpqEntries \in Nat \ {0} /\ AckStalls \in BOOLEAN /\ MetaStalls \in BOOLEAN

VARIABLES
    line,     \* [Tiles -> [tag, state, data]]
    mshr,     \* [Tiles -> MSHR]
    ackq,     \* [Tiles -> Seq of tracker ids], the MSHR's one-entry ack queue
    wb,       \* [Tiles -> WritebackUnit]
    prober,   \* [Tiles -> ProbeUnit]
    lrsc      \* [Tiles -> [valid, addr]]

dcvars == << line, mshr, ackq, wb, prober, lrsc >>

AnAddr == CHOOSE a \in Addrs : TRUE
AValue == CHOOSE v \in Values : TRUE

IdleMSHR == [state |-> "s_invalid", addr |-> AnAddr, old_tag |-> AnAddr,
             acquire_type |-> "readUncached", line_state |-> "Invalid", rpq |-> << >>]
NoReservation == [valid |-> FALSE, addr |-> AnAddr]
IdleWb == [state |-> "inactive", addr |-> AnAddr, r_type |-> "voluntaryInvalidateData",
           master_xact_id |-> 0, data |-> AValue]
IdleProber == [state |-> "s_invalid", addr |-> AnAddr, p_type |-> "copy",
               master_xact_id |-> 0, hit |-> FALSE, line_state |-> "Invalid"]

Line == [tag : Addrs, state : TileStates, data : Values]
Replay == [cmd : Cmds, data : Values]
MSHR ==
    [state : {"s_invalid", "s_wb_req", "s_wb_resp", "s_meta_clear", "s_refill_req",
              "s_refill_resp", "s_meta_write_req", "s_drain_rpq"},
     addr : Addrs, old_tag : Addrs, acquire_type : AcquireTypes,
     line_state : TileStates, rpq : Seq(Replay)]
WritebackUnit(ids) ==
    [state : {"inactive", "read", "release"}, addr : Addrs, r_type : ReleaseTypes,
     master_xact_id : ids, data : Values]
ProbeUnit(ids) ==
    [state : {"s_invalid", "s_meta_read", "s_release", "s_writeback_req", "s_writeback_resp",
              "s_meta_write"},
     addr : Addrs, p_type : ProbeTypes, master_xact_id : ids, hit : BOOLEAN,
     line_state : TileStates]
Reservation == [valid : BOOLEAN, addr : Addrs]

DCacheTypeOK(ids) ==
    /\ line \in [Tiles -> Line]
    /\ mshr \in [Tiles -> MSHR]
    /\ ackq \in [Tiles -> Seq(ids)]
    /\ wb \in [Tiles -> WritebackUnit(ids)]
    /\ prober \in [Tiles -> ProbeUnit(ids)]
    /\ lrsc \in [Tiles -> Reservation]

DCacheInit ==
    /\ line = [c \in Tiles |-> [tag |-> AnAddr, state |-> "Invalid", data |-> AValue]]
    /\ mshr = [c \in Tiles |-> IdleMSHR]
    /\ ackq = [c \in Tiles |-> << >>]
    /\ wb = [c \in Tiles |-> IdleWb]
    /\ prober = [c \in Tiles |-> IdleProber]
    /\ lrsc = [c \in Tiles |-> NoReservation]

----------------------------------------------------------------------------
(* Requests of the core.                                                   *)

tag_match(c, a) == line[c].tag = a /\ isValid(line[c].state)
permitted(c, cmd) == line[c].state \in co.isHit[cmd]
s2_hit(c, cmd, a) ==
    /\ tag_match(c, a)
    /\ permitted(c, cmd)
    /\ line[c].state = co.newStateOnHit[cmd][line[c].state]

s2_sc_fail(c, cmd, a) == cmd = "sc" /\ ~(lrsc[c].valid /\ lrsc[c].addr = a)

\* s1_nack: the prober is at work on the set.
Nacked(c) == prober[c].state # "s_invalid"

\* A hit or a replay: the data array, the reservation and the history.  A
\* store to a line that the tag check does not find (s3_way = 0) goes nowhere.
Perform(c, cmd, a, v) ==
    /\ line' = IF isWrite(cmd) /\ ~s2_sc_fail(c, cmd, a) /\ tag_match(c, a)
               THEN [line EXCEPT ![c].data = v] ELSE line
    /\ latest' = IF isWrite(cmd) /\ ~s2_sc_fail(c, cmd, a) THEN [latest EXCEPT ![a] = v] ELSE latest
    /\ lrsc' = CASE cmd = "lr" -> [lrsc EXCEPT ![c] = [valid |-> TRUE, addr |-> a]]
                 [] cmd = "sc" -> [lrsc EXCEPT ![c] = NoReservation]
                 [] OTHER -> lrsc

\* s2_nack_victim: a hit is turned away while an MSHR works on the set.
CpuHit(c, cmd, a, v) ==
    /\ ~Nacked(c)
    /\ mshr[c].state = "s_invalid"
    /\ s2_hit(c, cmd, a)
    /\ Perform(c, cmd, a, v)
    /\ UNCHANGED << mshr, ackq, wb, prober, channels >>

\* The MSHR that a primary miss allocates has sent the ack of its last
\* transaction, unless the grant_ack arbiter turned it away.
MshrFree(c) == mshr[c].state = "s_invalid" /\ (ackq[c] = << >> \/ AckStalls)

Replayed(cmd, v) == IF isPrefetch(cmd) THEN << >> ELSE << [cmd |-> cmd, data |-> v] >>

\* A hit that must set the dirty bit goes through the MSHR too.
PrimaryMiss(c, cmd, a, v) ==
    /\ ~Nacked(c)
    /\ MshrFree(c)
    /\ ~s2_hit(c, cmd, a)
    /\ LET hit == tag_match(c, a) /\ permitted(c, cmd) IN
       mshr' = [mshr EXCEPT ![c] =
         [state |-> CASE hit -> "s_meta_write_req"                        \* set dirty bit
                      [] ~hit /\ tag_match(c, a) -> "s_refill_req"        \* upgrade permissions
                      [] ~tag_match(c, a) /\ line[c].state \in co.needsWriteback -> "s_wb_req"
                      [] OTHER -> "s_meta_clear",
          addr |-> a, old_tag |-> line[c].tag,
          acquire_type |-> co.acquireOnMiss[cmd],
          line_state |-> IF hit THEN co.newStateOnHit[cmd][line[c].state] ELSE newStateOnFlush,
          rpq |-> Replayed(cmd, v)]]
    /\ UNCHANGED << line, ackq, wb, prober, lrsc, channels, latest >>

\* Mutant: an MSHR takes further misses while it drains its replay queue.
sec_rdy_draining(c, cmd) ==
    \/ mshr[c].state \in {"s_wb_req", "s_wb_resp", "s_meta_clear", "s_drain_rpq"}
    \/ /\ mshr[c].state \in {"s_refill_req", "s_refill_resp"}
       /\ ~co.needsTransactionOnSecondaryMiss[cmd][mshr[c].acquire_type]

sec_rdy(c, cmd) ==
    \/ mshr[c].state \in {"s_wb_req", "s_wb_resp", "s_meta_clear"}
    \/ /\ mshr[c].state \in {"s_refill_req", "s_refill_resp"}
       /\ ~co.needsTransactionOnSecondaryMiss[cmd][mshr[c].acquire_type]

\* A miss on the line the MSHR is already fetching.
SecondaryMiss(c, cmd, a, v) ==
    /\ ~Nacked(c)
    /\ ~s2_hit(c, cmd, a)
    /\ mshr[c].state # "s_invalid" /\ mshr[c].addr = a
    /\ sec_rdy(c, cmd)
    /\ Len(mshr[c].rpq) < rpqEntries
    /\ mshr' = [mshr EXCEPT
         ![c].acquire_type = co.acquireOnSecondary[cmd][mshr[c].acquire_type],
         ![c].rpq = @ \o Replayed(cmd, v)]
    /\ UNCHANGED << line, ackq, wb, prober, lrsc, channels, latest >>

----------------------------------------------------------------------------
(* The MSHR.                                                               *)

MshrWbReq(c) ==
    /\ mshr[c].state = "s_wb_req"
    /\ ackq[c] = << >>
    /\ wb[c].state = "inactive" /\ prober[c].state # "s_writeback_req"
    /\ wb' = [wb EXCEPT ![c] = [IdleWb EXCEPT !.state = "read", !.addr = mshr[c].old_tag]]
    /\ mshr' = [mshr EXCEPT ![c].state = "s_wb_resp"]
    /\ UNCHANGED << line, ackq, prober, lrsc, channels, latest >>

MshrWbResp(c) ==
    /\ mshr[c].state = "s_wb_resp"
    /\ grant[c] # << >>
    /\ grant' = Receive(grant, c)
    /\ ackq' = IF requiresAckForGrant(Head(grant[c]).g_type)
               THEN [ackq EXCEPT ![c] = Append(@, Head(grant[c]).master_xact_id)] ELSE ackq
    /\ mshr' = [mshr EXCEPT ![c].state = "s_meta_clear"]
    /\ UNCHANGED << line, wb, prober, lrsc, acquire, probe, release, grant_ack, latest >>

MshrMetaClear(c) ==
    /\ mshr[c].state = "s_meta_clear"
    /\ line' = [line EXCEPT ![c].tag = mshr[c].addr, ![c].state = newStateOnFlush]
    /\ mshr' = [mshr EXCEPT ![c].state = "s_refill_req"]
    /\ UNCHANGED << ackq, wb, prober, lrsc, channels, latest >>

MshrRefillReq(c) ==
    /\ mshr[c].state = "s_refill_req"
    /\ ackq[c] = << >>
    /\ HasRoom(acquire, c)
    /\ acquire' = Send(acquire, c, [a_type |-> mshr[c].acquire_type, addr |-> mshr[c].addr,
                                    data |-> AValue])
    /\ mshr' = [mshr EXCEPT ![c].state = "s_refill_resp"]
    /\ UNCHANGED << line, ackq, wb, prober, lrsc, probe, release, grant, grant_ack, latest >>

\* The tags that go with the releases already sent have been written.
ProberSettled(c) ==
    /\ prober[c].state # "s_meta_write"
    /\ ~(prober[c].state = "s_writeback_resp" /\ wb[c].state = "inactive")

\* All beats of the grant: the data array is written before the tags are.
MshrRefill(c) ==
    /\ mshr[c].state = "s_refill_resp"
    /\ grant[c] # << >>
    /\ ProberSettled(c)
    /\ LET gnt == Head(grant[c]) IN
       /\ line' = IF messageUpdatesDataArray(gnt.g_type)
                  THEN [line EXCEPT ![c].data = gnt.data] ELSE line
       /\ mshr' = [mshr EXCEPT
            ![c].state = "s_meta_write_req",
            ![c].line_state = co.newStateOnGrant[gnt.g_type][mshr[c].acquire_type]]
       /\ ackq' = IF requiresAckForGrant(gnt.g_type)
                  THEN [ackq EXCEPT ![c] = Append(@, gnt.master_xact_id)] ELSE ackq
    /\ grant' = Receive(grant, c)
    /\ UNCHANGED << wb, prober, lrsc, acquire, probe, release, grant_ack, latest >>

MshrMetaWrite(c) ==
    /\ mshr[c].state = "s_meta_write_req"
    /\ line' = [line EXCEPT ![c].tag = mshr[c].addr, ![c].state = mshr[c].line_state]
    /\ mshr' = [mshr EXCEPT ![c].state = "s_drain_rpq"]
    /\ UNCHANGED << ackq, wb, prober, lrsc, channels, latest >>

\* A replay is never nacked and its hit is not checked (s2_replay).
MshrReplay(c) ==
    /\ mshr[c].state = "s_drain_rpq"
    /\ mshr[c].rpq # << >>
    /\ LET r == Head(mshr[c].rpq) IN Perform(c, r.cmd, mshr[c].addr, r.data)
    /\ mshr' = [mshr EXCEPT ![c].rpq = Tail(@)]
    /\ UNCHANGED << ackq, wb, prober, channels >>

MshrDrained(c) ==
    /\ mshr[c].state = "s_drain_rpq"
    /\ mshr[c].rpq = << >>
    /\ mshr' = [mshr EXCEPT ![c] = IdleMSHR]
    /\ UNCHANGED << line, ackq, wb, prober, lrsc, channels, latest >>

\* Mutant: the acknowledgement waits for the next refill.
can_finish_refill_only(c) == mshr[c].state = "s_refill_req"

can_finish(c) == mshr[c].state \in {"s_invalid", "s_refill_req", "s_refill_resp"}

MshrFinish(c) ==
    /\ ackq[c] # << >>
    /\ can_finish(c)
    /\ HasRoom(grant_ack, c)
    /\ grant_ack' = Send(grant_ack, c, Head(ackq[c]))
    /\ ackq' = Receive(ackq, c)
    /\ UNCHANGED << line, mshr, wb, prober, lrsc, acquire, probe, release, grant, latest >>

----------------------------------------------------------------------------
(* The WritebackUnit: it reads the line, then sends it.                    *)

WbRead(c) ==
    /\ wb[c].state = "read"
    /\ wb' = [wb EXCEPT ![c].state = "release", ![c].data = line[c].data]
    /\ UNCHANGED << line, mshr, ackq, prober, lrsc, channels, latest >>

WbRelease(c) ==
    /\ wb[c].state = "release"
    /\ HasRoom(release, c)
    /\ release' = Send(release, c, [r_type |-> wb[c].r_type, addr |-> wb[c].addr,
                                    master_xact_id |-> wb[c].master_xact_id,
                                    data |-> wb[c].data])
    /\ wb' = [wb EXCEPT ![c] = IdleWb]
    /\ UNCHANGED << line, mshr, ackq, prober, lrsc, acquire, probe, grant, grant_ack, latest >>

----------------------------------------------------------------------------
(* The ProbeUnit.                                                          *)

\* Mutant: a probe is let in in spite of a reservation.
ProbeAccept_unreserved(c) ==
    /\ prober[c].state = "s_invalid"
    /\ probe[c] # << >>
    /\ prober' = [prober EXCEPT ![c] =
         [IdleProber EXCEPT !.state = "s_meta_read",
                            !.addr = Head(probe[c]).addr,
                            !.p_type = Head(probe[c]).p_type,
                            !.master_xact_id = Head(probe[c]).master_xact_id]]
    /\ probe' = Receive(probe, c)
    /\ UNCHANGED << line, mshr, ackq, wb, lrsc, acquire, release, grant, grant_ack, latest >>

\* A probe waits while a reservation is held.
ProbeAccept(c) ==
    /\ prober[c].state = "s_invalid"
    /\ probe[c] # << >>
    /\ ~lrsc[c].valid
    /\ prober' = [prober EXCEPT ![c] =
         [IdleProber EXCEPT !.state = "s_meta_read",
                            !.addr = Head(probe[c]).addr,
                            !.p_type = Head(probe[c]).p_type,
                            !.master_xact_id = Head(probe[c]).master_xact_id]]
    /\ probe' = Receive(probe, c)
    /\ UNCHANGED << line, mshr, ackq, wb, lrsc, acquire, release, grant, grant_ack, latest >>

\* Mutant: the prober does not wait for a victim that is being written back.
probe_rdy_always(c) == mshr[c].state # "s_drain_rpq"

\* The MSHR's victim must be gone; the prober rereads the tags until it is.  A
\* lookup that an MSHR's tag write overtakes is repeated (meta_hazard), and the
\* reads of a draining MSHR go first, so a lookup comes before the write or
\* after the drain: before it only when the write was held up.
probe_rdy(c) ==
    /\ mshr[c].state \notin {"s_wb_req", "s_wb_resp", "s_meta_clear", "s_drain_rpq"}
    /\ mshr[c].state = "s_meta_write_req" => MetaStalls

ProbeLookup(c) ==
    /\ prober[c].state = "s_meta_read"
    /\ probe_rdy(c)
    /\ prober' = [prober EXCEPT ![c].state = "s_release",
                                ![c].hit = tag_match(c, prober[c].addr),
                                ![c].line_state = IF tag_match(c, prober[c].addr)
                                                  THEN line[c].state ELSE newStateOnFlush]
    /\ UNCHANGED << line, mshr, ackq, wb, lrsc, channels, latest >>

ProbeDirty(c) == prober[c].hit /\ prober[c].line_state \in co.needsWriteback
ProbeReleaseType(c) == ReleaseOnProbe(prober[c].p_type, ProbeDirty(c))

\* releaseArb: the WritebackUnit goes first.
ReleasePort(c) == wb[c].state # "release" /\ HasRoom(release, c)

ProbeRelease(c) ==
    /\ prober[c].state = "s_release"
    /\ ReleasePort(c)
    /\ \/ /\ ProbeDirty(c)
          /\ prober' = [prober EXCEPT ![c].state = "s_writeback_req"]
          /\ UNCHANGED release
       \/ /\ ~ProbeDirty(c)
          /\ release' = Send(release, c, [r_type |-> ProbeReleaseType(c), addr |-> prober[c].addr,
                                          master_xact_id |-> prober[c].master_xact_id,
                                          data |-> AValue])
          /\ prober' = IF prober[c].hit THEN [prober EXCEPT ![c].state = "s_meta_write"]
                       ELSE [prober EXCEPT ![c] = IdleProber]
    /\ UNCHANGED << line, mshr, ackq, wb, lrsc, acquire, probe, grant, grant_ack, latest >>

ProbeWbReq(c) ==
    /\ prober[c].state = "s_writeback_req"
    /\ wb[c].state = "inactive"
    /\ wb' = [wb EXCEPT ![c] = [IdleWb EXCEPT !.state = "read",
                                              !.addr = prober[c].addr,
                                              !.r_type = ProbeReleaseType(c),
                                              !.master_xact_id = prober[c].master_xact_id]]
    /\ prober' = [prober EXCEPT ![c].state = "s_writeback_resp"]
    /\ UNCHANGED << line, mshr, ackq, lrsc, channels, latest >>

ProbeWbResp(c) ==
    /\ prober[c].state = "s_writeback_resp"
    /\ wb[c].state = "inactive"
    /\ prober' = [prober EXCEPT ![c].state = "s_meta_write"]
    /\ UNCHANGED << line, mshr, ackq, wb, lrsc, channels, latest >>

\* The tags get the state computed from what was read at the lookup.  The
\* MSHR's tag write goes first (metaWriteArb).
ProbeMetaWrite(c) ==
    /\ prober[c].state = "s_meta_write"
    /\ mshr[c].state \notin {"s_meta_write_req", "s_meta_clear"}
    /\ line' = [line EXCEPT
         ![c].tag = prober[c].addr,
         ![c].state = co.newStateOnProbe[prober[c].p_type][prober[c].line_state]]
    /\ prober' = [prober EXCEPT ![c] = IdleProber]
    /\ UNCHANGED << mshr, ackq, wb, lrsc, channels, latest >>

\* Mutant: the count of a reservation stands still.
LrscExpire_never(c) == lrsc[c].valid /\ FALSE /\ UNCHANGED << dcvars, channels, latest >>

\* lrsc_count runs out, or an sret clears it.
LrscExpire(c) ==
    /\ lrsc[c].valid
    /\ lrsc' = [lrsc EXCEPT ![c] = NoReservation]
    /\ UNCHANGED << line, mshr, ackq, wb, prober, channels, latest >>
============================================================================
