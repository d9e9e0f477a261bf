--------------------------- MODULE CoherentSystem ---------------------------
(***************************************************************************)
(* The data caches of the tiles and the host interface around the L2       *)
(* coherence agent (OuterMemorySystem and Uncore of ReferenceChip.scala).  *)
(***************************************************************************)
EXTENDS L2Agent, DCacheClient, HTIFClient

CONSTANTS
    CoreOps,      \* the requests the cores issue: << tile, command, address >>
    HostAcquires  \* the acquire types the HTIF issues

ASSUME SystemAssumption ==
    /\ CoreOps \subseteq Tiles \X Cmds \X Addrs
    /\ HostAcquires \subseteq {"readUncached", "writeUncached"}

VARIABLE seen   \* history: the values of the HTIF's line since its request

vars == << channels, latest, l2vars, dcvars, htif, seen >>

TypeOK ==
    /\ ChannelsTypeOK(TrackerIds)
    /\ L2TypeOK
    /\ DCacheTypeOK(TrackerIds)
    /\ HtifTypeOK(TrackerIds)
    /\ seen \in SUBSET Values

Init == ChannelsInit /\ L2Init /\ DCacheInit /\ HtifInit /\ seen = {}

TakeRelease(c) == TakeProbeRelease(c) \/ TakeVoluntaryRelease(c)
TrackerStep(t) == SendProbe(t) \/ MemWrite(t) \/ MemRead(t) \/ ForwardGrant(t) \/ MakeGrant(t)
VoluntaryStep == VoluntaryWrite \/ VoluntaryAck

L2Step ==
    \/ \E c \in Clients : AcceptAcquire(c) \/ TakeRelease(c) \/ TakeGrantAck(c)
    \/ \E t \in AcquireIds : TrackerStep(t)
    \/ VoluntaryStep

CoreRequest(c) ==
    \E cmd \in Cmds, a \in Addrs :
        /\ << c, cmd, a >> \in CoreOps
        /\ \E v \in IF isWrite(cmd) THEN Values ELSE {AValue} :
              \/ CpuHit(c, cmd, a, v)
              \/ PrimaryMiss(c, cmd, a, v)
              \/ SecondaryMiss(c, cmd, a, v)

MshrStep(c) ==
    \/ MshrWbReq(c) \/ MshrWbResp(c) \/ MshrMetaClear(c) \/ MshrRefillReq(c)
    \/ MshrRefill(c) \/ MshrMetaWrite(c) \/ MshrReplay(c) \/ MshrDrained(c)

WbStep(c) == WbRead(c) \/ WbRelease(c)

ProbeStep(c) ==
    \/ ProbeAccept(c) \/ ProbeLookup(c) \/ ProbeRelease(c)
    \/ ProbeWbReq(c) \/ ProbeWbResp(c) \/ ProbeMetaWrite(c)

TileStep(c) ==
    CoreRequest(c) \/ MshrStep(c) \/ MshrFinish(c) \/ WbStep(c) \/ ProbeStep(c) \/ LrscExpire(c)

HostRequest ==
    \E a_type \in HostAcquires, a \in Addrs :
        \E v \in IF acquireHasData(a_type) THEN Values ELSE {AValue} : HtifRequest(a_type, a, v)

HtifStep == HostRequest \/ HtifGrant \/ HtifFinish

\* While an uncached read is under way, every value its line takes.
Observe ==
    seen' = IF htif'.state = "state_mem_resp" /\ htif'.a_type = "readUncached"
            THEN (IF htif.state = "state_mem_resp" THEN seen ELSE {}) \cup {latest'[htif'.addr]}
            ELSE {}

OfL2(A) == A /\ UNCHANGED << dcvars, htif >> /\ Observe
OfTile(A) == A /\ UNCHANGED << l2vars, htif >> /\ Observe
OfHtif(A) == A /\ UNCHANGED << l2vars, dcvars >> /\ Observe

Next ==
    \/ OfL2(L2Step)
    \/ \E c \in Tiles : OfTile(TileStep(c))
    \/ OfHtif(HtifStep)

Spec == Init /\ [][Next]_vars

\* The machines never stop of themselves; the crossbar's round-robin arbiters
\* come back to a client whose acquire is at times blocked by a conflict, and
\* the prober sees its probe in a clock in which no reservation is held.  The
\* cores and the host ask for nothing they do not want.
Fairness ==
    /\ \A c \in Clients :
         /\ SF_vars(OfL2(AcceptAcquire(c)))
         /\ WF_vars(OfL2(TakeRelease(c)))
         /\ WF_vars(OfL2(TakeGrantAck(c)))
    /\ \A t \in AcquireIds : WF_vars(OfL2(TrackerStep(t)))
    /\ WF_vars(OfL2(VoluntaryStep))
    /\ \A c \in Tiles :
         /\ WF_vars(OfTile(MshrStep(c)))
         /\ WF_vars(OfTile(MshrFinish(c)))
         /\ WF_vars(OfTile(WbStep(c)))
         /\ SF_vars(OfTile(ProbeStep(c)))
         /\ WF_vars(OfTile(LrscExpire(c)))
    /\ WF_vars(OfHtif(HtifGrant \/ HtifFinish))

FairSpec == Spec /\ Fairness

----------------------------------------------------------------------------
(* What the core can do at once, or an MSHR does without looking.          *)
Allowed(c, cmd, a) ==
    \/ /\ ~Nacked(c) /\ mshr[c].state = "s_invalid"
       /\ tag_match(c, a) /\ permitted(c, cmd)
    \/ /\ mshr[c].state = "s_drain_rpq" /\ mshr[c].addr = a
       /\ mshr[c].rpq # << >> /\ Head(mshr[c].rpq).cmd = cmd

\* While one tile can store to a line (at once or by a replay), no other tile
\* can read it: the probes that took the other copies away come before the
\* grant, and the grant's replays before the ack that lets others ask.
SingleWriter ==
    \A c, d \in Tiles, a \in Addrs :
        c # d /\ Allowed(c, "store", a) => ~Allowed(d, "load", a)

\* Whatever a core can read from its cache is the last value anybody wrote,
\* whichever of evictions, probes, refills and host writes raced before.
ReadsLatest ==
    \A c \in Tiles, a \in Addrs : Allowed(c, "load", a) => line[c].data = latest[a]

\* A replay's hit is not checked (s2_replay goes straight to the data array):
\* the line is there, with the permission the replayed command needs.
ReplaysHit ==
    \A c \in Tiles :
        mshr[c].state = "s_drain_rpq" /\ mshr[c].rpq # << >> =>
            s2_hit(c, Head(mshr[c].rpq).cmd, mshr[c].addr)

\* The last value written to a line is never lost: some cache holds it dirty
\* or is giving it up, a writeback is carrying it, or memory has it.
InFlight(a) ==
    {wb[c].data : c \in {d \in Tiles : wb[d].state = "release" /\ wb[d].addr = a}}
    \cup UNION {{release[c][i].data : i \in {j \in DOMAIN release[c] :
                    release[c][j].addr = a /\ releaseHasData(release[c][j].r_type)}} : c \in Tiles}
    \cup (IF voluntary.state = "s_mem" /\ voluntary.addr = a THEN {voluntary.data} ELSE {})
Holds(c, a) ==
    \/ tag_match(c, a) /\ line[c].state \in co.needsWriteback
    \/ mshr[c].state = "s_meta_write_req" /\ mshr[c].addr = a
NothingLost ==
    \A a \in Addrs :
        \/ mem[a] = latest[a]
        \/ latest[a] \in InFlight(a)
        \/ \E c \in Tiles : Holds(c, a) /\ line[c].data = latest[a]

\* An uncached read of the host returns a value the line had while the read
\* was under way.
HostReadsFresh ==
    htif.state = "state_mem_resp" /\ htif.a_type = "readUncached" /\ grant[HTIF] # << >> =>
        Head(grant[HTIF]).data \in seen

\* While a reservation is held, nobody else writes the reserved line: a probe
\* waits for the reservation to run out, and a writer waits for the probe.
ReservationRespected ==
    [][\A c \in Tiles :
         lrsc[c].valid /\ latest'[lrsc[c].addr] # latest[lrsc[c].addr] =>
             line'[c].data # line[c].data]_vars

\* The agent works on one transaction of a line at a time (any_acquire_conflict
\* of uncore.scala): two would probe and grant behind each other's back.
OneTransactionPerLine ==
    \A t, u \in AcquireIds :
        t # u /\ ~Idle(t) /\ ~Idle(u) => ~isCoherenceConflict(tracker[t].addr, tracker[u].addr)

\* An acknowledgement under way finds its tracker still busy with the
\* transaction of the client that sends it, and it is the only one: uncore.scala
\* compares only the id, so a second or a late one would end somebody else's.
AckFindsTransaction ==
    \A c \in Clients : \A i \in DOMAIN grant_ack[c] :
        LET t == grant_ack[c][i] IN
        /\ t \in AcquireIds /\ tracker[t].state = "s_busy" /\ tracker[t].init_client_id = c
        /\ \A d \in Clients : \A j \in DOMAIN grant_ack[d] :
              grant_ack[d][j] = t => c = d /\ i = j

\* An MSHR that took a miss is free again: nobody waits for ever on a probe,
\* a writeback, a grant or an acknowledgement that somebody else holds back.
MissesComplete == \A c \in Tiles : mshr[c].state # "s_invalid" ~> mshr[c].state = "s_invalid"

\* A host transaction ends.
HostCompletes == htif.state # "state_rx" ~> htif.state = "state_rx"

\* uncore.scala, s_busy: "Nothing left to do but wait for transaction to
\* complete".  The transaction a busy tracker waits for does complete.
BusyCompletes ==
    \A t \in AcquireIds : tracker[t].state = "s_busy" ~> tracker[t].state = "s_idle"
============================================================================
