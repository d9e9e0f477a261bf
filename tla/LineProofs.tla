----------------------------- MODULE LineProofs -----------------------------
(***************************************************************************)
(* The third layer: who may read and write a line and where its last value *)
(* is, and on top of it what the host's reads return and what a            *)
(* reservation protects.                                                   *)
(***************************************************************************)
EXTENDS CoherentProofs

-----------------------------------------------------------------------------
(* Where a step changes a permission, a value or a line.                   *)

\* A tile answers a probe.
Answers(c) == (ProbeRelease(c) /\ ~ProbeDirty(c)) \/ (WbRelease(c) /\ ~isVoluntary(wb[c].r_type))

SamePerm(c) == \A b \in Addrs : (Perm(c, b))' = Perm(c, b)
Refilled(c) == MshrRefill(c) /\ \A b \in Addrs : (Perm(c, b))' = IF b = mshr[c].addr THEN mshr'[c].line_state ELSE "Invalid"
\* The dirty bit is set.
Dirtied(c) ==
    /\ mshr[c].state = "s_invalid"
    /\ \A b \in Addrs : \/ (Perm(c, b))' = Perm(c, b)
                        \/ Exclusive(Perm(c, b)) /\ (Perm(c, b))' = "ExclusiveDirty"
\* The answer takes from the tile what the probe asks for.
Answered(c) ==
    /\ Answers(c)
    /\ \A b \in Addrs : \/ (Perm(c, b))' = Perm(c, b) /\ (b = prober[c].addr => Perm(c, b) = "Invalid")
                        \/ /\ b = prober[c].addr /\ Perm(c, b) # "Invalid"
                           /\ (Perm(c, b))' = co.newStateOnProbe[prober[c].p_type][Perm(c, b)]
Cleared(c) == MshrMetaClear(c) /\ \A b \in Addrs : (Perm(c, b))' = "Invalid"

(* Permissions are states of the policy.                                   *)
LEMMA PermTypes ==
    ASSUME Context, NEW c \in Tiles, NEW a \in Addrs
    PROVE  Perm(c, a) \in TileStates
<1> USE DEF Context, TokenContext
<1>1. line[c].state \in TileStates /\ mshr[c].line_state \in TileStates
  BY TileTypes DEF Line, MSHR
<1>2. prober[c].p_type \in ProbeTypes /\ prober[c].line_state \in TileStates
  BY TileTypes DEF ProbeUnit
<1>3. co.newStateOnProbe[prober[c].p_type][prober[c].line_state] \in TileStates
  BY <1>2, PolicyType
<1> QED
  BY <1>1, <1>3 DEF Perm, TileStates

(* A miss that only needs the dirty bit sets it.                           *)
LEMMA PermPrimaryMiss ==
    ASSUME Context, NEW c \in Tiles, NEW cmd \in Cmds, NEW a \in Addrs, NEW v, PrimaryMiss(c, cmd, a, v)
    PROVE  Dirtied(c)
<1>1. /\ prober[c].state = "s_invalid" /\ mshr[c].state = "s_invalid" /\ UNCHANGED << line, prober, wb >>
      /\ mshr'[c].state = "s_meta_write_req" =>
            mshr'[c].line_state = "ExclusiveDirty" /\ line[c].tag = a /\ Exclusive(line[c].state)
  BY PrimaryMissEffect
<1>2. ~Unsettled(c) /\ ~Unsettled(c)'
  BY <1>1 DEF Unsettled
<1> QED
  BY <1>1, <1>2 DEF Perm, Dirtied

(* An answer takes effect in the cycle that sends it.                      *)
LEMMA PermAnswer ==
    ASSUME Context, NEW c \in Tiles, Answers(c)
    PROVE  Answered(c)
<1>1. CASE ProbeRelease(c) /\ ~ProbeDirty(c)
  <2>1. ~Unsettled(c)
    BY <1>1, MachinesProbeRelease
  <2>2. CASE ~prober[c].hit
    BY <1>1, <2>2, MachinesProbeRelease DEF Answered
  <2>3. CASE prober[c].hit
    <3>1. /\ line[c].tag = prober[c].addr /\ line[c].state \notin {"Invalid", "ExclusiveDirty"}
          /\ mshr[c].state \in {"s_invalid", "s_refill_req", "s_refill_resp"}
          /\ \A b \in Addrs : (Perm(c, b))' = IF b = prober[c].addr
                THEN co.newStateOnProbe[prober[c].p_type][line[c].state] ELSE "Invalid"
      BY <1>1, <2>3, MachinesProbeRelease
    <3>2. \A b \in Addrs : Perm(c, b) = IF b = prober[c].addr THEN line[c].state ELSE "Invalid"
      BY <2>1, <3>1 DEF Perm
    <3> QED
      BY <3>1, <3>2 DEF Answered
  <2> QED
    BY <2>2, <2>3
<1>2. CASE WbRelease(c) /\ ~isVoluntary(wb[c].r_type)
  <2>1. /\ line[c].tag = prober[c].addr /\ line[c].state = "ExclusiveDirty" /\ ~Unsettled(c)
        /\ mshr[c].state \in {"s_invalid", "s_refill_req", "s_refill_resp"}
        /\ \A b \in Addrs : (Perm(c, b))' = IF b = prober[c].addr
              THEN co.newStateOnProbe[prober[c].p_type]["ExclusiveDirty"] ELSE "Invalid"
    BY <1>2, MachinesWbRelease
  <2>2. \A b \in Addrs : Perm(c, b) = IF b = prober[c].addr THEN line[c].state ELSE "Invalid"
    BY <2>1 DEF Perm
  <2> QED
    BY <2>1, <2>2 DEF Answered
<1> QED
  BY <1>1, <1>2 DEF Answers

(* The ways in which a step can change the permissions of a tile.          *)
LEMMA PermChange ==
    ASSUME Context, [Next]_vars, NEW c \in Tiles
    PROVE  SamePerm(c) \/ Refilled(c) \/ Dirtied(c) \/ Answered(c) \/ Cleared(c)
<1> USE DEF Context, TokenContext
<1>0. MachinesOf(c)
  BY DEF ProbeInv, Machines, MachinesOf
<1>1. CASE UNCHANGED dcvars
  BY <1>0, <1>1, MachinesFrame DEF dcvars, SamePerm
<1>2. ASSUME NEW d \in Tiles, TileStep(d), d # c PROVE SamePerm(c)
  BY <1>0, <1>2, TileFrame, MachinesFrame DEF SamePerm
<1>3. CASE TileStep(c)
  <2>1. CASE CoreRequest(c)
    <3>1. PICK cmd \in Cmds, a \in Addrs, v \in Values :
               CpuHit(c, cmd, a, v) \/ PrimaryMiss(c, cmd, a, v) \/ SecondaryMiss(c, cmd, a, v)
      BY <2>1, CoreRequestCases
    <3>2. CASE SecondaryMiss(c, cmd, a, v)
      <4>1. /\ UNCHANGED << line, prober, wb >> /\ mshr'[c].state = mshr[c].state /\ mshr'[c].line_state = mshr[c].line_state
        BY <3>2, SecondaryMissEffect
      <4>2. Unsettled(c)' <=> Unsettled(c)
        BY <4>1 DEF Unsettled
      <4> QED
        BY <4>1, <4>2, PermFrame DEF SamePerm
    <3> QED
      BY <3>1, <3>2, MachinesCpuHit, PermPrimaryMiss DEF SamePerm
  <2>2. CASE MshrFinish(c) \/ LrscExpire(c)
    BY <1>0, <2>2, MachinesFrame DEF MshrFinish, LrscExpire, SamePerm
  <2>3. CASE MshrStep(c)
    BY <2>3, MachinesWbReq, MachinesWbResp, MachinesMetaClear, MachinesRefillReq, MachinesRefill,
         MachinesMetaWrite, MachinesReplay, MachinesDrained DEF MshrStep, SamePerm, Refilled, Cleared
  <2>4. CASE WbStep(c)
    BY <2>4, MachinesWbRead, MachinesWbRelease, PermAnswer DEF WbStep, SamePerm, Answers
  <2>5. CASE ProbeRelease(c)
    BY <2>5, MachinesProbeRelease, PermAnswer DEF SamePerm, Answers
  <2>6. CASE ProbeStep(c) /\ ~ProbeRelease(c)
    BY <2>6, MachinesProbeAccept, MachinesProbeLookup, MachinesProbeWbReq,
         MachinesProbeWbResp, MachinesProbeMetaWrite DEF ProbeStep, SamePerm
  <2> QED
    BY <1>3, <2>1, <2>2, <2>3, <2>4, <2>5, <2>6 DEF TileStep
<1> QED
  BY <1>1, <1>2, <1>3 DEF Next, OfL2, OfTile, OfHtif, vars

(* Without a refill no tile gains a permission.                            *)
Weaker(st, new) ==
    \/ new = st \/ new = "Invalid"
    \/ Exclusive(st) /\ new = "ExclusiveDirty"
    \/ st # "Invalid" /\ new = "Shared"

(* Who may keep a permission may keep a weaker one.                        *)
LEMMA WeakerCompatible ==
    \A p \in ProbeTypes : \A st, new : Weaker(st, new) /\ Compatible(p, st) => Compatible(p, new)
BY DEF Weaker, Compatible, Exclusive, ProbeTypes

\* The transaction a tile answers.
LEMMA AnswerEffect ==
    ASSUME Context, NEW c \in Tiles, Answers(c)
    PROVE  /\ \E t \in AcquireIds : /\ ProbedBy(t, c) /\ ProbesFor(t, prober[c].addr) /\ prober[c].p_type = probe_type(t)
                                    /\ prober[c].master_xact_id = t
           /\ \A b \in Addrs : /\ Weaker(Perm(c, b), (Perm(c, b))')
                               /\ b = prober[c].addr => Compatible(prober[c].p_type, (Perm(c, b))')
           /\ mshr[c].state \in {"s_invalid", "s_refill_req", "s_refill_resp", "s_meta_write_req", "s_drain_rpq"}
           /\ prober[c].state \in {"s_release", "s_writeback_resp"}
<1> USE DEF Context, TokenContext, ProbeInv
<1>1. Probing(c) /\ prober[c].state \in {"s_release", "s_writeback_resp"} /\ LookedUp(c)
  <2>1. CASE ProbeRelease(c)
    BY <2>1 DEF ProbeRelease, Probing, LookedUp
  <2>2. CASE WbRelease(c) /\ ~isVoluntary(wb[c].r_type)
    BY <2>2, MachineFacts DEF WbRelease, Probing
  <2> QED
    BY <2>1, <2>2 DEF Answers
<1>2. PICK t \in AcquireIds : t = prober[c].master_xact_id
  BY <1>1 DEF ProbesSent
<1>3. ProbedBy(t, c) /\ ProbesFor(t, prober[c].addr) /\ prober[c].p_type = probe_type(t)
  BY <1>1, <1>2 DEF ProbesSent, ProbedBy
<1>4. mshr[c].state \in {"s_invalid", "s_refill_req", "s_refill_resp", "s_meta_write_req", "s_drain_rpq"}
  BY <1>1, MachineFacts, TileTypes DEF MSHR
<1>5. prober[c].p_type \in ProbeTypes
  BY TileTypes DEF ProbeUnit
<1>6. PICK x \in AcquireTypes : prober[c].p_type = co.getProbeType[x]
  BY <1>1, MachineFacts DEF ProberOk
<1>7. ASSUME NEW b \in Addrs
      PROVE  /\ Weaker(Perm(c, b), (Perm(c, b))')
             /\ b = prober[c].addr => Compatible(prober[c].p_type, (Perm(c, b))')
  <2>1. \/ (Perm(c, b))' = Perm(c, b) /\ (b = prober[c].addr => Perm(c, b) = "Invalid")
        \/ /\ b = prober[c].addr /\ Perm(c, b) # "Invalid"
           /\ (Perm(c, b))' = co.newStateOnProbe[prober[c].p_type][Perm(c, b)]
    BY PermAnswer DEF Answered
  <2>2. PICK st \in TileStates : st = Perm(c, b)
    BY PermTypes
  <2>3. PICK new : new = (Perm(c, b))'
    OBVIOUS
  <2>4. PICK p \in ProbeTypes : p = prober[c].p_type
    BY <1>5
  <2>5. \/ new = co.newStateOnProbe[p][st] /\ st # "Invalid"
        \/ new = st /\ (b = prober[c].addr => st = "Invalid")
    BY <2>1, <2>2, <2>3, <2>4
  <2>6. /\ p = "copy" => co.newStateOnProbe[p][st] = st
        /\ p = "invalidate" => co.newStateOnProbe[p][st] = "Invalid"
        /\ p = "downgrade" => co.newStateOnProbe[p][st] = "Shared"
    BY <1>6, <2>4, PolicyProbes
  <2>7. Weaker(st, new) /\ (b = prober[c].addr => Compatible(p, new))
    BY <2>4, <2>5, <2>6 DEF Weaker, Compatible, ProbeTypes
  <2> QED
    BY <2>2, <2>3, <2>4, <2>7
<1> QED
  BY <1>1, <1>2, <1>3, <1>4, <1>7

(* Without a grant no tile gains a permission.                             *)
LEMMA PermWeaker ==
    ASSUME Context, [Next]_vars, NEW c \in Tiles, ~MshrRefill(c), NEW b \in Addrs
    PROVE  Weaker(Perm(c, b), (Perm(c, b))')
BY PermChange, AnswerEffect DEF SamePerm, Refilled, Dirtied, Answered, Cleared, Weaker

(* A grant that has been taken stays taken until the transaction ends.     *)
LEMMA ConsumedKept ==
    ASSUME Context, [Next]_vars, NEW t \in AcquireIds, NEW c \in Clients, ~Idle(t)', Consumed(t, c)
    PROVE  Consumed(t, c)'
<1> USE DEF Context, TokenContext, TokenInv
<1>1. t \in TrackerIds
  BY ClientSets
<1>2. BusyFor(t, c) /\ ~InOuter(t) /\ \A d \in Clients : ~GrantOf(t, d)
  BY <1>1 DEF Consumed, OnePlace, BusyFor
<1>3. ~Idle(t) /\ tracker[t].state = "s_busy"
  BY <1>2 DEF BusyFor, Idle
<1>4. tracker'[t].init_client_id = c
  BY <1>2, <1>3, TrackerKept DEF BusyFor, client
<1>5. Tokens'
  BY TokensStep
<1>6. \A d \in Clients : ~GrantOf(t, d)'
  <2> SUFFICES ASSUME NEW d \in Clients, GrantOf(t, d)' PROVE FALSE
    OBVIOUS
  <2>1. ForwardGrant(t) \/ MakeGrant(t)
    BY <1>2, GrantChange
  <2>2. ~ForwardGrant(t)
    BY <1>2 DEF ForwardGrant, InOuter
  <2>3. ~MakeGrant(t)
    BY <1>3 DEF MakeGrant
  <2> QED
    BY <2>1, <2>2, <2>3
<1>7. tracker'[t].state = "s_busy" /\ ~InOuter(t)'
  <2>1. CASE UNCHANGED << tracker, outer >>
    BY <1>2, <1>3, <2>1 DEF InOuter
  <2>2. ASSUME NEW d \in Clients, AcceptAcquire(d) PROVE tracker'[t] = tracker[t] /\ UNCHANGED outer
    BY <1>3, <2>2, AcceptEffect
  <2>3. ASSUME NEW d \in Clients, TakeGrantAck(d) PROVE tracker'[t] = tracker[t] /\ UNCHANGED outer
    <3>1. tracker'[t] # IdleTracker
      BY DEF Idle, IdleTracker
    <3> QED
      BY <2>3, <3>1 DEF TakeGrantAck
  <2>4. ASSUME NEW d \in Clients, TakeProbeRelease(d) PROVE tracker'[t].state = "s_busy" /\ UNCHANGED outer
    BY <1>3, <2>4, TakeProbeReleaseEffect DEF TakeProbeRelease
  <2>5. tracker \in [AcquireIds -> AcquireTracker]
    BY DEF TypeOK, L2TypeOK
  <2>6. ASSUME NEW u \in AcquireIds, SendProbe(u) PROVE tracker'[t].state = "s_busy" /\ UNCHANGED outer
    BY <1>3, <2>5, <2>6 DEF SendProbe
  <2>7. ASSUME NEW u \in AcquireIds, MemWrite(u) PROVE tracker'[t].state = "s_busy" /\ UNCHANGED outer
    BY <1>3, <2>5, <2>7 DEF MemWrite
  <2>8. ASSUME NEW u \in AcquireIds, MakeGrant(u) PROVE tracker'[t].state = "s_busy" /\ UNCHANGED outer
    BY <1>3, <2>5, <2>8 DEF MakeGrant
  <2>9. ASSUME NEW u \in AcquireIds, MemRead(u) PROVE tracker'[t].state = "s_busy" /\ ~InOuter(t)'
    BY <1>2, <1>3, <2>5, <2>9 DEF MemRead, InOuter
  <2>10. ASSUME NEW u \in AcquireIds, ForwardGrant(u) PROVE tracker'[t] = tracker[t] /\ outer' \subseteq outer
    BY <2>10 DEF ForwardGrant
  <2>11. (\E d \in Clients : TakeVoluntaryRelease(d)) \/ VoluntaryStep => UNCHANGED << tracker, outer >>
    BY DEF TakeVoluntaryRelease, VoluntaryStep, VoluntaryWrite, VoluntaryAck
  <2>12. CASE L2Step
    <3>1. tracker'[t].state = "s_busy" /\ (~InOuter(t)' \/ outer' \subseteq outer)
      BY <1>3, <2>2, <2>3, <2>4, <2>6, <2>7, <2>8, <2>9, <2>10, <2>11, <2>12 DEF L2Step, TakeRelease, TrackerStep
    <3> QED
      BY <1>2, <3>1 DEF InOuter
  <2> QED
    BY <2>1, <2>12 DEF Next, OfL2, OfTile, OfHtif, l2vars, vars
<1>8. PICK d \in Clients : Consumed(t, d)'
  BY <1>5, <1>6, <1>7 DEF Tokens, OnePlace
<1>9. BusyFor(t, d)'
  BY <1>1, <1>5, <1>8 DEF Tokens, OnePlace, Consumed
<1>10. d = c
  BY <1>4, <1>9 DEF BusyFor, client
<1> QED
  BY <1>8, <1>10

(* A transaction that starts has still to ask every tile.                  *)
LEMMA NewTransaction ==
    ASSUME TypeOK, [Next]_vars, NEW t \in AcquireIds, Idle(t), ~Idle(t)'
    PROVE  /\ tracker'[t].probe_flags = Tiles /\ tracker'[t].state = "s_probe" /\ tracker'[t].init_sharer_cnt = Sharers
           /\ \E c \in Clients : /\ AcceptAcquire(c) /\ tracker'[t].init_client_id = c
                                 /\ acquire[c] # << >> /\ tracker'[t].addr = Head(acquire[c]).addr
                                 /\ \A u \in AcquireIds : ~Idle(u) => tracker[u].addr # Head(acquire[c]).addr
                                 /\ \A u \in AcquireIds : u # t => tracker'[u] = tracker[u]
<1> USE DEF Idle
<1>1. tracker \in [AcquireIds -> AcquireTracker]
  BY DEF TypeOK, L2TypeOK
<1>2. ASSUME NEW c \in Clients, AcceptAcquire(c)
      PROVE  /\ tracker'[t].probe_flags = Tiles /\ tracker'[t].state = "s_probe" /\ tracker'[t].init_sharer_cnt = Sharers
             /\ tracker'[t].init_client_id = c /\ acquire[c] # << >> /\ tracker'[t].addr = Head(acquire[c]).addr
             /\ \A u \in AcquireIds : ~Idle(u) => tracker[u].addr # Head(acquire[c]).addr
             /\ \A u \in AcquireIds : u # t => tracker'[u] = tracker[u]
  BY <1>2, AcceptEffect DEF Sharers
<1>3. ASSUME NEW c \in Clients, TakeGrantAck(c) PROVE FALSE
  BY <1>3 DEF TakeGrantAck, IdleTracker
<1>4. ASSUME NEW c \in Clients, TakeProbeRelease(c) PROVE FALSE
  BY <1>4, TakeProbeReleaseEffect
<1>5. ASSUME NEW u \in AcquireIds, SendProbe(u) \/ MemWrite(u) \/ MemRead(u) PROVE FALSE
  BY <1>1, <1>5 DEF SendProbe, MemWrite, MemRead, AcquireTracker
<1>6. ASSUME NEW u \in AcquireIds, ForwardGrant(u) \/ MakeGrant(u) PROVE FALSE
  BY <1>1, <1>6 DEF ForwardGrant, MakeGrant, AcquireTracker
<1>7. (\E c \in Clients : TakeVoluntaryRelease(c)) \/ VoluntaryStep => UNCHANGED tracker
  BY DEF TakeVoluntaryRelease, VoluntaryStep, VoluntaryWrite, VoluntaryAck
<1> QED
  BY <1>2, <1>3, <1>4, <1>5, <1>6, <1>7
     DEF Next, OfL2, OfTile, OfHtif, L2Step, TakeRelease, TrackerStep, l2vars, vars

(* A tile has to answer until it answers.                                  *)
LEMMA ToAnswerKept ==
    ASSUME Context, [Next]_vars, NEW t \in AcquireIds, NEW c \in Tiles, ToAnswer(t, c)
    PROVE  ToAnswer(t, c)' \/ (Answers(c) /\ prober[c].master_xact_id = t)
<1> USE DEF Context, TokenContext, ProbeInv
<1>1. CASE UNCHANGED vars \/ OfHtif(HtifStep)
  <2>1. UNCHANGED << tracker, probe, prober, wb >>
    BY <1>1 DEF vars, OfHtif, HtifStep, HostRequest, HtifRequest, HtifGrant, HtifFinish, channels, l2vars, dcvars
  <2> QED
    BY <2>1 DEF ToAnswer, Flagged, ProbeIn, ProbedBy, Probing
<1>2. CASE OfL2(L2Step)
  <2>1. L2Step /\ UNCHANGED dcvars
    BY <1>2 DEF OfL2
  <2>2. SameProbers
    BY <2>1 DEF SameProbers, Probing, dcvars
  <2>3. ASSUME UNCHANGED probe, tracker[t].probe_flags \subseteq tracker'[t].probe_flags PROVE ToAnswer(t, c)'
    BY <2>2, <2>3 DEF ToAnswer, Flagged, ProbeIn, ProbedBy, SameProbers
  <2>4. ASSUME NEW d \in Clients, AcceptAcquire(d) PROVE ToAnswer(t, c)'
    <3>1. UNCHANGED probe /\ (tracker'[t] = tracker[t] \/ tracker'[t].probe_flags = Tiles)
      BY <2>4, AcceptEffect
    <3> QED
      BY <2>3, <3>1 DEF ProbesSent
  <2>5. ASSUME NEW d \in Clients, TakeRelease(d) PROVE ToAnswer(t, c)'
    <3>1. UNCHANGED probe /\ tracker'[t].probe_flags = tracker[t].probe_flags
      BY <2>5, TakeProbeReleaseEffect DEF TakeRelease, TakeProbeRelease, TakeVoluntaryRelease
    <3> QED
      BY <2>3, <3>1
  <2>6. CASE \E u \in AcquireIds : SendProbe(u)
    BY <2>1, <2>6, ProbeTokensSend DEF SameToAnswer
  <2>7. CASE \/ \E d \in Clients : TakeGrantAck(d)
             \/ \E u \in AcquireIds : MemWrite(u) \/ MemRead(u) \/ ForwardGrant(u) \/ MakeGrant(u)
             \/ VoluntaryStep
    BY <2>2, <2>7, AgentFrame, ProbesSentFrame DEF SameToAnswer
  <2> QED
    BY <2>1, <2>4, <2>5, <2>6, <2>7 DEF L2Step, TrackerStep
<1>3. ASSUME NEW d \in Tiles, OfTile(TileStep(d)) PROVE ToAnswer(t, c)' \/ (Answers(c) /\ prober[c].master_xact_id = t)
  <2>1. TileStep(d) /\ UNCHANGED l2vars
    BY <1>3 DEF OfTile
  <2>2. tracker' = tracker
    BY <2>1 DEF l2vars
  <2>3. CASE c # d
    <3>1. prober'[c] = prober[c] /\ wb'[c] = wb[c] /\ probe'[c] = probe[c]
      BY <2>1, <2>3, TileFrame
    <3> QED
      BY <2>2, <3>1 DEF ToAnswer, Flagged, ProbeIn, ProbedBy, Probing
  <2>4. CASE c = d
    <3>1. CASE ProbeAccept(c)
      BY <2>1, <2>4, <3>1, ProbeTokensAccept DEF SameToAnswer
    <3>2. CASE (WbRelease(c) /\ ~isVoluntary(wb[c].r_type)) \/ (ProbeRelease(c) /\ ~ProbeDirty(c))
      <4>1. UNCHANGED << tracker, probe >>
        BY <2>2, <3>2 DEF WbRelease, ProbeRelease
      <4>2. CASE ProbedBy(t, c)
        BY <3>2, <4>2 DEF Answers, ProbedBy
      <4>3. CASE ~ProbedBy(t, c)
        BY <4>1, <4>3 DEF ToAnswer, Flagged, ProbeIn
      <4> QED
        BY <4>2, <4>3
    <3>3. CASE WbRelease(c) /\ isVoluntary(wb[c].r_type)
      <4>1. UNCHANGED << tracker, probe, prober >> /\ prober[c].state \in {"s_invalid", "s_meta_read"}
        BY <2>2, <3>3, MachineFacts DEF WbRelease
      <4> QED
        BY <4>1 DEF ToAnswer, Flagged, ProbeIn, ProbedBy, Probing
    <3>4. CASE ~ProbeAccept(c) /\ ~WbRelease(c) /\ ~(ProbeRelease(c) /\ ~ProbeDirty(c))
      <4>1. /\ UNCHANGED << probe, release >>
            /\ Probing(c)' <=> Probing(c)
            /\ Probing(c) => prober'[c].master_xact_id = prober[c].master_xact_id
        BY <2>1, <2>4, <3>4, ProberKept
      <4> QED
        BY <2>2, <4>1 DEF ToAnswer, Flagged, ProbeIn, ProbedBy
    <3> QED
      BY <3>1, <3>2, <3>3, <3>4
  <2> QED
    BY <2>3, <2>4
<1> QED
  BY <1>1, <1>2, <1>3 DEF Next

(* The refill makes the transaction one whose grant has been taken.        *)
LEMMA RefillConsumes ==
    ASSUME Context, NEW c \in Tiles, MshrRefill(c), NEW t \in AcquireIds, GrantOf(t, c)
    PROVE  Consumed(t, c)'
<1> USE DEF Context, TokenContext, TokenInv
<1>1. ackq[c] = << >> /\ ackq \in [Tiles -> Seq(TrackerIds)]
  BY DEF Lengths, MshrRefill, TypeOK, DCacheTypeOK
<1>2. ackq' = [ackq EXCEPT ![c] = Append(@, t)]
  BY DEF MshrRefill, GrantOf
<1>3. ackq'[c] = << t >>
  BY <1>1, <1>2
<1> QED
  BY <1>3 DEF Consumed, HeldBy

-----------------------------------------------------------------------------
(* One writer.  The promises of all the layers are used from here on.      *)

LineContext == Context /\ LineInv /\ Replays /\ SharersFit

(* Every transaction counts the same sharers, all the clients.             *)
LEMMA SharersKnownStep == ASSUME LineContext, [Next]_vars PROVE SharersKnown'
<1> USE DEF LineContext, LineInv, Context, TokenContext
<1> SUFFICES ASSUME NEW t \in AcquireIds, ~Idle(t)' PROVE tracker'[t].init_sharer_cnt = Sharers
  BY DEF SharersKnown, Sharers
<1>1. CASE Idle(t)
  BY <1>1, NewTransaction
<1>2. CASE ~Idle(t)
  BY <1>2, TrackerKept DEF SharersKnown
<1> QED
  BY <1>1, <1>2

(* With several tiles a grant counts the other sharers.                    *)
LEMMA SharersCounted ==
    ASSUME SharersFit, NEW c \in Tiles, NEW d \in Tiles, c # d
    PROVE  Sharers > 0
<1>1. nTiles # 1 /\ nTiles \in Nat \ {0}
  BY TileLinkAssumption DEF Tiles
<1>2. nClients < CountRange /\ nClients \in Nat \ {0} /\ CountRange \in Nat \ {0}
  BY <1>1, CountRangePositive DEF SharersFit, nClients
<1>3. nClients % CountRange = nClients
  BY <1>2, CountKept
<1> QED
  BY <1>2, <1>3 DEF Sharers

\* A transaction past its probes that is still to be granted: every tile
\* has only what the transaction leaves it.
LEMMA PastProbes ==
    ASSUME Context, NEW t \in AcquireIds, ~Idle(t), tracker[t].state # "s_probe", NEW c \in Tiles
    PROVE  ~ToAnswer(t, c) /\ ~Answer(t, c)
<1> USE DEF Context, TokenContext, ProbeInv
<1>1. ~Flagged(t, c)
  BY DEF ProbesSent, Flagged
<1>2. ~ProbeIn(t, c) /\ ~ProbedBy(t, c)
  BY DEF ProbesSent, ProbeIn, ProbesFor
<1>3. ~Answer(t, c)
  BY DEF AnswersSent, Answer, ProbesFor
<1> QED
  BY <1>1, <1>2, <1>3 DEF ToAnswer

(* While a grant is under way every tile has only what the transaction     *)
(* leaves it.                                                              *)
LEMMA GrantPending ==
    ASSUME Context, AnswersKept, NEW t \in AcquireIds, ~Idle(t), tracker[t].state # "s_probe",
           ~Consumed(t, client(t)), NEW c \in Tiles, NEW a \in Addrs, tracker[t].addr = a
    PROVE  Compatible(probe_type(t), Perm(c, a))
<1>1. ~ToAnswer(t, c)
  BY PastProbes
<1> QED
  BY <1>1 DEF AnswersKept

(* Two transactions are never about the same line.                         *)
LEMMA SameLine ==
    ASSUME Context, NEW t \in AcquireIds, NEW u \in AcquireIds, ~Idle(t), ~Idle(u), tracker[t].addr = tracker[u].addr
    PROVE  t = u
BY DEF Context, TokenContext, OneTransactionPerLine, isCoherenceConflict

(* A grant finds that all the others have given up what it gives.          *)
LEMMA OneWriterStep == ASSUME LineContext, [Next]_vars PROVE OneWriter'
<1> USE DEF LineContext, LineInv
<1> SUFFICES ASSUME NEW c \in Tiles, NEW d \in Tiles, NEW a \in Addrs, c # d, Exclusive((Perm(c, a))'), (Perm(d, a))' # "Invalid"
             PROVE  FALSE
  BY DEF OneWriter
<1>1. CASE ~MshrRefill(c) /\ ~MshrRefill(d)
  <2>1. Weaker(Perm(c, a), (Perm(c, a))') /\ Weaker(Perm(d, a), (Perm(d, a))')
    BY <1>1, PermWeaker
  <2>2. Exclusive(Perm(c, a)) /\ Perm(d, a) # "Invalid"
    BY <2>1 DEF Weaker, Exclusive
  <2> QED
    BY <2>2 DEF OneWriter
<1>2. ASSUME NEW e \in Tiles, NEW f \in Tiles, e # f, MshrRefill(e)
      PROVE  /\ SamePerm(f)
             /\ a # mshr[e].addr => (Perm(e, a))' = "Invalid"
             /\ a = mshr[e].addr => /\ (Perm(e, a))' # "Invalid" => ~Exclusive(Perm(f, a))
                                    /\ Exclusive((Perm(e, a))') => Perm(f, a) = "Invalid"
  <2>1. PICK t \in AcquireIds, s \in BOOLEAN :
           /\ tracker[t].state = "s_busy" /\ client(t) = e /\ ~Consumed(t, e)
           /\ tracker[t].addr = mshr[e].addr /\ tracker[t].a_type = mshr[e].acquire_type
           /\ CachedType(mshr[e].acquire_type) /\ s = (tracker[t].init_sharer_cnt > 0)
           /\ mshr'[e].line_state = GrantedState(mshr[e].acquire_type, s)
           /\ line'[f] = line[f] /\ mshr'[f] = mshr[f] /\ UNCHANGED << wb, prober >>
    BY <1>2, RefillEffect
  <2>2. MachinesOf(f)
    BY DEF Context, ProbeInv, Machines, MachinesOf
  <2>3. SamePerm(f)
    BY <2>1, <2>2, MachinesFrame DEF SamePerm
  <2>4. \A b \in Addrs : (Perm(e, b))' = IF b = mshr[e].addr THEN mshr'[e].line_state ELSE "Invalid"
    BY <1>2, MachinesRefill
  <2>5. s = TRUE
    BY <1>2, <2>1, SharersCounted DEF SharersKnown, Idle
  <2>6. ASSUME a = mshr[e].addr
        PROVE  ~Exclusive(Perm(f, a)) /\ (Exclusive((Perm(e, a))') => Perm(f, a) = "Invalid")
    <3>1. PICK x : x = mshr[e].acquire_type
      OBVIOUS
    <3>2. (Perm(e, a))' = GrantedState(x, TRUE) /\ CachedType(x) /\ probe_type(t) = co.getProbeType[x]
      BY <2>1, <2>4, <2>5, <2>6, <3>1 DEF probe_type
    <3>3. Compatible(probe_type(t), Perm(f, a))
      BY <2>1, <2>6, GrantPending DEF Idle
    <3>4. probe_type(t) \in {"invalidate", "downgrade"} /\ (Exclusive(GrantedState(x, TRUE)) => probe_type(t) = "invalidate")
      BY <3>2, PolicyMessages, PolicyGrants
    <3> QED
      BY <3>2, <3>3, <3>4 DEF Compatible, Exclusive
  <2> QED
    BY <2>3, <2>4, <2>6
<1>3. CASE MshrRefill(c)
  BY <1>2, <1>3 DEF SamePerm, Exclusive
<1>4. CASE MshrRefill(d)
  BY <1>2, <1>4 DEF SamePerm, Exclusive
<1> QED
  BY <1>1, <1>3, <1>4

(* Nobody takes back what he has given up while the transaction lasts: no  *)
(* other transaction of the line can grant it.                             *)
LEMMA AnswersKeptStep == ASSUME LineContext, [Next]_vars PROVE AnswersKept'
<1> USE DEF LineContext, LineInv, Context, TokenContext
<1> SUFFICES ASSUME NEW t \in AcquireIds, NEW c \in Tiles, NEW a \in Addrs,
                    ~Idle(t)', tracker'[t].addr = a, ~ToAnswer(t, c)', ~(client(t)' = c /\ Consumed(t, c)')
             PROVE  Compatible(probe_type(t)', (Perm(c, a))')
  BY DEF AnswersKept
<1>1. ~Idle(t)
  <2> SUFFICES ASSUME Idle(t) PROVE FALSE
    OBVIOUS
  <2>1. tracker'[t].probe_flags = Tiles
    BY NewTransaction
  <2> QED
    BY <2>1 DEF ToAnswer, Flagged
<1>2. tracker[t].addr = a /\ client(t)' = client(t) /\ probe_type(t)' = probe_type(t)
  BY <1>1, TrackerKept DEF client, probe_type
<1>3. ~(client(t) = c /\ Consumed(t, c))
  BY <1>2, ConsumedKept, ClientSets
<1>4. PICK p \in ProbeTypes : p = probe_type(t)
  BY PolicyType, TrackerFields DEF probe_type
<1>5. CASE ToAnswer(t, c)
  <2>1. Answers(c) /\ prober[c].master_xact_id = t
    BY <1>5, ToAnswerKept
  <2>2. ProbesFor(t, prober[c].addr) /\ prober[c].p_type = probe_type(t)
    BY <2>1, AnswerEffect
  <2>3. Compatible(prober[c].p_type, (Perm(c, a))')
    BY <1>2, <2>1, <2>2, AnswerEffect DEF ProbesFor
  <2> QED
    BY <1>2, <2>2, <2>3
<1>6. CASE ~ToAnswer(t, c) /\ ~MshrRefill(c)
  <2>1. Compatible(p, Perm(c, a))
    BY <1>1, <1>2, <1>3, <1>4, <1>6 DEF AnswersKept
  <2>2. Weaker(Perm(c, a), (Perm(c, a))')
    BY <1>6, PermWeaker
  <2>3. Compatible(p, (Perm(c, a))')
    BY <2>1, <2>2, WeakerCompatible
  <2> QED
    BY <1>2, <1>4, <2>3
<1>7. CASE MshrRefill(c)
  <2>1. PICK u \in AcquireIds : /\ GrantOf(u, c) /\ tracker[u].state = "s_busy" /\ client(u) = c
                                /\ tracker[u].addr = mshr[c].addr
    BY <1>7, RefillEffect
  <2>2. Consumed(u, c)' /\ ~Idle(u)
    BY <1>7, <2>1, RefillConsumes DEF Idle
  <2>3. a # mshr[c].addr
    BY <1>1, <1>2, <2>1, <2>2, SameLine
  <2>4. (Perm(c, a))' = "Invalid"
    BY <1>7, <2>3, MachinesRefill
  <2> QED
    BY <2>4 DEF Compatible
<1> QED
  BY <1>5, <1>6, <1>7

-----------------------------------------------------------------------------
(* Values.  A store writes a line that its tile holds dirty.               *)

Writes(c, a) ==
    /\ Perm(c, a) = "ExclusiveDirty" /\ mshr[c].state \in {"s_invalid", "s_drain_rpq"}
    /\ line'[c].data = latest'[a] /\ \A b \in Addrs : b # a => latest'[b] = latest[b]
    /\ \A d \in Tiles : SamePerm(d) /\ (d # c => line'[d] = line[d])
    /\ \A d \in Tiles : mshr'[d].state = mshr[d].state
    /\ UNCHANGED << channels, voluntary, tracker, mem, outer >>

(* A tile has permissions only for the line in its way.                    *)
LEMMA PermTag == ASSUME NEW c \in Tiles, NEW a \in Addrs, Perm(c, a) # "Invalid" PROVE line[c].tag = a
BY DEF Perm

(* A store that hits writes a line the tile owns.                          *)
LEMMA PerformCases ==
    ASSUME Context, NEW c \in Tiles, NEW cmd \in Cmds, NEW a \in Addrs, NEW v, s2_hit(c, cmd, a), Perform(c, cmd, a, v),
           mshr[c].state \in {"s_invalid", "s_drain_rpq"}, ~Unsettled(c)
    PROVE  \/ /\ Perm(c, a) = "ExclusiveDirty" /\ line'[c].data = latest'[a]
              /\ \A b \in Addrs : b # a => latest'[b] = latest[b]
           \/ UNCHANGED << latest, line >>
<1> USE DEF Context, TokenContext
<1>0. line \in [Tiles -> Line] /\ latest \in [Addrs -> Values]
  BY TileTypes DEF TypeOK, ChannelsTypeOK
<1>1. CASE ~(isWrite(cmd) /\ ~s2_sc_fail(c, cmd, a))
  BY <1>1 DEF Perform
<1>2. CASE isWrite(cmd) /\ ~s2_sc_fail(c, cmd, a)
  <2>1. /\ line[c].tag = a /\ line[c].state \in co.isHit[cmd] /\ tag_match(c, a)
        /\ line[c].state = co.newStateOnHit[cmd][line[c].state]
    BY DEF s2_hit, tag_match, permitted
  <2>2. line' = [line EXCEPT ![c].data = v] /\ latest' = [latest EXCEPT ![a] = v]
    BY <1>2, <2>1 DEF Perform
  <2>3. Known(line[c].state) /\ line[c].state \in TileStates
    BY <1>0, MachineFacts DEF MshrOk, Line
  <2>4. line[c].state = "ExclusiveDirty"
    BY <1>2, <2>1, <2>3, PolicyHits
  <2>5. Perm(c, a) = "ExclusiveDirty"
    BY <2>1, <2>4 DEF Perm
  <2> QED
    BY <1>0, <2>2, <2>5 DEF Line
<1> QED
  BY <1>1, <1>2

(* A hit writes a line the tile owns, or nothing.                          *)
LEMMA CpuHitWrites ==
    ASSUME Context, NEW c \in Tiles, NEW cmd \in Cmds, NEW a \in Addrs, NEW v, CpuHit(c, cmd, a, v), UNCHANGED l2vars
    PROVE  Writes(c, a) \/ UNCHANGED << latest, line >>
<1> USE DEF Context, TokenContext
<1>1. /\ prober[c].state = "s_invalid" /\ mshr[c].state = "s_invalid" /\ s2_hit(c, cmd, a) /\ Perform(c, cmd, a, v)
      /\ UNCHANGED << mshr, ackq, wb, prober, channels, voluntary, tracker, mem, outer >>
  BY DEF CpuHit, Nacked, l2vars
<1>2. ~Unsettled(c)
  BY <1>1, MachineFacts
<1>3. \/ /\ Perm(c, a) = "ExclusiveDirty" /\ line'[c].data = latest'[a]
         /\ \A b \in Addrs : b # a => latest'[b] = latest[b]
      \/ UNCHANGED << latest, line >>
  BY <1>1, <1>2, PerformCases
<1>4. SamePerm(c) /\ \A d \in Tiles : d # c => line'[d] = line[d]
  BY <1>1, MachinesCpuHit, PerformEffect DEF SamePerm
<1>5. \A d \in Tiles : d # c => SamePerm(d)
  BY <1>1, <1>4, MachinesFrame DEF SamePerm, ProbeInv, Machines, MachinesOf
<1> QED
  BY <1>1, <1>3, <1>4, <1>5 DEF Writes

(* A replay writes a line the tile owns, or nothing.                       *)
LEMMA ReplayWrites ==
    ASSUME Context, Replays, NEW c \in Tiles, MshrReplay(c), UNCHANGED l2vars
    PROVE  (\E a \in Addrs : Writes(c, a)) \/ UNCHANGED << latest, line >>
<1> USE DEF Context, TokenContext
<1>1. /\ mshr[c].state = "s_drain_rpq" /\ mshr[c].rpq # << >>
      /\ UNCHANGED << ackq, wb, prober, channels, voluntary, tracker, mem, outer >>
  BY DEF MshrReplay, l2vars
<1>0. mshr[c] \in MSHR /\ mshr \in [Tiles -> MSHR]
  BY TileTypes
<1>2. Head(mshr[c].rpq) = mshr[c].rpq[1] /\ mshr[c].rpq[1] \in Replay
  BY <1>0, <1>1 DEF MSHR
<1>3. PICK cmd \in Cmds, v \in Values : cmd = Head(mshr[c].rpq).cmd /\ v = Head(mshr[c].rpq).data
  BY <1>2 DEF Replay
<1>4. PICK a \in Addrs : a = mshr[c].addr
  BY <1>0 DEF MSHR
<1>5. Perform(c, cmd, a, v)
  BY <1>3, <1>4 DEF MshrReplay
<1>6. s2_hit(c, cmd, a)
  BY <1>1, <1>3, <1>4, ReplaysFound DEF ReplaysHit
<1>7. ~Unsettled(c)
  BY <1>1, MachineFacts
<1>8. \/ /\ Perm(c, a) = "ExclusiveDirty" /\ line'[c].data = latest'[a]
         /\ \A b \in Addrs : b # a => latest'[b] = latest[b]
      \/ UNCHANGED << latest, line >>
  BY <1>1, <1>5, <1>6, <1>7, PerformCases
<1>9. SamePerm(c) /\ \A d \in Tiles : d # c => line'[d] = line[d]
  BY <1>5, MachinesReplay, PerformEffect DEF SamePerm
<1>10. mshr'[c].state = mshr[c].state /\ \A d \in Tiles : d # c => mshr'[d] = mshr[d]
  BY <1>0 DEF MshrReplay, MSHR
<1>11. \A d \in Tiles : d # c => SamePerm(d)
  BY <1>1, <1>9, <1>10, MachinesFrame DEF SamePerm, ProbeInv, Machines, MachinesOf
<1> QED
  BY <1>1, <1>8, <1>9, <1>10, <1>11 DEF Writes

(* The steps that change the last value of a line, or the data of a cache. *)
LEMMA ValueChange ==
    ASSUME Context, Replays, [Next]_vars
    PROVE  \/ \E c \in Tiles, a \in Addrs : Writes(c, a)
           \/ (\E t \in AcquireIds : MemWrite(t)) /\ UNCHANGED dcvars
           \/ UNCHANGED latest /\ \A c \in Tiles : line'[c].data = line[c].data \/ MshrRefill(c)
<1> USE DEF Context, TokenContext
<1>1. CASE UNCHANGED vars \/ OfHtif(HtifStep)
  BY <1>1 DEF vars, OfHtif, HtifStep, HostRequest, HtifRequest, HtifGrant, HtifFinish, dcvars
<1>2. CASE OfL2(L2Step)
  <2>1. L2Step /\ UNCHANGED dcvars
    BY <1>2, SMTT(20) DEF OfL2
  <2>2. CASE \E c \in Clients : AcceptAcquire(c) \/ TakeRelease(c) \/ TakeGrantAck(c)
    BY <2>1, <2>2 DEF AcceptAcquire, TakeRelease, TakeProbeRelease, TakeVoluntaryRelease, TakeGrantAck, dcvars
  <2>3. CASE VoluntaryStep
    BY <2>1, <2>3 DEF VoluntaryStep, VoluntaryWrite, VoluntaryAck, dcvars
  <2>4. CASE \E t \in AcquireIds : TrackerStep(t) /\ ~MemWrite(t)
    BY <2>1, <2>4 DEF TrackerStep, SendProbe, MemRead, ForwardGrant, MakeGrant, dcvars
  <2> QED
    BY <2>1, <2>2, <2>3, <2>4 DEF L2Step, TrackerStep
<1>3. ASSUME NEW c \in Tiles, OfTile(TileStep(c))
      PROVE  \/ \E a \in Addrs : Writes(c, a)
             \/ UNCHANGED latest /\ (line'[c].data = line[c].data \/ MshrRefill(c)) /\ \A d \in Tiles : d # c => line'[d] = line[d]
  <2>1. TileStep(c) /\ UNCHANGED l2vars /\ \A d \in Tiles : d # c => line'[d] = line[d]
    BY <1>3, TileFrame DEF OfTile
  <2>2. line \in [Tiles -> Line]
    BY TileTypes
  <2>3. CASE CoreRequest(c)
    <3>1. PICK cmd \in Cmds, a \in Addrs, v \in Values :
               CpuHit(c, cmd, a, v) \/ PrimaryMiss(c, cmd, a, v) \/ SecondaryMiss(c, cmd, a, v)
      BY <2>3, CoreRequestCases
    <3>2. PrimaryMiss(c, cmd, a, v) \/ SecondaryMiss(c, cmd, a, v) => UNCHANGED << latest, line >>
      BY DEF PrimaryMiss, SecondaryMiss
    <3> QED
      BY <2>1, <3>1, <3>2, CpuHitWrites
  <2>4. CASE MshrReplay(c)
    BY <2>1, <2>4, ReplayWrites
  <2>5. CASE MshrMetaClear(c) \/ MshrMetaWrite(c) \/ ProbeMetaWrite(c)
    BY <2>1, <2>2, <2>5 DEF MshrMetaClear, MshrMetaWrite, ProbeMetaWrite, Line
  <2>6. CASE MshrWbReq(c) \/ MshrWbResp(c) \/ MshrRefillReq(c) \/ MshrDrained(c) \/ MshrFinish(c)
    BY <2>1, <2>6 DEF MshrWbReq, MshrWbResp, MshrRefillReq, MshrDrained, MshrFinish
  <2>7. CASE MshrRefill(c)
    BY <2>1, <2>7 DEF MshrRefill
  <2>8. CASE WbStep(c) \/ LrscExpire(c) \/ (ProbeStep(c) /\ ~ProbeMetaWrite(c))
    BY <2>1, <2>8 DEF WbStep, WbRead, WbRelease, LrscExpire, ProbeStep, ProbeAccept, ProbeLookup, ProbeRelease,
       ProbeWbReq, ProbeWbResp
  <2> QED
    BY <2>1, <2>3, <2>4, <2>5, <2>6, <2>7, <2>8 DEF TileStep, MshrStep, ProbeStep
<1> QED
  BY <1>1, <1>2, <1>3 DEF Next

(* The write of the host finds nobody with a copy.                         *)
LEMMA MemWriteAlone ==
    ASSUME Context, AnswersKept, NEW t \in AcquireIds, tracker[t].state = "s_mem_write", NEW c \in Tiles, NEW a \in Addrs,
           tracker[t].addr = a
    PROVE  Perm(c, a) = "Invalid"
<1> USE DEF Context, TokenContext, TokenInv, ProbeInv
<1>1. ~Idle(t) /\ t \in TrackerIds /\ tracker[t].a_type = "writeUncached" /\ client(t) \in Clients
  BY ClientSets, TrackerFields DEF Idle, Stages
<1>2. ~Consumed(t, client(t))
  BY <1>1 DEF Consumed, OnePlace, BusyFor
<1>3. probe_type(t) = "invalidate"
  BY <1>1, PolicyMessages DEF probe_type, UncachedProbe, messageIsUncached, AcquireTypes
<1> QED
  BY <1>1, <1>2, <1>3, GrantPending DEF Compatible

(* The host's write reaches memory when no tile has the line any more.     *)
LEMMA MemWriteEffect ==
    ASSUME Context, AnswersKept, NEW t \in AcquireIds, MemWrite(t)
    PROVE  \E a \in Addrs :
             /\ tracker[t].addr = a /\ tracker[t].state = "s_mem_write" /\ \A c \in Tiles : Perm(c, a) = "Invalid"
             /\ mem'[a] = latest'[a] /\ \A b \in Addrs : b # a => latest'[b] = latest[b] /\ mem'[b] = mem[b]
             /\ UNCHANGED << voluntary, outer, channels >>
<1>1. PICK a \in Addrs : tracker[t].addr = a
  BY TrackerFields DEF Context, TokenContext
<1>2. mem \in [Addrs -> Values] /\ latest \in [Addrs -> Values]
  BY DEF Context, TokenContext, TypeOK, L2TypeOK, ChannelsTypeOK
<1>3. \A c \in Tiles : Perm(c, a) = "Invalid"
  BY <1>1, MemWriteAlone DEF MemWrite
<1> QED
  BY <1>1, <1>2, <1>3 DEF MemWrite

(* A line that nobody may write keeps its last value.                      *)
LEMMA LatestKept ==
    ASSUME LineContext, [Next]_vars, NEW a \in Addrs,
           \A d \in Tiles : Perm(d, a) = "ExclusiveDirty" => mshr[d].state \notin {"s_invalid", "s_drain_rpq"},
           \A t \in AcquireIds : tracker[t].state = "s_mem_write" => tracker[t].addr # a
    PROVE  latest'[a] = latest[a]
<1>1. ASSUME NEW c \in Tiles, NEW b \in Addrs, Writes(c, b) PROVE latest'[a] = latest[a]
  BY <1>1 DEF Writes
<1>2. ASSUME NEW t \in AcquireIds, MemWrite(t) PROVE latest'[a] = latest[a]
  BY <1>2, MemWriteEffect DEF LineContext, LineInv
<1> QED
  BY <1>1, <1>2, ValueChange DEF LineContext

(* A tile that may read a line has its last value, whoever writes.         *)
LEMMA CopiesLatestStep == ASSUME LineContext, [Next]_vars PROVE CopiesLatest'
<1> USE DEF LineContext, LineInv
<1> SUFFICES ASSUME NEW c \in Tiles, NEW a \in Addrs, (Perm(c, a))' # "Invalid" PROVE line'[c].data = latest'[a]
  BY DEF CopiesLatest
<1>1. ASSUME NEW d \in Tiles, NEW b \in Addrs, Writes(d, b) PROVE line'[c].data = latest'[a]
  <2>1. Perm(c, a) # "Invalid"
    BY <1>1 DEF Writes, SamePerm
  <2>2. CASE c = d
    BY <1>1, <2>1, <2>2, PermTag DEF Writes
  <2>3. CASE c # d
    BY <1>1, <2>1, <2>3 DEF Writes, OneWriter, Exclusive, CopiesLatest
  <2> QED
    BY <2>2, <2>3
<1>2. ASSUME NEW t \in AcquireIds, MemWrite(t), UNCHANGED dcvars PROVE line'[c].data = latest'[a]
  <2>1. line'[c].data = line[c].data /\ Perm(c, a) # "Invalid"
    BY <1>2, MachinesFrame DEF dcvars, Context, ProbeInv, Machines, MachinesOf
  <2> QED
    BY <1>2, <2>1, MemWriteEffect DEF CopiesLatest
<1>3. CASE UNCHANGED latest /\ line'[c].data = line[c].data /\ ~MshrRefill(c)
  <2>1. Perm(c, a) # "Invalid"
    BY <1>3, PermWeaker DEF Weaker, Exclusive
  <2> QED
    BY <1>3, <2>1 DEF CopiesLatest
<1>4. CASE MshrRefill(c)
  <2>1. a = mshr[c].addr
    BY <1>4, MachinesRefill
  <2>2. PICK t \in AcquireIds : GrantOf(t, c) /\ tracker[t].addr = mshr[c].addr /\ line'[c].data = Head(grant[c]).data
                                /\ UNCHANGED latest
    BY <1>4, RefillEffect
  <2> QED
    BY <2>1, <2>2 DEF Travelling, GrantData
<1> QED
  BY <1>1, <1>2, <1>3, <1>4, ValueChange

-----------------------------------------------------------------------------
(* What a step does to the messages that carry data, and to memory.        *)

(* Where a release comes from.                                             *)
LEMMA ReleaseOld ==
    ASSUME Context, [Next]_vars, NEW c \in Tiles, NEW i \in DOMAIN release'[c]
    PROVE  \/ \E k \in DOMAIN release[c] : release'[c][i] = release[c][k] /\ (TakeVoluntaryRelease(c) => k # 1)
           \/ ProbeRelease(c) /\ ~ProbeDirty(c) /\ release'[c][i].r_type = ReleaseOnProbe(prober[c].p_type, FALSE)
           \/ /\ WbRelease(c) /\ release'[c][i].r_type = wb[c].r_type /\ release'[c][i].addr = wb[c].addr
              /\ release'[c][i].data = wb[c].data
<1>1. CASE TakeVoluntaryRelease(c)
  <2>1. ReleaseTaken(c)
    BY <1>1, TakeReleaseTakes, ClientSets DEF TakeRelease
  <2> QED
    BY <2>1 DEF ReleaseTaken
<1>2. ASSUME NEW d \in Clients, TakeRelease(d) PROVE \E k \in DOMAIN release[c] : release'[c][i] = release[c][k]
  BY <1>2, TakeReleaseTakes DEF ReleaseTaken
<1>3. ASSUME NEW d \in Tiles, ProbeRelease(d), ~ProbeDirty(d)
      PROVE  \/ i \in DOMAIN release[c] /\ release'[c][i] = release[c][i]
             \/ d = c /\ release'[c][i].r_type = ReleaseOnProbe(prober[c].p_type, FALSE)
  BY <1>3, ProbeReleaseAdds DEF ReleaseAdded
<1>4. ASSUME NEW d \in Tiles, WbRelease(d)
      PROVE  \/ i \in DOMAIN release[c] /\ release'[c][i] = release[c][i]
             \/ /\ d = c /\ release'[c][i].r_type = wb[c].r_type /\ release'[c][i].addr = wb[c].addr
                /\ release'[c][i].data = wb[c].data
  BY <1>4, WbReleaseAdds DEF ReleaseAdded, Context, TokenContext
<1>5. ASSUME ~TakeVoluntaryRelease(c), \E k \in DOMAIN release[c] : release'[c][i] = release[c][k]
      PROVE  \E k \in DOMAIN release[c] : release'[c][i] = release[c][k] /\ (TakeVoluntaryRelease(c) => k # 1)
  BY <1>5
<1> QED
  BY <1>1, <1>2, <1>3, <1>4, <1>5, ReleaseSteps

(* The WritebackUnit sends the last value of a line that its tile holds    *)
(* dirty.                                                                  *)
LEMMA WbReleaseData ==
    ASSUME LineContext, NEW c \in Tiles, WbRelease(c)
    PROVE  \E a \in Addrs : /\ wb[c].addr = a /\ line[c].tag = a /\ Perm(c, a) = "ExclusiveDirty" /\ wb[c].data = latest[a]
                            /\ UNCHANGED << line, mshr, grant, latest >>
                            /\ isVoluntary(wb[c].r_type) \/ (/\ wb[c].r_type = ReleaseOnProbe(prober[c].p_type, TRUE)
                                                             /\ prober[c].addr = a /\ Answers(c))
<1> USE DEF LineContext, LineInv, Context, TokenContext
<1>1. wb[c].state = "release" /\ UNCHANGED << line, mshr, grant, latest >>
  BY DEF WbRelease
<1>2. PICK a \in Addrs : line[c].tag = a
  BY TileTypes DEF Line
<1>3. /\ line[c].state = "ExclusiveDirty" /\ wb[c].addr = a /\ ~Unsettled(c) /\ mshr[c].state # "s_meta_write_req"
      /\ isVoluntary(wb[c].r_type) \/ (/\ wb[c].r_type = ReleaseOnProbe(prober[c].p_type, TRUE)
                                       /\ prober[c].addr = a /\ Answers(c))
  <2>1. CASE isVoluntary(wb[c].r_type)
    BY <1>1, <1>2, <2>1, MachineFacts DEF MshrOk
  <2>2. CASE ~isVoluntary(wb[c].r_type)
    <3>1. /\ wb[c].r_type = ReleaseOnProbe(prober[c].p_type, TRUE) /\ wb[c].addr = prober[c].addr
      BY <1>1, <2>2, MachineFacts DEF WritebackOk
    <3> QED
      BY <1>2, <2>2, <3>1, MachinesWbRelease DEF Answers
  <2> QED
    BY <2>1, <2>2
<1>4. Perm(c, a) = "ExclusiveDirty" /\ wb[c].data = line[c].data
  BY <1>1, <1>2, <1>3, MachineFacts DEF Perm, WritebackOk
<1> QED
  BY <1>1, <1>2, <1>3, <1>4 DEF CopiesLatest

(* The VoluntaryReleaseTracker and memory.                                 *)
LEMMA AgentMemory ==
    ASSUME [Next]_vars
    PROVE  /\ UNCHANGED voluntary \/ (\E c \in Clients : TakeVoluntaryRelease(c)) \/ VoluntaryStep
           /\ UNCHANGED mem \/ (\E c \in Clients : TakeProbeRelease(c)) \/ VoluntaryWrite \/ (\E t \in AcquireIds : MemWrite(t))
           /\ \A r \in outer' : r \in outer \/ \E t \in AcquireIds : MemRead(t) /\ r = [id |-> t, data |-> mem[tracker[t].addr]]
<1>1. CASE ~L2Step
  BY <1>1 DEF Next, OfL2, OfTile, OfHtif, l2vars, vars
<1>2. CASE \E c \in Clients : AcceptAcquire(c) \/ TakeGrantAck(c)
  BY <1>2 DEF AcceptAcquire, TakeGrantAck
<1>3. CASE \E c \in Clients : TakeRelease(c)
  BY <1>3 DEF TakeRelease, TakeProbeRelease, TakeVoluntaryRelease
<1>4. CASE VoluntaryStep
  BY <1>4 DEF VoluntaryStep, VoluntaryWrite, VoluntaryAck
<1>5. CASE \E t \in AcquireIds : TrackerStep(t)
  BY <1>5 DEF TrackerStep, SendProbe, MemWrite, MemRead, ForwardGrant, MakeGrant
<1> QED
  BY <1>1, <1>2, <1>3, <1>4, <1>5 DEF L2Step

(* An eviction that memory has had is a new one, or it was there before.   *)
LEMMA EvictAckOld ==
    ASSUME Context, [Next]_vars, NEW c \in Tiles, EvictAck(c)'
    PROVE  EvictAck(c) \/ (VoluntaryAck /\ voluntary.init_client_id = c)
<1> USE DEF Context, TokenContext, TokenInv
<1>0. grant \in [Clients -> Seq(GrantMsg(TrackerIds))] /\ c \in Clients
  BY ClientSets DEF TypeOK, ChannelsTypeOK
<1>1. CASE UNCHANGED grant
  BY <1>1 DEF EvictAck
<1>2. ASSUME NEW d \in Clients, grant[d] # << >>, grant' = Receive(grant, d) PROVE EvictAck(c)
  <2>1. d = c => grant'[c] = << >>
    BY <1>0, <1>2 DEF Lengths, Receive
  <2>2. d # c => grant'[c] = grant[c]
    BY <1>0, <1>2 DEF Receive
  <2> QED
    BY <2>1, <2>2 DEF EvictAck
<1>3. ASSUME NEW d \in Clients, NEW m \in GrantMsg(TrackerIds), GrantRoom(d), grant' = Send(grant, d, m)
      PROVE  \/ EvictAck(c)
             \/ d = c /\ ~requiresAckForGrant(m.g_type)
  <2>1. d = c => grant'[c] # << >> /\ Head(grant'[c]) = m
    <3>1. Len(grant[d]) = 0 /\ grant[d] \in Seq(GrantMsg(TrackerIds))
      BY <1>0, <1>3 DEF GrantRoom, GrantEntries
    <3>2. grant'[d] = Append(grant[d], m)
      BY <1>0, <1>3 DEF Send
    <3> QED
      BY <3>1, <3>2
  <2>2. d # c => grant'[c] = grant[c]
    BY <1>0, <1>3 DEF Send
  <2> QED
    BY <2>1, <2>2 DEF EvictAck
<1>4. ASSUME NEW t \in AcquireIds, ForwardGrant(t) \/ MakeGrant(t) PROVE EvictAck(c)
  <2>1. client(t) \in Clients /\ requiresAckForGrant(grant_type(t)) /\ grant_type(t) \in GrantTypes /\ t \in TrackerIds
    BY TrackerFields, ClientSets
  <2>2. PICK d \in Clients, g \in GrantTypes : d = client(t) /\ g = grant_type(t)
    BY <2>1
  <2>3. \E v \in Values : GrantRoom(d) /\ grant' = Send(grant, d, [g_type |-> g, master_xact_id |-> t, data |-> v])
    BY <1>4, <2>2, Constants DEF ForwardGrant, MakeGrant, client, TypeOK, L2TypeOK
  <2>4. PICK v \in Values : GrantRoom(d) /\ grant' = Send(grant, d, [g_type |-> g, master_xact_id |-> t, data |-> v])
    BY <2>3
  <2> QED
    BY <1>3, <2>1, <2>2, <2>4 DEF GrantMsg
<1>5. CASE VoluntaryAck
  <2>1. PICK d \in Clients : d = voluntary.init_client_id
    BY DEF TypeOK, L2TypeOK, VoluntaryReleaseTracker
  <2>2. GrantRoom(d) /\ grant' = Send(grant, d, [g_type |-> "voluntaryAck", master_xact_id |-> 0, data |-> SomeValue])
    BY <1>5, <2>1 DEF VoluntaryAck
  <2>3. [g_type |-> "voluntaryAck", master_xact_id |-> 0, data |-> SomeValue] \in GrantMsg(TrackerIds)
    BY Constants DEF GrantMsg, GrantTypes
  <2> QED
    BY <1>3, <1>5, <2>1, <2>2, <2>3
<1>6. ASSUME NEW d \in Tiles, MshrWbResp(d) \/ MshrRefill(d) PROVE EvictAck(c)
  BY <1>2, <1>6, ClientSets DEF MshrWbResp, MshrRefill
<1>7. CASE HtifGrant
  BY <1>2, <1>7, ClientSets DEF HtifGrant
<1> QED
  BY <1>1, <1>4, <1>5, <1>6, <1>7, GrantSteps

\* The eviction whose write is done, or the miss that clears a clean line.
LEMMA WrittenChange ==
    ASSUME Context, [Next]_vars, NEW c \in Tiles, Written(c)'
    PROVE  \/ Written(c)
           \/ VoluntaryWrite /\ EvictTr(c)
           \/ /\ UNCHANGED line /\ line[c].state # "ExclusiveDirty" /\ mshr[c].state = "s_invalid" /\ ~Unsettled(c)
<1> USE DEF Context, TokenContext
<1>1. CASE EvictAck(c)'
  BY <1>1, EvictAckOld DEF Written, EvictTr, VoluntaryAck
<1>2. CASE EvictTr(c)' /\ voluntary'.state = "s_ack"
  <2>1. CASE UNCHANGED voluntary
    BY <1>2, <2>1 DEF EvictTr, Written
  <2>2. CASE VoluntaryStep
    BY <1>2, <2>2 DEF VoluntaryStep, VoluntaryWrite, VoluntaryAck, EvictTr, IdleVoluntary, TypeOK, L2TypeOK, VoluntaryReleaseTracker
  <2>3. ASSUME NEW d \in Clients, TakeVoluntaryRelease(d) PROVE FALSE
    BY <1>2, <2>3 DEF TakeVoluntaryRelease, releaseHasData, isVoluntary
  <2> QED
    BY <2>1, <2>2, <2>3, AgentMemory
<1>3. CASE mshr'[c].state = "s_meta_clear" /\ mshr[c].state # "s_meta_clear"
  <2>0. mshr \in [Tiles -> MSHR]
    BY TileTypes
  <2>1. PICK d \in Tiles : TileStep(d)
    BY <1>3 DEF Next, OfL2, OfTile, OfHtif, dcvars, vars
  <2>2. d = c
    BY <1>3, <2>1, TileFrame
  <2>3. CASE CoreRequest(c)
    <3>1. PICK cmd \in Cmds, a \in Addrs, v \in Values :
               CpuHit(c, cmd, a, v) \/ PrimaryMiss(c, cmd, a, v) \/ SecondaryMiss(c, cmd, a, v)
      BY <2>3, CoreRequestCases
    <3>2. ~CpuHit(c, cmd, a, v) /\ ~SecondaryMiss(c, cmd, a, v)
      BY <1>3, SecondaryMissEffect DEF CpuHit
    <3>3. UNCHANGED line /\ mshr[c].state = "s_invalid" /\ prober[c].state = "s_invalid" /\ line[c].state # "ExclusiveDirty"
      BY <1>3, <3>1, <3>2, PrimaryMissEffect
    <3> QED
      BY <3>3, MachineFacts
  <2>4. CASE MshrWbResp(c)
    BY <2>4, EvictionGrant DEF MshrWbResp, Written
  <2>5. CASE MshrStep(c) /\ ~MshrWbResp(c)
    BY <1>3, <2>0, <2>5 DEF MshrStep, MshrWbReq, MshrMetaClear, MshrRefillReq, MshrRefill, MshrMetaWrite, MshrReplay,
       MshrDrained, IdleMSHR, MSHR
  <2>6. MshrFinish(c) \/ WbStep(c) \/ ProbeStep(c) \/ LrscExpire(c) => UNCHANGED mshr
    BY DEF MshrFinish, WbStep, WbRead, WbRelease, ProbeStep, ProbeAccept, ProbeLookup, ProbeRelease, ProbeWbReq,
       ProbeWbResp, ProbeMetaWrite, LrscExpire
  <2> QED
    BY <1>3, <2>1, <2>2, <2>3, <2>4, <2>5, <2>6 DEF TileStep
<1> QED
  BY <1>1, <1>2, <1>3 DEF Written

(* How the VoluntaryReleaseTracker comes to work for a tile.               *)
LEMMA EvictTrChange ==
    ASSUME TypeOK, [Next]_vars, NEW c \in Tiles, EvictTr(c)'
    PROVE  EvictTr(c) \/ TakeVoluntaryRelease(c)
<1>1. CASE UNCHANGED voluntary
  BY <1>1 DEF EvictTr
<1>2. CASE VoluntaryStep
  BY <1>2 DEF VoluntaryStep, VoluntaryWrite, VoluntaryAck, EvictTr, IdleVoluntary, TypeOK, L2TypeOK, VoluntaryReleaseTracker
<1>3. ASSUME NEW d \in Clients, TakeVoluntaryRelease(d) PROVE TakeVoluntaryRelease(c)
  BY <1>3 DEF TakeVoluntaryRelease, EvictTr
<1> QED
  BY <1>1, <1>2, <1>3, AgentMemory

-----------------------------------------------------------------------------
(* Nobody writes a line while its last value travels.                      *)

(* The line of an owner who cannot store does not change.                  *)
LEMMA OwnerKept ==
    ASSUME LineContext, [Next]_vars, NEW c \in Tiles, NEW a \in Addrs, Perm(c, a) = "ExclusiveDirty",
           mshr[c].state \notin {"s_invalid", "s_drain_rpq"}
    PROVE  latest'[a] = latest[a]
<1> USE DEF LineContext, LineInv
<1>1. \A d \in Tiles : Perm(d, a) = "ExclusiveDirty" => d = c
  BY DEF OneWriter, Exclusive
<1>2. ASSUME NEW t \in AcquireIds, tracker[t].state = "s_mem_write", tracker[t].addr = a PROVE FALSE
  BY <1>2, MemWriteAlone
<1> QED
  BY <1>1, <1>2, LatestKept

(* A line that is evicted is still owned.                                  *)
LEMMA EvictingOwner ==
    ASSUME Context, NEW c \in Tiles, NEW a \in Addrs, Evicting(c, a)
    PROVE  Perm(c, a) = "ExclusiveDirty" /\ line[c].tag = a /\ mshr[c].state = "s_wb_resp"
BY MachineFacts DEF Evicting, MshrOk, Perm

\* The tracker of the answer that carries the line is the line's only one.
LEMMA AnswerLine ==
    ASSUME Context, NEW c \in Tiles, NEW i \in DOMAIN release[c], NEW a \in Addrs, release[c][i].addr = a,
           ~isVoluntary(release[c][i].r_type), NEW u \in AcquireIds, ~Idle(u), tracker[u].addr = a
    PROVE  tracker[u].state = "s_probe" /\ release[c][i].master_xact_id = u /\ Answer(u, c) /\ ~ToAnswer(u, c)
<1> USE DEF Context, TokenContext, ProbeInv
<1>1. PICK t \in AcquireIds : release[c][i].master_xact_id = t
  BY DEF AnswersSent
<1>2. ProbesFor(t, a) /\ ~ToAnswer(t, c)
  BY <1>1 DEF AnswersSent
<1>3. t = u
  BY <1>2, SameLine DEF ProbesFor, Idle
<1> QED
  BY <1>1, <1>2, <1>3 DEF Answer, ProbesFor

(* A line that is on its way back to memory does not change.               *)
LEMMA ReturningKept ==
    ASSUME LineContext, [Next]_vars, NEW c \in Tiles, NEW i \in DOMAIN release[c], NEW a \in Addrs, release[c][i].addr = a,
           release[c][i].r_type \in {"invalidateData", "downgradeData"}
    PROVE  latest'[a] = latest[a]
<1> USE DEF LineContext, LineInv
<1>1. \A d \in Tiles : Perm(d, a) # "ExclusiveDirty"
  BY DEF Travelling, ReleaseData, Exclusive
<1>2. ASSUME NEW t \in AcquireIds, tracker[t].state = "s_mem_write", tracker[t].addr = a PROVE FALSE
  BY <1>2, AnswerLine DEF isVoluntary, Idle
<1> QED
  BY <1>1, <1>2, LatestKept

(* A line that a tile asked for and has still to get.                      *)
LEMMA ReadPending ==
    ASSUME LineContext, NEW t \in AcquireIds, ~Idle(t), tracker[t].state # "s_probe", ~Consumed(t, client(t)),
           ~messageIsUncached(tracker[t].a_type), NEW a \in Addrs, tracker[t].addr = a
    PROVE  /\ \A d \in Tiles : ~Exclusive(Perm(d, a))
           /\ \A d \in Tiles : ~Returning(d, a)
           /\ [Next]_vars => latest'[a] = latest[a]
<1> USE DEF LineContext, LineInv, Context, TokenContext, TokenInv
<1>1. CachedType(tracker[t].a_type)
  <2>1. PICK c \in Clients, x \in AcquireTypes : client(t) = c /\ tracker[t].a_type = x
    BY TrackerFields
  <2>2. Waiting(c, x, a)
    BY <2>1 DEF Asking
  <2>3. c \in Tiles /\ mshr[c].state = "s_refill_resp" /\ mshr[c].acquire_type = x
    BY <2>1, <2>2, ClientSets DEF Waiting
  <2> QED
    BY <2>1, <2>3 DEF Asking
<1>2. probe_type(t) \in {"invalidate", "downgrade"}
  BY <1>1, PolicyMessages DEF probe_type
<1>3. ASSUME NEW d \in Tiles PROVE ~Exclusive(Perm(d, a))
  BY <1>2, GrantPending DEF Compatible, Exclusive
<1>4. ASSUME NEW d \in Tiles PROVE ~Returning(d, a)
  BY AnswerLine DEF Returning, isVoluntary
<1>5. ASSUME NEW u \in AcquireIds, tracker[u].state = "s_mem_write", tracker[u].addr = a PROVE FALSE
  <2>1. u = t
    BY <1>5, SameLine DEF Idle
  <2> QED
    BY <1>5, <2>1, PolicyMessages DEF ProbeInv, Stages, messageIsUncached
<1>6. ASSUME [Next]_vars PROVE latest'[a] = latest[a]
  BY <1>3, <1>5, <1>6, LatestKept DEF Exclusive
<1> QED
  BY <1>3, <1>4, <1>6

(* A release carries the last value until the agent has taken it.          *)
LEMMA ReleaseDataStep == ASSUME LineContext, [Next]_vars PROVE ReleaseData'
<1> USE DEF LineContext, LineInv, Travelling, Context, TokenContext
<1> SUFFICES ASSUME NEW c \in Tiles, NEW a \in Addrs, NEW i \in DOMAIN release'[c], release'[c][i].addr = a
             PROVE  /\ release'[c][i].r_type \in {"invalidateData", "downgradeData", "voluntaryInvalidateData"} =>
                          release'[c][i].data = latest'[a]
                    /\ release'[c][i].r_type \in {"invalidateData", "downgradeData"} =>
                          \A d \in Tiles : ~Exclusive((Perm(d, a))')
                    /\ release'[c][i].r_type = "copyData" =>
                          (Perm(c, a))' = "ExclusiveDirty" /\ ~Written(c)' /\ ~EvictTr(c)'
  BY DEF ReleaseData
<1>1. ASSUME NEW k \in DOMAIN release[c], release'[c][i] = release[c][k], TakeVoluntaryRelease(c) => k # 1
      PROVE  /\ release[c][k].r_type \in {"invalidateData", "downgradeData", "voluntaryInvalidateData"} =>
                   release[c][k].data = latest'[a]
             /\ release[c][k].r_type \in {"invalidateData", "downgradeData"} =>
                   \A d \in Tiles : ~Exclusive((Perm(d, a))')
             /\ release[c][k].r_type = "copyData" =>
                   (Perm(c, a))' = "ExclusiveDirty" /\ ~Written(c)' /\ ~EvictTr(c)'
  <2>0. release[c][k].addr = a
    BY <1>1
  <2>1. ASSUME release[c][k].r_type \in {"invalidateData", "downgradeData"} PROVE release[c][k].data = latest'[a]
    BY <2>0, <2>1, ReturningKept DEF ReleaseData
  <2>2. ASSUME release[c][k].r_type = "voluntaryInvalidateData" PROVE release[c][k].data = latest'[a]
    <3>1. Evicting(c, a)
      BY <2>0, <2>2 DEF TokenInv, Evictions, EvictRel, isVoluntary
    <3> QED
      BY <2>0, <2>2, <3>1, EvictingOwner, OwnerKept DEF ReleaseData
  <2>3. ASSUME release[c][k].r_type \in {"invalidateData", "downgradeData"}, NEW d \in Tiles
        PROVE  ~Exclusive((Perm(d, a))')
    <3>1. ~Exclusive(Perm(d, a))
      BY <2>0, <2>3 DEF ReleaseData
    <3>2. CASE MshrRefill(d)
      <4>1. PICK t \in AcquireIds : tracker[t].state = "s_busy" /\ tracker[t].addr = mshr[d].addr
        BY <3>2, RefillEffect
      <4>2. a # mshr[d].addr
        BY <2>0, <2>3, <4>1, AnswerLine DEF isVoluntary, Idle
      <4> QED
        BY <3>2, <4>2, MachinesRefill DEF Exclusive
    <3>3. CASE ~MshrRefill(d)
      BY <3>1, <3>3, PermWeaker DEF Weaker, Exclusive
    <3> QED
      BY <3>2, <3>3
  <2>4. ASSUME release[c][k].r_type = "copyData"
        PROVE  (Perm(c, a))' = "ExclusiveDirty" /\ ~Written(c)' /\ ~EvictTr(c)'
    <3>1. Perm(c, a) = "ExclusiveDirty" /\ ~Written(c) /\ ~EvictTr(c)
      BY <2>0, <2>4 DEF ReleaseData
    <3>2. (Perm(c, a))' = "ExclusiveDirty"
      <4>1. ~Refilled(c)
        BY <3>1, RefillEffect, MachineFacts DEF Refilled, Perm, MshrOk
      <4>2. ~Cleared(c)
        BY <3>1 DEF Cleared, MshrMetaClear, Written
      <4>3. ASSUME Answered(c) PROVE a # prober[c].addr
        <5>1. PICK t \in AcquireIds : ProbedBy(t, c) /\ ProbesFor(t, prober[c].addr)
          BY <4>3, AnswerEffect DEF Answered
        <5> QED
          BY <2>0, <2>4, <5>1, AnswerLine DEF isVoluntary, ProbesFor, Idle, ToAnswer
      <4> QED
        BY <3>1, <4>1, <4>2, <4>3, PermChange DEF SamePerm, Dirtied, Answered
    <3>3. ~Written(c)'
      BY <3>1, WrittenChange DEF Perm
    <3>4. ASSUME TakeVoluntaryRelease(c) PROVE FALSE
      <4>1. release[c] # << >> /\ Head(release[c]) = release[c][1] /\ 1 \in DOMAIN release[c] /\ DOMAIN release[c] = 1 .. Len(release[c])
        BY <3>4, ClientSets DEF TakeVoluntaryRelease, TypeOK, ChannelsTypeOK
      <4>2. 1 = Len(release[c])
        BY <3>4, <4>1 DEF TakeVoluntaryRelease, ProbeInv, EvictionsLast
      <4> QED
        BY <1>1, <3>4, <4>1, <4>2
    <3> QED
      BY <3>1, <3>2, <3>3, <3>4, EvictTrChange
  <2> QED
    BY <2>1, <2>2, <2>3, <2>4
<1>2. ASSUME release'[c][i].r_type = ReleaseOnProbe(prober[c].p_type, FALSE)
      PROVE  release'[c][i].r_type \notin {"invalidateData", "downgradeData", "voluntaryInvalidateData", "copyData"}
  <2>1. prober[c].p_type \in ProbeTypes
    BY TileTypes DEF ProbeUnit
  <2> QED
    BY <1>2, <2>1 DEF ReleaseOnProbe, ProbeTypes
<1>3. ASSUME WbRelease(c), release'[c][i].r_type = wb[c].r_type, release'[c][i].addr = wb[c].addr,
             release'[c][i].data = wb[c].data
      PROVE  /\ release'[c][i].data = latest'[a]
             /\ wb[c].r_type \in {"invalidateData", "downgradeData"} =>
                   \A d \in Tiles : ~Exclusive((Perm(d, a))')
             /\ wb[c].r_type = "copyData" =>
                   (Perm(c, a))' = "ExclusiveDirty" /\ ~Written(c)' /\ ~EvictTr(c)'
  <2>1. /\ wb[c].addr = a /\ line[c].tag = a /\ Perm(c, a) = "ExclusiveDirty" /\ wb[c].data = latest[a]
        /\ UNCHANGED << line, mshr, grant, latest >>
        /\ isVoluntary(wb[c].r_type) \/ (/\ wb[c].r_type = ReleaseOnProbe(prober[c].p_type, TRUE)
                                         /\ prober[c].addr = a /\ Answers(c))
    BY <1>3, WbReleaseData, ZenonT(30)
  <2>2. PICK p \in ProbeTypes : p = prober[c].p_type
    BY TileTypes DEF ProbeUnit
  <2>3. ASSUME wb[c].r_type \in {"invalidateData", "downgradeData"}, NEW d \in Tiles PROVE ~Exclusive((Perm(d, a))')
    <3>1. wb[c].r_type = ReleaseOnProbe(p, TRUE) /\ prober[c].addr = a /\ Answers(c) /\ p \in {"invalidate", "downgrade"}
      BY <2>1, <2>2, <2>3, PolicyAnswers DEF isVoluntary
    <3>2. CASE d = c
      BY <2>2, <3>1, <3>2, AnswerEffect DEF Compatible, Exclusive
    <3>3. CASE d # c
      <4>1. Perm(d, a) = "Invalid"
        BY <2>1, <3>3 DEF OneWriter, Exclusive
      <4>2. ~MshrRefill(d)
        BY <1>3, TileTypes DEF WbRelease, MshrRefill, IdleWb
      <4> QED
        BY <4>1, <4>2, PermWeaker DEF Weaker, Exclusive
    <3> QED
      BY <3>2, <3>3
  <2>4. ASSUME wb[c].r_type = "copyData"
        PROVE  (Perm(c, a))' = "ExclusiveDirty" /\ ~Written(c)' /\ ~EvictTr(c)'
    <3>1. wb[c].r_type = ReleaseOnProbe(p, TRUE) /\ prober[c].addr = a /\ Answers(c) /\ p = "copy"
      BY <2>1, <2>2, <2>4, PolicyAnswers DEF isVoluntary
    <3>2. (Perm(c, a))' = "ExclusiveDirty"
      BY <2>1, <2>2, <3>1, PermAnswer, PolicyProbes DEF Answered, TileStates, ProbeTypes
    <3>3. prober[c].state \notin {"s_invalid", "s_meta_read"} /\ mshr[c].state # "s_meta_clear"
      BY <3>1, AnswerEffect
    <3>4. ~EvictTr(c) /\ ~EvictAck(c)
      BY <3>3, NoEviction
    <3>5. ~EvictTr(c)'
      <4>1. \A k \in DOMAIN release[c] : ~isVoluntary(release[c][k].r_type)
        BY <3>3, NoEviction
      <4>2. ~TakeVoluntaryRelease(c)
        BY <4>1, ClientSets DEF TakeVoluntaryRelease, TypeOK, ChannelsTypeOK
      <4> QED
        BY <3>4, <4>2, EvictTrChange
    <3>6. ~EvictAck(c)'
      BY <2>1, <3>4 DEF EvictAck
    <3> QED
      BY <2>1, <3>2, <3>3, <3>5, <3>6 DEF Written
  <2> QED
    BY <1>3, <2>1, <2>3, <2>4
<1> QED
  BY <1>1, <1>2, <1>3, ReleaseOld, ZenonT(40)

(* The VoluntaryReleaseTracker writes the last value.                      *)
LEMMA EvictionDataStep == ASSUME LineContext, [Next]_vars PROVE EvictionData'
<1> USE DEF LineContext, LineInv, Travelling, Context, TokenContext
<1> SUFFICES ASSUME voluntary'.state = "s_mem" PROVE voluntary'.data = latest'[voluntary'.addr]
  BY DEF EvictionData
<1>1. CASE UNCHANGED voluntary
  <2>1. PICK c \in Clients, a \in Addrs : voluntary.init_client_id = c /\ voluntary.addr = a
    BY DEF TypeOK, L2TypeOK, VoluntaryReleaseTracker
  <2>2. EvictTr(c)
    BY <1>1, <2>1 DEF EvictTr
  <2>3. c \in Tiles /\ Evicting(c, a)
    BY <2>1, <2>2, ClientSets DEF TokenInv, Evictions
  <2>4. latest'[a] = latest[a]
    BY <2>3, EvictingOwner, OwnerKept
  <2> QED
    BY <1>1, <2>1, <2>4 DEF EvictionData
<1>2. CASE VoluntaryStep
  BY <1>2 DEF VoluntaryStep, VoluntaryWrite, VoluntaryAck, IdleVoluntary, TypeOK, L2TypeOK, VoluntaryReleaseTracker
<1>3. ASSUME NEW c \in Clients, TakeVoluntaryRelease(c) PROVE voluntary'.data = latest'[voluntary'.addr]
  <2>1. c \in Tiles /\ ReleaseTaken(c)
    BY <1>3, TakeReleaseTakes DEF TakeRelease
  <2>2. 1 \in DOMAIN release[c] /\ Head(release[c]) = release[c][1]
    BY <2>1 DEF ReleaseTaken
  <2>3. PICK a \in Addrs : release[c][1].addr = a
    BY <2>1, <2>2, ReleaseFields
  <2>4. voluntary'.data = release[c][1].data /\ voluntary'.addr = a /\ UNCHANGED latest
        /\ release[c][1].r_type = "voluntaryInvalidateData"
    BY <1>3, <2>2, <2>3 DEF TakeVoluntaryRelease, isVoluntary
  <2> QED
    BY <2>1, <2>2, <2>3, <2>4 DEF ReleaseData
<1> QED
  BY <1>1, <1>2, <1>3, AgentMemory

(* A tracker reads memory after all the tiles have answered, so what it    *)
(* reads is the last value.                                                *)
LEMMA ReadDataStep == ASSUME LineContext, [Next]_vars PROVE ReadData'
<1> USE DEF LineContext, LineInv, Travelling, Context, TokenContext, TokenInv
<1> SUFFICES ASSUME NEW r \in outer', ~messageIsUncached(tracker'[r.id].a_type)
             PROVE  r.data = latest'[tracker'[r.id].addr]
  BY DEF ReadData
<1>1. CASE r \in outer
  <2>1. PICK t \in AcquireIds : t = r.id
    BY <1>1 DEF TypeOK, L2TypeOK
  <2>2. InOuter(t) /\ InOuter(t)'
    BY <1>1, <2>1 DEF InOuter
  <2>3. tracker[t].state = "s_busy" /\ ~Consumed(t, client(t)) /\ ~Idle(t)
    BY <2>2, TrackerFields DEF OnePlace, Idle
  <2>4. Tokens'
    BY TokensStep
  <2>5. tracker'[t].state = "s_busy" /\ ~Idle(t)'
    BY <2>2, <2>4, ClientSets DEF Tokens, OnePlace, Idle
  <2>6. PICK a \in Addrs : tracker[t].addr = a
    BY TrackerFields
  <2>7. tracker'[t].addr = a /\ tracker'[t].a_type = tracker[t].a_type
    BY <2>3, <2>5, <2>6, TrackerKept
  <2>8. latest'[a] = latest[a]
    BY <2>1, <2>3, <2>6, <2>7, ReadPending
  <2> QED
    BY <1>1, <2>1, <2>6, <2>7, <2>8 DEF ReadData
<1>2. ASSUME NEW t \in AcquireIds, MemRead(t), r = [id |-> t, data |-> mem[tracker[t].addr]]
      PROVE  r.data = latest'[tracker'[r.id].addr]
  <2>1. PICK a \in Addrs : tracker[t].addr = a
    BY TrackerFields
  <2>2. tracker \in [AcquireIds -> AcquireTracker]
    BY DEF TypeOK, L2TypeOK
  <2>3. /\ tracker[t].state = "s_mem_read" /\ tracker'[t].addr = a /\ tracker'[t].a_type = tracker[t].a_type
        /\ UNCHANGED latest /\ r.data = mem[a]
    BY <1>2, <2>1, <2>2 DEF MemRead
  <2>4. ~Idle(t) /\ tracker[t].state # "s_probe" /\ ~messageIsUncached(tracker[t].a_type)
    BY <1>2, <2>3 DEF Idle
  <2>5. ~Consumed(t, client(t))
    BY <2>3, TrackerFields, ClientSets DEF Consumed, OnePlace, BusyFor
  <2>6. \A d \in Tiles : ~Exclusive(Perm(d, a)) /\ ~Returning(d, a)
    BY <2>1, <2>4, <2>5, ReadPending
  <2>7. mem[a] = latest[a]
    BY <2>6 DEF MemoryLatest, Owes, Exclusive
  <2> QED
    BY <1>2, <2>3, <2>7
<1> QED
  BY <1>1, <1>2, AgentMemory

(* Nobody can write while a grant is under way, so it brings the last      *)
(* value.                                                                  *)
LEMMA GrantDataStep == ASSUME LineContext, [Next]_vars PROVE GrantData'
<1> USE DEF LineContext, LineInv, Travelling, Context, TokenContext, TokenInv
<1> SUFFICES ASSUME NEW c \in Tiles, NEW t \in AcquireIds, GrantOf(t, c)'
             PROVE  Head(grant'[c]).data = latest'[tracker'[t].addr]
  BY DEF GrantData
<1>0. c \in Clients /\ t \in TrackerIds
  BY ClientSets
<1>1. PICK a \in Addrs, x \in AcquireTypes : tracker[t].addr = a /\ tracker[t].a_type = x
  BY TrackerFields
<1>2. ~Idle(t)'
  BY <1>0, TokensStep DEF Tokens, OnePlace, BusyFor, Idle
<1>3. ASSUME ~Idle(t), client(t) = c, ~Consumed(t, c) PROVE ~messageIsUncached(x)
  <2>1. Waiting(c, x, a)
    BY <1>0, <1>1, <1>3 DEF Asking
  <2>2. CachedType(x)
    BY <2>1, ClientSets DEF Waiting, Asking
  <2> QED
    BY <2>2, PolicyMessages
<1>4. CASE GrantOf(t, c) /\ Head(grant'[c]) = Head(grant[c])
  <2>1. tracker[t].state = "s_busy" /\ client(t) = c /\ ~Consumed(t, c) /\ ~Idle(t)
    BY <1>0, <1>4 DEF OnePlace, BusyFor, Idle
  <2>2. latest'[a] = latest[a]
    BY <1>1, <1>3, <2>1, ReadPending
  <2>3. tracker'[t].addr = a
    BY <1>1, <1>2, <2>1, TrackerKept
  <2> QED
    BY <1>1, <1>4, <2>2, <2>3 DEF GrantData
<1>5. ASSUME NEW r \in outer, r.id = t, Head(grant'[c]).data = r.data, ForwardGrant(t), client(t) = c, ~Idle(t)
      PROVE  Head(grant'[c]).data = latest'[tracker'[t].addr]
  <2>1. ~Consumed(t, c)
    BY <1>0, <1>5 DEF OnePlace, InOuter
  <2>2. r.data = latest[a]
    BY <1>1, <1>3, <1>5, <2>1 DEF ReadData
  <2> QED
    BY <1>1, <1>5, <2>2 DEF ForwardGrant
<1>6. ASSUME MakeGrant(t), x = "writeUncached", client(t) = c, ~Idle(t) PROVE FALSE
  <2>1. ~Consumed(t, c)
    BY <1>0, <1>6 DEF MakeGrant, Consumed, OnePlace, BusyFor
  <2> QED
    BY <1>3, <1>6, <2>1 DEF messageIsUncached
<1> QED
  BY <1>0, <1>1, <1>4, <1>5, <1>6, GrantChange

-----------------------------------------------------------------------------
(* Memory has the last value of a line, or a tile owes it.                 *)

MemoryOwed == \A a \in Addrs : mem[a] = latest[a] \/ \E c \in Tiles : Owes(c, a)
EvictedWritten == \A c \in Tiles : Written(c) /\ line[c].state = "ExclusiveDirty" => mem[line[c].tag] = latest[line[c].tag]

(* A release with data that the agent takes.                               *)
LEMMA TakeProbeReleaseData ==
    ASSUME LineContext, NEW c \in Clients, TakeProbeRelease(c)
    PROVE  /\ c \in Tiles /\ ReleaseTaken(c)
           /\ \E a \in Addrs :
                /\ release[c][1].addr = a
                /\ \A b \in Addrs : b # a => mem'[b] = mem[b]
                /\ mem'[a] = mem[a] \/ releaseHasData(release[c][1].r_type)
                /\ releaseHasData(release[c][1].r_type) => mem'[a] = release[c][1].data
                /\ ~isVoluntary(release[c][1].r_type) /\ release[c][1].r_type \in ReleaseTypes
                /\ UNCHANGED << latest, voluntary, grant >>
<1> USE DEF LineContext, Context, TokenContext
<1>1. c \in Tiles /\ ReleaseTaken(c)
  BY TakeReleaseTakes DEF TakeRelease
<1>2. 1 \in DOMAIN release[c] /\ Head(release[c]) = release[c][1]
  BY <1>1 DEF ReleaseTaken
<1>3. PICK a \in Addrs : release[c][1].addr = a /\ release[c][1] \in ReleaseMsg(TrackerIds)
  BY <1>1, <1>2, ReleaseFields
<1>4. ~isVoluntary(release[c][1].r_type)
  BY <1>2 DEF TakeProbeRelease
<1>5. PICK t \in AcquireIds : release[c][1].master_xact_id = t
  BY <1>1, <1>2, <1>4 DEF ProbeInv, AnswersSent
<1>6. tracker[t].addr = a
  BY <1>1, <1>2, <1>3, <1>4, <1>5 DEF ProbeInv, AnswersSent, ProbesFor
<1>7. mem \in [Addrs -> Values]
  BY SMTT(20) DEF TypeOK, L2TypeOK
<1>8. /\ mem' = IF releaseHasData(release[c][1].r_type) THEN [mem EXCEPT ![a] = release[c][1].data] ELSE mem
      /\ UNCHANGED << latest, voluntary, grant >>
  BY <1>2, <1>5, <1>6 DEF TakeProbeRelease
<1> QED
  BY <1>1, <1>3, <1>4, <1>7, <1>8 DEF ReleaseMsg

(* The write of an eviction brings memory up to date.                      *)
LEMMA VoluntaryWriteData ==
    ASSUME LineContext, VoluntaryWrite
    PROVE  \E a \in Addrs : /\ voluntary.addr = a /\ mem'[a] = latest[a] /\ \A b \in Addrs : b # a => mem'[b] = mem[b]
                            /\ UNCHANGED << latest, release, grant >>
                            /\ \A c \in Tiles : EvictTr(c) => line[c].tag = a
<1> USE DEF LineContext, LineInv, Travelling, Context, TokenContext
<1>1. PICK a \in Addrs : voluntary.addr = a
  BY DEF TypeOK, L2TypeOK, VoluntaryReleaseTracker
<1>2. mem \in [Addrs -> Values]
  BY DEF TypeOK, L2TypeOK
<1>3. mem'[a] = voluntary.data /\ \A b \in Addrs : b # a => mem'[b] = mem[b]
  BY <1>1, <1>2 DEF VoluntaryWrite
<1>4. voluntary.data = latest[a]
  BY <1>1 DEF EvictionData, VoluntaryWrite
<1>5. ASSUME NEW c \in Tiles, EvictTr(c) PROVE line[c].tag = a
  BY <1>1, <1>5, EvictingOwner DEF TokenInv, Evictions
<1> QED
  BY <1>1, <1>3, <1>4, <1>5 DEF VoluntaryWrite, channels

\* A tile that holds the line dirty answers with the line.
LEMMA DirtyAnswers ==
    ASSUME Context, NEW c \in Tiles, NEW a \in Addrs, a = prober[c].addr, Perm(c, a) = "ExclusiveDirty", Answers(c)
    PROVE  WbRelease(c) /\ ~isVoluntary(wb[c].r_type)
<1> SUFFICES ASSUME ProbeRelease(c), ~ProbeDirty(c) PROVE FALSE
  BY DEF Answers
<1>1. CASE prober[c].hit
  BY <1>1, MachinesProbeRelease DEF Perm
<1>2. CASE ~prober[c].hit
  BY <1>2, MachinesProbeRelease
<1> QED
  BY <1>1, <1>2

(* The steps of a tile's machines, of the host and of the agent's other    *)
(* handlers, in which neither memory nor the last value changes.           *)
LEMMA OwedDirty ==
    ASSUME LineContext, [Next]_vars, NEW c \in Tiles, NEW a \in Addrs, Perm(c, a) = "ExclusiveDirty", ~Written(c),
           ~(VoluntaryWrite /\ EvictTr(c))
    PROVE  Owes(c, a)'
<1> USE DEF LineContext, LineInv, Context, TokenContext
<1>1. ~Written(c)'
  BY WrittenChange DEF Perm
<1>2. ~Refilled(c)
  BY RefillEffect, MachineFacts DEF Refilled, Perm, MshrOk
<1>3. ~Cleared(c)
  BY DEF Cleared, MshrMetaClear, Written
<1>4. ASSUME Answered(c) PROVE (Perm(c, a))' = "ExclusiveDirty" \/ Returning(c, a)'
  <2>1. CASE a # prober[c].addr
    BY <1>4, <2>1 DEF Answered
  <2>2. CASE a = prober[c].addr
    <3>2. WbRelease(c) /\ ~isVoluntary(wb[c].r_type)
      BY <1>4, <2>2, DirtyAnswers DEF Answered
    <3>3. PICK p \in ProbeTypes : p = prober[c].p_type
      BY TileTypes DEF ProbeUnit
    <3>4. wb[c].r_type = ReleaseOnProbe(p, TRUE) /\ wb[c].addr = a
      BY <2>2, <3>2, <3>3, WbReleaseData
    <3>5. CASE p = "copy"
      <4>1. (Perm(c, a))' = co.newStateOnProbe[p]["ExclusiveDirty"]
        BY <1>4, <2>2, <3>3 DEF Answered
      <4> QED
        BY <3>5, <4>1, PolicyProbes DEF TileStates
    <3>6. CASE p # "copy"
      <4>1. wb[c].r_type \in {"invalidateData", "downgradeData"}
        BY <3>4, <3>6 DEF ReleaseOnProbe, ProbeTypes
      <4>2. PICK n \in Nat, m \in ReleaseMsg(TrackerIds) :
               ReleaseAdded(c, n, m) /\ m.addr = wb[c].addr /\ m.r_type = wb[c].r_type
        BY <3>2, WbReleaseAdds
      <4> QED
        BY <3>4, <4>1, <4>2 DEF Returning, ReleaseAdded
    <3> QED
      BY <3>5, <3>6
  <2> QED
    BY <2>1, <2>2
<1>5. (Perm(c, a))' = "ExclusiveDirty" \/ Returning(c, a)'
  BY <1>2, <1>3, <1>4, PermChange DEF SamePerm, Dirtied
<1> QED
  BY <1>1, <1>5 DEF Owes

(* An answer with data stays in its queue until it is written to memory.   *)
LEMMA OwedReturning ==
    ASSUME LineContext, [Next]_vars, NEW c \in Tiles, NEW a \in Addrs, Returning(c, a)
    PROVE  Owes(c, a)' \/ (mem'[a] = latest'[a])
<1> USE DEF LineContext, LineInv, Travelling, Context, TokenContext
<1>1. PICK i \in DOMAIN release[c] : release[c][i].addr = a /\ release[c][i].r_type \in {"invalidateData", "downgradeData"}
  BY DEF Returning
<1>2. ASSUME NEW j \in DOMAIN release'[c], release'[c][j] = release[c][i] PROVE Owes(c, a)'
  BY <1>1, <1>2 DEF Owes, Returning
<1>3. CASE UNCHANGED release
  BY <1>2, <1>3
<1>4. ASSUME NEW d \in Tiles, NEW n, NEW m, ReleaseAdded(d, n, m) PROVE Owes(c, a)'
  <2>1. i \in DOMAIN release'[c] /\ release'[c][i] = release[c][i]
    BY <1>4 DEF ReleaseAdded
  <2> QED
    BY <1>2, <2>1
<1>5. ASSUME NEW d \in Clients, TakeRelease(d) PROVE Owes(c, a)' \/ (mem'[a] = latest'[a])
  <2>1. d \in Tiles /\ ReleaseTaken(d)
    BY <1>5, TakeReleaseTakes
  <2>2. CASE d # c \/ i # 1
    <3>1. \E j \in DOMAIN release'[c] : release'[c][j] = release[c][i]
      BY <2>1, <2>2 DEF ReleaseTaken
    <3> QED
      BY <1>2, <3>1
  <2>3. CASE d = c /\ i = 1
    <3>1. Head(release[c]) = release[c][1] /\ ~isVoluntary(release[c][1].r_type)
      BY <1>1, <2>1, <2>3 DEF ReleaseTaken, isVoluntary
    <3>2. TakeProbeRelease(c)
      BY <1>5, <2>3, <3>1 DEF TakeRelease, TakeVoluntaryRelease
    <3>3. mem'[a] = release[c][1].data /\ UNCHANGED latest
      BY <1>1, <2>3, <3>2, TakeProbeReleaseData, ClientSets DEF releaseHasData
    <3>4. release[c][1].data = latest[a]
      BY <1>1, <2>3 DEF ReleaseData
    <3> QED
      BY <3>3, <3>4
  <2> QED
    BY <2>2, <2>3
<1>6. ASSUME NEW d \in Tiles, ProbeRelease(d), ~ProbeDirty(d) PROVE Owes(c, a)'
  BY <1>4, <1>6, ProbeReleaseAdds
<1>7. ASSUME NEW d \in Tiles, WbRelease(d) PROVE Owes(c, a)'
  BY <1>4, <1>7, WbReleaseAdds
<1> QED
  BY <1>3, <1>5, <1>6, <1>7, ReleaseSteps

(* Memory is up to date or somebody owes it the line.                      *)
LEMMA MemoryOwedStep == ASSUME LineContext, [Next]_vars, MemoryOwed PROVE MemoryOwed'
<1> USE DEF LineContext, LineInv, Travelling, Context, TokenContext
<1> SUFFICES ASSUME NEW a \in Addrs PROVE mem'[a] = latest'[a] \/ \E c \in Tiles : Owes(c, a)'
  BY DEF MemoryOwed
<1>1. ASSUME NEW c \in Tiles, Perm(c, a) = "ExclusiveDirty", ~Written(c)
      PROVE  mem'[a] = latest'[a] \/ Owes(c, a)'
  <2>1. CASE VoluntaryWrite /\ EvictTr(c)
    <3>1. line[c].tag = a
      BY <1>1, PermTag
    <3>2. mem'[a] = latest[a] /\ UNCHANGED latest
      BY <2>1, <3>1, VoluntaryWriteData
    <3> QED
      BY <3>2
  <2> QED
    BY <1>1, <2>1, OwedDirty
<1>2. CASE \E c \in Tiles : Owes(c, a)
  BY <1>1, <1>2, OwedReturning DEF Owes
<1>3. CASE mem[a] = latest[a] /\ \A c \in Tiles : ~Owes(c, a)
  <2>1. ASSUME NEW c \in Tiles, NEW b \in Addrs, Writes(c, b) PROVE latest'[a] = latest[a]
    <3>1. ASSUME a = b PROVE FALSE
      <4>1. Perm(c, a) = "ExclusiveDirty" /\ mshr[c].state \in {"s_invalid", "s_drain_rpq"}
        BY <2>1, <3>1 DEF Writes
      <4>2. ~Written(c)
        BY <4>1, NoEviction DEF Written
      <4> QED
        BY <1>3, <4>1, <4>2 DEF Owes
    <3> QED
      BY <2>1, <3>1 DEF Writes
  <2>2. ASSUME NEW t \in AcquireIds, MemWrite(t)
        PROVE  mem'[a] = latest'[a] \/ (latest'[a] = latest[a] /\ mem'[a] = mem[a])
    BY <2>2, MemWriteEffect
  <2>3. CASE \A t \in AcquireIds : ~MemWrite(t)
    <3>1. latest'[a] = latest[a]
      BY <2>1, <2>3, ValueChange
    <3>2. ASSUME NEW c \in Clients, TakeProbeRelease(c) PROVE mem'[a] = mem[a]
      <4>1. PICK b \in Addrs : /\ c \in Tiles /\ ReleaseTaken(c) /\ release[c][1].addr = b
                               /\ (b # a => mem'[a] = mem[a])
                               /\ mem'[b] = mem[b] \/ releaseHasData(release[c][1].r_type)
                               /\ ~isVoluntary(release[c][1].r_type)
        BY <3>2, TakeProbeReleaseData
      <4>2. 1 \in DOMAIN release[c]
        BY <4>1 DEF ReleaseTaken
      <4>3. ASSUME a = b PROVE ~releaseHasData(release[c][1].r_type)
        <5>1. release[c][1].r_type \notin {"invalidateData", "downgradeData"}
          BY <1>3, <4>1, <4>2, <4>3 DEF Owes, Returning
        <5>2. release[c][1].r_type # "copyData"
          BY <1>3, <4>1, <4>2, <4>3 DEF ReleaseData, Owes
        <5> QED
          BY <4>1, <5>1, <5>2 DEF releaseHasData, isVoluntary
      <4> QED
        BY <4>1, <4>3
    <3>3. VoluntaryWrite => mem'[a] = latest[a] \/ mem'[a] = mem[a]
      BY VoluntaryWriteData
    <3> QED
      BY <1>3, <2>3, <3>1, <3>2, <3>3, AgentMemory
  <2> QED
    BY <1>3, <2>2, <2>3
<1> QED
  BY <1>2, <1>3 DEF MemoryOwed

(* What an eviction has written is still the last value when the tag is    *)
(* cleared.                                                                *)
LEMMA EvictedWrittenStep == ASSUME LineContext, [Next]_vars, EvictedWritten PROVE EvictedWritten'
<1> USE DEF LineContext, LineInv, Travelling, Context, TokenContext
<1> SUFFICES ASSUME NEW c \in Tiles, Written(c)', line'[c].state = "ExclusiveDirty"
             PROVE  mem'[line'[c].tag] = latest'[line'[c].tag]
  BY DEF EvictedWritten
<1>0. line \in [Tiles -> Line] /\ mshr \in [Tiles -> MSHR]
  BY TileTypes
<1>1. PICK a \in Addrs : line[c].tag = a
  BY <1>0 DEF Line
<1>2. CASE Written(c)
  <2>1. mshr[c].state \in {"s_wb_resp", "s_meta_clear"}
    BY <1>2, NoEviction DEF Written
  <2>2. prober[c].state \in {"s_invalid", "s_meta_read"} /\ ~Unsettled(c)
    BY <2>1, MachineFacts DEF MshrOk
  <2>3. line'[c].tag = a /\ line[c].state = "ExclusiveDirty"
    <3>1. CASE UNCHANGED line
      BY <1>1, <3>1
    <3>2. ASSUME NEW d \in Tiles, TileStep(d), d # c PROVE line'[c] = line[c]
      BY <3>2, TileFrame
    <3>3. CASE TileStep(c)
      <4>1. CASE CoreRequest(c)
        <5>1. PICK cmd \in Cmds, b \in Addrs, v \in Values :
                   CpuHit(c, cmd, b, v) \/ PrimaryMiss(c, cmd, b, v) \/ SecondaryMiss(c, cmd, b, v)
          BY <4>1, CoreRequestCases
        <5> QED
          BY <1>1, <2>1, <5>1 DEF CpuHit, PrimaryMiss, SecondaryMiss
      <4>2. CASE MshrStep(c)
        BY <1>0, <1>1, <2>1, <4>2 DEF MshrStep, MshrWbReq, MshrWbResp, MshrMetaClear, MshrRefillReq, MshrRefill, MshrMetaWrite,
           MshrReplay, MshrDrained, newStateOnFlush, Line
      <4>3. CASE MshrFinish(c) \/ WbStep(c) \/ ProbeStep(c) \/ LrscExpire(c)
        BY <1>1, <2>2, <4>3 DEF MshrFinish, WbStep, WbRead, WbRelease, ProbeStep, ProbeAccept, ProbeLookup, ProbeRelease,
           ProbeWbReq, ProbeWbResp, ProbeMetaWrite, LrscExpire
      <4> QED
        BY <3>3, <4>1, <4>2, <4>3 DEF TileStep
    <3> QED
      BY <1>1, <3>1, <3>2, <3>3 DEF Next, OfL2, OfTile, OfHtif, dcvars, vars
  <2>4. Perm(c, a) = "ExclusiveDirty"
    BY <1>1, <2>1, <2>2, <2>3 DEF Perm
  <2>5. latest'[a] = latest[a] /\ mem[a] = latest[a]
    BY <1>1, <1>2, <2>1, <2>3, <2>4, OwnerKept DEF EvictedWritten
  <2>6. ASSUME NEW d \in Clients, TakeProbeRelease(d) PROVE mem'[a] = mem[a]
    <3>1. PICK b \in Addrs : /\ d \in Tiles /\ ReleaseTaken(d) /\ release[d][1].addr = b
                             /\ (b # a => mem'[a] = mem[a])
                             /\ mem'[b] = mem[b] \/ releaseHasData(release[d][1].r_type)
                             /\ ~isVoluntary(release[d][1].r_type)
      BY <2>6, TakeProbeReleaseData
    <3>2. 1 \in DOMAIN release[d]
      BY <3>1 DEF ReleaseTaken
    <3>3. ASSUME a = b PROVE ~releaseHasData(release[d][1].r_type)
      <4>1. release[d][1].r_type \notin {"invalidateData", "downgradeData"}
        BY <2>4, <3>1, <3>2, <3>3 DEF ReleaseData, Exclusive
      <4>2. release[d][1].r_type # "copyData"
        BY <1>2, <2>4, <3>1, <3>2, <3>3 DEF ReleaseData, OneWriter, Exclusive
      <4> QED
        BY <3>1, <4>1, <4>2 DEF releaseHasData, isVoluntary
    <3> QED
      BY <3>1, <3>3
  <2>7. VoluntaryWrite => mem'[a] = latest[a] \/ mem'[a] = mem[a]
    BY VoluntaryWriteData
  <2>8. ASSUME NEW t \in AcquireIds, MemWrite(t) PROVE mem'[a] = mem[a]
    BY <2>4, <2>8, MemWriteEffect
  <2> QED
    BY <2>3, <2>5, <2>6, <2>7, <2>8, AgentMemory
<1>3. CASE VoluntaryWrite /\ EvictTr(c)
  <2>1. mem'[a] = latest[a] /\ UNCHANGED latest
    BY <1>1, <1>3, VoluntaryWriteData
  <2>2. line'[c] = line[c]
    <3>1. ASSUME NEW d \in Tiles, OfTile(TileStep(d)) PROVE FALSE
      BY <1>3, <3>1 DEF OfTile, l2vars, VoluntaryWrite, TypeOK, L2TypeOK, VoluntaryReleaseTracker
    <3> QED
      BY <3>1 DEF Next, OfL2, OfHtif, dcvars, vars
  <2> QED
    BY <1>1, <2>1, <2>2
<1> QED
  BY <1>2, <1>3, WrittenChange

(* Both together.                                                          *)
LEMMA MemoryLatestStep == ASSUME LineContext, [Next]_vars PROVE MemoryLatest'
BY MemoryOwedStep, EvictedWrittenStep DEF MemoryLatest, MemoryOwed, EvictedWritten, LineContext, LineInv

-----------------------------------------------------------------------------
(* The invariant of the lines, and what it says of the program.            *)

(* At first memory has every value and no tile has a line.                 *)
LEMMA LineInit == Init => LineInv
<1> SUFFICES ASSUME Init PROVE LineInv
  OBVIOUS
<1>1. /\ \A c \in Clients : grant[c] = << >> /\ release[c] = << >>
      /\ \A t \in AcquireIds : tracker[t].state = "s_idle"
      /\ outer = {} /\ latest = mem /\ voluntary.state = "s_idle" /\ Tiles \subseteq Clients
  BY ClientSets DEF Init, ChannelsInit, L2Init, IdleTracker, IdleVoluntary
<1>2. \A c \in Tiles : /\ line[c].state = "Invalid" /\ mshr[c].state = "s_invalid" /\ prober[c].state = "s_invalid"
  BY DEF Init, DCacheInit, IdleMSHR, IdleProber
<1>3. \A c \in Tiles, a \in Addrs : Perm(c, a) = "Invalid"
  BY <1>2 DEF Perm, Unsettled
<1>4. OneWriter /\ CopiesLatest
  BY <1>3 DEF OneWriter, CopiesLatest, Exclusive
<1>5. AnswersKept /\ SharersKnown
  BY <1>1 DEF AnswersKept, SharersKnown, Idle
<1>6. MemoryLatest
  BY <1>1, <1>2 DEF MemoryLatest
<1>7. Travelling
  BY <1>1 DEF Travelling, ReleaseData, EvictionData, ReadData, GrantData, GrantOf
<1> QED
  BY <1>4, <1>5, <1>6, <1>7 DEF LineInv

(* The third layer is inductive, on top of the other two.                  *)
LEMMA LineStep == ASSUME LineContext, [Next]_vars PROVE LineInv'
BY OneWriterStep, AnswersKeptStep, SharersKnownStep, CopiesLatestStep, MemoryLatestStep, ReleaseDataStep, EvictionDataStep,
   ReadDataStep, GrantDataStep DEF LineInv, Travelling

(* Who may read and write a line, and where its last value is: one writer, *)
(* or readers whose copies are the last value; memory is up to date, or an *)
(* owner or an answer under way owes it the line; data in a release, in    *)
(* the VoluntaryReleaseTracker, read from memory or in a grant is the last *)
(* value. It needs that a tag write is not overtaken (~MetaStalls) and     *)
(* that the agent's count of sharers does not wrap to none (SharersFit),   *)
(* because a grant for no sharers is exclusive.                            *)
THEOREM LinesCorrect == ASSUME ~MetaStalls, SharersFit PROVE Spec => [](LineInv /\ Replays)
<1>1. Init => LineInv /\ Replays
  BY LineInit, ReplaysInit
<1>2. LineInv /\ Replays /\ ProbeInv /\ TypeOK /\ OneTransactionPerLine /\ TokenInv /\ [Next]_vars => LineInv' /\ Replays'
  BY LineStep, ReplaysStep DEF LineContext, Context, TokenContext
<1>3. Spec => []TypeOK
  BY CoherentTypeCorrect
<1>4. Spec => []OneTransactionPerLine
  BY OneTransaction
<1>5. Spec => []TokenInv
  BY TokensCorrect
<1>6. Spec => []ProbeInv
  BY ProbesCorrect
<1> QED
  BY <1>1, <1>2, <1>3, <1>4, <1>5, <1>6, PTL DEF Spec

\* What a core may do, its tile has the permission for.
LEMMA AllowedPerm ==
    ASSUME Context, Replays, NEW c \in Tiles, NEW cmd \in Cmds, NEW a \in Addrs, Allowed(c, cmd, a)
    PROVE  Perm(c, a) # "Invalid" /\ Perm(c, a) \in co.isHit[cmd] /\ Perm(c, a) = line[c].state
<1> USE DEF Context, TokenContext
<1>1. CASE ~Nacked(c) /\ mshr[c].state = "s_invalid" /\ tag_match(c, a) /\ permitted(c, cmd)
  BY <1>1, MachineFacts DEF Nacked, Perm, tag_match, permitted, isValid
<1>2. CASE mshr[c].state = "s_drain_rpq" /\ mshr[c].addr = a /\ mshr[c].rpq # << >> /\ Head(mshr[c].rpq).cmd = cmd
  <2>1. s2_hit(c, cmd, a)
    BY <1>2, ReplaysFound DEF ReplaysHit
  <2>2. ~Unsettled(c)
    BY <1>2, MachineFacts
  <2> QED
    BY <1>2, <2>1, <2>2 DEF Perm, s2_hit, tag_match, permitted, isValid
<1> QED
  BY <1>1, <1>2 DEF Allowed

(* What the tags say is what the permissions are, but for a tag write that *)
(* is due.                                                                 *)
LEMMA LinesExclusive == ASSUME LineContext PROVE SingleWriter
<1> USE DEF LineContext, LineInv, Context, TokenContext
<1> SUFFICES ASSUME NEW c \in Tiles, NEW d \in Tiles, NEW a \in Addrs, c # d, Allowed(c, "store", a), Allowed(d, "load", a)
             PROVE  FALSE
  BY DEF SingleWriter
<1>1. "store" \in Cmds /\ "load" \in Cmds /\ isWriteIntent("store")
  BY DEF Cmds, isWriteIntent, isWrite
<1>2. Perm(c, a) \in co.isHit["store"] /\ Perm(c, a) = line[c].state /\ Perm(d, a) # "Invalid"
  BY <1>1, AllowedPerm
<1>3. Known(line[c].state) /\ line[c].state \in TileStates
  BY MachineFacts, TileTypes DEF MshrOk, Line
<1>4. Exclusive(Perm(c, a))
  BY <1>1, <1>2, <1>3, PolicyHits
<1> QED
  BY <1>2, <1>4 DEF OneWriter

(* A load that hits reads what the last store wrote.                       *)
LEMMA LinesFresh == ASSUME LineContext PROVE ReadsLatest
<1>1. "load" \in Cmds
  BY DEF Cmds
<1> QED
  BY <1>1, AllowedPerm DEF ReadsLatest, LineContext, LineInv, CopiesLatest

(* A value that memory does not have is with somebody who is going to      *)
(* write it.                                                               *)
LEMMA LinesKept == ASSUME LineContext PROVE NothingLost
<1> USE DEF LineContext, LineInv, Travelling, Context, TokenContext
<1> SUFFICES ASSUME NEW a \in Addrs, mem[a] # latest[a]
             PROVE  latest[a] \in InFlight(a) \/ \E c \in Tiles : Holds(c, a) /\ line[c].data = latest[a]
  BY DEF NothingLost
<1>1. PICK c \in Tiles : Owes(c, a)
  BY DEF MemoryLatest
<1>2. CASE Returning(c, a)
  <2>1. PICK i \in DOMAIN release[c] : release[c][i].addr = a /\ release[c][i].r_type \in {"invalidateData", "downgradeData"}
    BY <1>2 DEF Returning
  <2>2. release[c][i].data = latest[a] /\ releaseHasData(release[c][i].r_type)
    BY <2>1 DEF ReleaseData, releaseHasData
  <2> DEFINE sent(d) == {release[d][j].data : j \in {k \in DOMAIN release[d] :
                            release[d][k].addr = a /\ releaseHasData(release[d][k].r_type)}}
  <2>3. latest[a] \in sent(c)
    BY <2>1, <2>2
  <2>4. UNION {sent(d) : d \in Tiles} \subseteq InFlight(a)
    BY Zenon DEF InFlight
  <2> HIDE DEF sent
  <2>5. latest[a] \in UNION {sent(d) : d \in Tiles}
    BY <2>3
  <2> QED
    BY <2>4, <2>5
<1>3. CASE Perm(c, a) = "ExclusiveDirty"
  <2>1. line[c].tag = a /\ line[c].data = latest[a]
    BY <1>3 DEF Perm, CopiesLatest
  <2>2. CASE Unsettled(c)
    <3>1. line[c].state = prober[c].line_state
      BY <2>2, MachineFacts DEF ProberOk
    <3>2. PICK p \in ProbeTypes, st \in TileStates : p = prober[c].p_type /\ st = prober[c].line_state
      BY TileTypes DEF ProbeUnit
    <3>3. co.newStateOnProbe[p][st] = "ExclusiveDirty"
      BY <1>3, <2>1, <2>2, <3>2 DEF Perm
    <3>4. prober[c].state # "s_invalid"
      BY <2>2 DEF Unsettled
    <3>5. \E x \in AcquireTypes : p = co.getProbeType[x]
      BY <3>2, <3>4, MachineFacts DEF ProberOk
    <3>6. st = "ExclusiveDirty"
      BY <3>3, <3>5, PolicyProbes DEF ProbeTypes
    <3> QED
      BY <2>1, <3>1, <3>2, <3>6, PolicyHits DEF Holds, tag_match, isValid
  <2>3. CASE ~Unsettled(c) /\ mshr[c].state = "s_meta_write_req"
    BY <2>1, <2>3, MachineFacts DEF Holds, MshrOk
  <2>4. CASE ~Unsettled(c) /\ mshr[c].state # "s_meta_write_req"
    BY <1>3, <2>1, <2>4, PolicyHits DEF Perm, Holds, tag_match, isValid
  <2> QED
    BY <2>1, <2>2, <2>3, <2>4
<1> QED
  BY <1>1, <1>2, <1>3 DEF Owes

(* The invariants of all the layers, together.                             *)
LEMMA LineContextHolds == ASSUME ~MetaStalls, SharersFit PROVE Spec => []LineContext
<1>1. Spec => [](LineInv /\ Replays)
  BY LinesCorrect
<1>2. Spec => []TypeOK
  BY CoherentTypeCorrect
<1>3. Spec => []OneTransactionPerLine
  BY OneTransaction
<1>4. Spec => []TokenInv
  BY TokensCorrect
<1>5. Spec => []ProbeInv
  BY ProbesCorrect
<1>6. LineInv /\ Replays /\ TypeOK /\ OneTransactionPerLine /\ TokenInv /\ ProbeInv => LineContext
  BY DEF LineContext, Context, TokenContext
<1> QED
  BY <1>1, <1>2, <1>3, <1>4, <1>5, <1>6, PTL

(* With every policy, for any number of tiles, lines and trackers: while a *)
(* tile can store to a line, at once or by a replay, no other tile can     *)
(* read it. The probes that took the copies away were answered before the  *)
(* grant, and nobody asks for the line again before its replays are done.  *)
THEOREM OneWriterCorrect == ASSUME ~MetaStalls, SharersFit PROVE Spec => []SingleWriter
<1>1. LineContext => SingleWriter
  BY LinesExclusive
<1> QED
  BY <1>1, LineContextHolds, PTL

(* What a tile can read from its data array is what the last store, of any *)
(* tile or of the host, wrote.                                             *)
THEOREM ReadsCorrect == ASSUME ~MetaStalls, SharersFit PROVE Spec => []ReadsLatest
<1>1. LineContext => ReadsLatest
  BY LinesFresh
<1> QED
  BY <1>1, LineContextHolds, PTL

(* No store is lost: the last value of a line is in memory, in the cache   *)
(* of its owner or in a message that takes it to memory.                   *)
THEOREM WritesKept == ASSUME ~MetaStalls, SharersFit PROVE Spec => []NothingLost
<1>1. LineContext => NothingLost
  BY LinesKept
<1> QED
  BY <1>1, LineContextHolds, PTL

-----------------------------------------------------------------------------
(* The host's read.                                                        *)

(* A read of the host probes for a copy and takes nothing away.            *)
LEMMA HostReadFacts ==
    ASSUME Context, NEW t \in AcquireIds, HostRead(t), NEW a \in Addrs, HostAsks, htif.addr = a
    PROVE  tracker[t].addr = a /\ tracker[t].a_type = "readUncached" /\ probe_type(t) = "copy"
           /\ tracker[t].state \notin {"s_mem_write", "s_make_grant"}
<1> USE DEF Context, TokenContext, TokenInv, ProbeInv
<1>1. PICK x \in AcquireTypes, b \in Addrs : tracker[t].a_type = x /\ tracker[t].addr = b
  BY TrackerFields
<1>2. Waiting(HTIF, x, b)
  BY <1>1, ClientSets DEF Asking, HostRead
<1>3. x = "readUncached" /\ b = a
  BY <1>2 DEF Waiting, HostAsks
<1>4. probe_type(t) = "copy"
  BY <1>1, <1>3, PolicyMessages DEF probe_type, messageIsUncached, UncachedProbe
<1> QED
  BY <1>1, <1>3, <1>4 DEF Stages

(* A busy tracker stays busy until its transaction ends.                   *)
LEMMA BusyKept ==
    ASSUME TypeOK, [Next]_vars, NEW t \in AcquireIds, tracker[t].state = "s_busy", ~Idle(t)'
    PROVE  tracker'[t].state = "s_busy"
<1>0. tracker \in [AcquireIds -> AcquireTracker]
  BY DEF TypeOK, L2TypeOK
<1>1. ASSUME NEW c \in Clients, AcceptAcquire(c) PROVE tracker'[t] = tracker[t]
  BY <1>1, AcceptEffect DEF Idle
<1>2. ASSUME NEW c \in Clients, TakeGrantAck(c) PROVE tracker'[t] = tracker[t]
  <2>1. tracker'[t] # IdleTracker
    BY DEF Idle, IdleTracker
  <2> QED
    BY <1>2, <2>1 DEF TakeGrantAck
<1>3. ASSUME NEW c \in Clients, TakeProbeRelease(c) PROVE tracker'[t].state = "s_busy"
  BY <1>3, TakeProbeReleaseEffect
<1>4. ASSUME NEW u \in AcquireIds, SendProbe(u) \/ MemWrite(u) \/ MemRead(u) PROVE tracker'[t].state = "s_busy"
  BY <1>0, <1>4 DEF SendProbe, MemWrite, MemRead, AcquireTracker
<1>5. ASSUME NEW u \in AcquireIds, ForwardGrant(u) \/ MakeGrant(u) PROVE tracker'[t].state = "s_busy"
  BY <1>0, <1>5 DEF ForwardGrant, MakeGrant, AcquireTracker
<1>6. (\E c \in Clients : TakeVoluntaryRelease(c)) \/ VoluntaryStep => UNCHANGED tracker
  BY DEF TakeVoluntaryRelease, VoluntaryStep, VoluntaryWrite, VoluntaryAck
<1> QED
  BY <1>1, <1>2, <1>3, <1>4, <1>5, <1>6
     DEF Next, OfL2, OfTile, OfHtif, L2Step, TakeRelease, TrackerStep, l2vars, vars

(* What the step adds to the values seen.                                  *)
LEMMA SeenGrows ==
    ASSUME TypeOK, [Next]_vars, HostAsks'
    PROVE  /\ latest'[htif'.addr] \in seen' \/ UNCHANGED vars
           /\ HostAsks => htif'.addr = htif.addr /\ seen \subseteq seen'
           /\ ~HostAsks => HostRequest /\ htif.state = "state_rx" /\ UNCHANGED << l2vars, dcvars, probe, release, grant, grant_ack, latest >>
<1>1. CASE UNCHANGED vars
  BY <1>1 DEF vars, HostAsks
<1>2. CASE OfL2(L2Step) \/ \E c \in Tiles : OfTile(TileStep(c))
  BY <1>2 DEF OfL2, OfTile, Observe, HostAsks
<1>3. CASE OfHtif(HtifStep)
  <2>1. HostRequest
    <3>1. ~HtifFinish
      BY DEF HtifFinish, HostAsks, IdleHtif
    <3>2. ~HtifGrant
      BY DEF HtifGrant, HostAsks, TypeOK, HtifTypeOK
    <3> QED
      BY <1>3, <3>1, <3>2 DEF OfHtif, HtifStep
  <2>2. htif.state = "state_rx" /\ UNCHANGED << l2vars, dcvars, probe, release, grant, grant_ack, latest >>
    BY <1>3, <2>1 DEF HostRequest, HtifRequest, OfHtif
  <2>3. latest'[htif'.addr] \in seen'
    BY <1>3 DEF OfHtif, Observe, HostAsks
  <2> QED
    BY <2>1, <2>2, <2>3 DEF HostAsks
<1> QED
  BY <1>1, <1>2, <1>3 DEF Next

HostContext == LineContext /\ HostInv

(* The read is accepted: whoever owes the line has still to be asked.      *)
LEMMA HostReadStarts ==
    ASSUME HostContext, [Next]_vars, NEW t \in AcquireIds, Idle(t), HostRead(t)', NEW a \in Addrs,
           HostAsks, HostAsks', htif.addr = a, latest[a] \in seen'
    PROVE  ReadsSeen(t, a)'
<1> USE DEF HostContext, LineContext, LineInv, Context, TokenContext, TokenInv, ProbeInv
<1>1. ~Idle(t)' /\ tracker'[t].init_client_id = HTIF
  BY DEF HostRead, client
<1>2. /\ tracker'[t].probe_flags = Tiles /\ AcceptAcquire(HTIF) /\ acquire[HTIF] # << >>
      /\ \A u \in AcquireIds : ~Idle(u) => tracker[u].addr # Head(acquire[HTIF]).addr
  BY <1>1, NewTransaction
<1>3. Head(acquire[HTIF]).addr = a
  <2>1. PICK x \in AcquireTypes, b \in Addrs : Head(acquire[HTIF]).a_type = x /\ Head(acquire[HTIF]).addr = b
    <3>1. acquire[HTIF] \in Seq(AcquireMsg)
      BY ClientSets DEF TypeOK, ChannelsTypeOK
    <3>2. Head(acquire[HTIF]) \in AcquireMsg
      BY <1>2, <3>1
    <3> QED
      BY <3>2 DEF AcquireMsg
  <2>2. Waiting(HTIF, x, b)
    BY <1>2, <2>1, ClientSets DEF Asking
  <2> QED
    BY <2>1, <2>2 DEF Waiting
<1>4. UNCHANGED << voluntary, mem, outer, release, grant, latest >>
  BY <1>2 DEF AcceptAcquire
<1>5. UNCHANGED dcvars
  <2>1. ASSUME NEW c \in Tiles, OfTile(TileStep(c)) PROVE FALSE
    <3>1. UNCHANGED tracker
      BY <2>1 DEF OfTile, l2vars
    <3> QED
      BY <1>1, <3>1 DEF Idle
  <2> QED
    BY <2>1 DEF Next, OfL2, OfHtif, vars
<1>6. ASSUME NEW c \in Tiles, NEW i \in DOMAIN release[c], ~isVoluntary(release[c][i].r_type)
      PROVE  release[c][i].master_xact_id # t /\ release[c][i].addr # a
  <2>1. PICK u \in AcquireIds, b \in Addrs : release[c][i].master_xact_id = u /\ release[c][i].addr = b
    BY <1>6, ReleaseFields DEF AnswersSent
  <2>2. ProbesFor(u, b)
    BY <1>6, <2>1 DEF AnswersSent
  <2> QED
    BY <1>2, <1>3, <2>1, <2>2 DEF ProbesFor, Idle
<1>7. \A c \in Tiles : \A i \in DOMAIN release'[c] : ~CopyOf(t, c, i)'
  BY <1>4, <1>6 DEF CopyOf, isVoluntary
<1>8. mem'[a] \in seen' \/ \E c \in Tiles : ToAnswer(t, c)' /\ (Perm(c, a))' = "ExclusiveDirty" /\ ~Written(c)'
  <2>1. CASE mem[a] = latest[a]
    BY <1>4, <2>1
  <2>2. ASSUME NEW c \in Tiles, Owes(c, a)
        PROVE  ToAnswer(t, c)' /\ (Perm(c, a))' = "ExclusiveDirty" /\ ~Written(c)'
    <3>1. ~Returning(c, a)
      BY <1>6 DEF Returning, isVoluntary
    <3>2. Perm(c, a) = "ExclusiveDirty" /\ ~Written(c)
      BY <2>2, <3>1 DEF Owes
    <3>3. ~Written(c)'
      BY <1>4, <1>5, <3>2 DEF Written, EvictAck, EvictTr, dcvars
    <3>4. (Perm(c, a))' = Perm(c, a)
      BY <1>5, MachinesFrame DEF dcvars, Machines, MachinesOf
    <3>5. ToAnswer(t, c)'
      BY <1>2 DEF ToAnswer, Flagged
    <3> QED
      BY <3>2, <3>3, <3>4, <3>5
  <2> QED
    BY <2>1, <2>2 DEF MemoryLatest
<1>9. \A r \in outer' : r.id # t
  <2>1. ~InOuter(t)
    BY ClientSets DEF OnePlace, Idle
  <2> QED
    BY <1>4, <2>1 DEF InOuter
<1>10. ~GrantOf(t, HTIF)'
  <2>1. ~GrantOf(t, HTIF)
    BY ClientSets DEF OnePlace, BusyFor, Idle
  <2> QED
    BY <1>4, <2>1 DEF GrantOf
<1> QED
  BY <1>7, <1>8, <1>9, <1>10 DEF ReadsSeen

(* The read is under way.                                                  *)
LEMMA CopiesSeen ==
    ASSUME HostContext, [Next]_vars, NEW t \in AcquireIds, HostRead(t), ~Idle(t)', NEW a \in Addrs,
           HostAsks, htif.addr = a, seen \subseteq seen',
           NEW c \in Tiles, NEW i \in DOMAIN release'[c], CopyOf(t, c, i)'
    PROVE  release'[c][i].data \in seen'
<1> USE DEF HostContext, LineContext, LineInv, Context, TokenContext
<1>0. ReadsSeen(t, a) /\ latest[a] \in seen
  BY DEF HostInv
<1>1. ASSUME NEW k \in DOMAIN release[c], release'[c][i] = release[c][k] PROVE release'[c][i].data \in seen'
  BY <1>0, <1>1 DEF ReadsSeen, CopyOf
<1>2. release'[c][i].r_type # ReleaseOnProbe(prober[c].p_type, FALSE)
  <2>1. prober[c].p_type \in ProbeTypes
    BY TileTypes DEF ProbeUnit
  <2> QED
    BY <2>1 DEF ReleaseOnProbe, ProbeTypes, CopyOf
<1>3. ASSUME WbRelease(c), release'[c][i].addr = wb[c].addr, release'[c][i].data = wb[c].data
      PROVE  release'[c][i].data \in seen'
  <2>1. PICK b \in Addrs : wb[c].addr = b /\ wb[c].data = latest[b]
    BY <1>3, WbReleaseData
  <2>2. AnswersSent'
    BY ProbeTokensStep DEF ProbeTokens
  <2>3. tracker'[t].addr = b
    BY <1>3, <2>1, <2>2 DEF AnswersSent, CopyOf, isVoluntary, ProbesFor
  <2>4. tracker'[t].addr = a
    BY HostReadFacts, TrackerKept DEF HostRead
  <2> QED
    BY <1>0, <1>3, <2>1, <2>3, <2>4
<1> QED
  BY <1>1, <1>2, <1>3, ReleaseOld

\* The answer that a tile gives is in the release queue.
LEMMA AnswerSent ==
    ASSUME Context, NEW c \in Tiles, WbRelease(c), NEW t, prober[c].master_xact_id = t, wb[c].r_type = "copyData"
    PROVE  \E i \in DOMAIN release'[c] : CopyOf(t, c, i)'
<1> USE DEF Context, TokenContext
<1>1. wb[c].master_xact_id = t
  BY MachineFacts DEF WritebackOk, WbRelease, isVoluntary
<1>2. PICK n \in Nat, m \in ReleaseMsg(TrackerIds) :
           ReleaseAdded(c, n, m) /\ m.master_xact_id = wb[c].master_xact_id /\ m.r_type = wb[c].r_type
  BY WbReleaseAdds
<1> QED
  BY <1>1, <1>2 DEF ReleaseAdded, CopyOf

\* Memory gets only values that the read may return.
LEMMA MemSeen ==
    ASSUME HostContext, [Next]_vars, NEW t \in AcquireIds, HostRead(t), NEW a \in Addrs, HostAsks, htif.addr = a
    PROVE  /\ mem'[a] = mem[a] \/ mem'[a] \in seen
           /\ \A c \in Tiles : \A i \in DOMAIN release[c] : CopyOf(t, c, i) =>
                 mem'[a] \in seen \/ \E j \in DOMAIN release'[c] : CopyOf(t, c, j)'
<1> USE DEF HostContext, LineContext, LineInv, Travelling, Context, TokenContext
<1>0. ReadsSeen(t, a) /\ latest[a] \in seen /\ ~Idle(t)
  BY DEF HostInv, HostRead
<1>1. tracker[t].addr = a /\ tracker[t].a_type = "readUncached" /\ probe_type(t) = "copy" /\ tracker[t].state # "s_mem_write"
  BY HostReadFacts
<1>2. ASSUME NEW c \in Clients, TakeProbeRelease(c)
      PROVE  /\ mem'[a] = mem[a] \/ mem'[a] \in seen
             /\ c \in Tiles /\ ReleaseTaken(c)
             /\ CopyOf(t, c, 1) => mem'[a] \in seen
  <2>1. PICK b \in Addrs :
               /\ c \in Tiles /\ ReleaseTaken(c) /\ release[c][1].addr = b
               /\ b # a => mem'[a] = mem[a]
               /\ mem'[b] = mem[b] \/ releaseHasData(release[c][1].r_type)
               /\ releaseHasData(release[c][1].r_type) => mem'[b] = release[c][1].data
               /\ ~isVoluntary(release[c][1].r_type)
    BY <1>2, TakeProbeReleaseData
  <2>2. 1 \in DOMAIN release[c]
    BY <2>1 DEF ReleaseTaken
  <2>3. ASSUME a = b
        PROVE  release[c][1].master_xact_id = t /\ release[c][1].r_type \in {"copyData", "copyAck"}
    <3>1. release[c][1].master_xact_id = t
      BY <1>0, <1>1, <2>1, <2>2, <2>3, AnswerLine
    <3>2. PICK d \in BOOLEAN : release[c][1].r_type = ReleaseOnProbe(probe_type(t), d)
      BY <2>1, <2>2, <3>1 DEF ProbeInv, AnswersSent
    <3> QED
      BY <1>1, <3>1, <3>2 DEF ReleaseOnProbe
  <2>4. ASSUME CopyOf(t, c, 1) PROVE a = b
    BY <1>1, <2>1, <2>2, <2>4 DEF ProbeInv, AnswersSent, CopyOf, ProbesFor
  <2>5. ASSUME a = b, releaseHasData(release[c][1].r_type) PROVE mem'[a] \in seen
    <3>1. CopyOf(t, c, 1)
      BY <2>3, <2>5 DEF CopyOf, releaseHasData
    <3> QED
      BY <1>0, <2>1, <2>2, <2>5, <3>1 DEF ReadsSeen
  <2> QED
    BY <2>1, <2>4, <2>5 DEF CopyOf, releaseHasData
<1>3. VoluntaryWrite => mem'[a] = mem[a] \/ mem'[a] \in seen
  BY <1>0, VoluntaryWriteData
<1>4. ASSUME NEW u \in AcquireIds, MemWrite(u) PROVE mem'[a] = mem[a]
  <2>1. PICK b \in Addrs : tracker[u].addr = b /\ tracker[u].state = "s_mem_write" /\ (b # a => mem'[a] = mem[a])
    BY <1>4, MemWriteEffect
  <2>2. a # b
    BY <1>0, <1>1, <2>1, SameLine DEF Idle
  <2> QED
    BY <2>1, <2>2
<1>5. mem'[a] = mem[a] \/ mem'[a] \in seen
  BY <1>2, <1>3, <1>4, AgentMemory
<1>6. ASSUME NEW c \in Tiles, NEW i \in DOMAIN release[c], CopyOf(t, c, i)
      PROVE  mem'[a] \in seen \/ \E j \in DOMAIN release'[c] : CopyOf(t, c, j)'
  <2>1. ASSUME NEW j \in DOMAIN release'[c], release'[c][j] = release[c][i] PROVE CopyOf(t, c, j)'
    BY <1>6, <2>1 DEF CopyOf
  <2>2. ASSUME NEW d \in Tiles, NEW n, NEW m, ReleaseAdded(d, n, m)
        PROVE  i \in DOMAIN release'[c] /\ release'[c][i] = release[c][i]
    BY <2>2 DEF ReleaseAdded
  <2>3. ASSUME NEW d \in Clients, TakeRelease(d)
        PROVE  mem'[a] \in seen \/ \E j \in DOMAIN release'[c] : release'[c][j] = release[c][i]
    <3>1. d \in Tiles /\ ReleaseTaken(d)
      BY <2>3, TakeReleaseTakes
    <3>2. CASE d # c \/ i # 1
      BY <3>1, <3>2 DEF ReleaseTaken
    <3>3. CASE d = c /\ i = 1
      <4>1. Head(release[c]) = release[c][1]
        BY <3>1, <3>3 DEF ReleaseTaken
      <4>2. TakeProbeRelease(c)
        BY <1>6, <2>3, <3>3, <4>1 DEF TakeRelease, TakeVoluntaryRelease, CopyOf, isVoluntary
      <4> QED
        BY <1>2, <1>6, <3>3, <4>2
    <3> QED
      BY <3>2, <3>3
  <2>4. ASSUME NEW d \in Tiles, (ProbeRelease(d) /\ ~ProbeDirty(d)) \/ WbRelease(d)
        PROVE  i \in DOMAIN release'[c] /\ release'[c][i] = release[c][i]
    BY <2>2, <2>4, ProbeReleaseAdds, WbReleaseAdds
  <2> QED
    BY <2>1, <2>3, <2>4, ReleaseSteps
<1> QED
  BY <1>5, <1>6

\* A tile that owes the line to the read pays with its answer.
LEMMA OwedSeen ==
    ASSUME HostContext, [Next]_vars, NEW t \in AcquireIds, HostRead(t), NEW a \in Addrs, HostAsks, htif.addr = a,
           NEW c \in Tiles, ToAnswer(t, c), Perm(c, a) = "ExclusiveDirty", ~Written(c)
    PROVE  \/ mem'[a] \in seen
           \/ \E i \in DOMAIN release'[c] : CopyOf(t, c, i)'
           \/ ToAnswer(t, c)' /\ (Perm(c, a))' = "ExclusiveDirty" /\ ~Written(c)'
<1> USE DEF HostContext, LineContext, LineInv, Context, TokenContext
<1>0. latest[a] \in seen /\ ~Idle(t)
  BY DEF HostInv, HostRead
<1>1. tracker[t].addr = a /\ probe_type(t) = "copy"
  BY HostReadFacts
<1>2. CASE VoluntaryWrite /\ EvictTr(c)
  <2>1. line[c].tag = a
    BY PermTag
  <2> QED
    BY <1>0, <1>2, <2>1, VoluntaryWriteData
<1>3. CASE ~(VoluntaryWrite /\ EvictTr(c))
  <2>1. ASSUME Answers(c), prober[c].addr = a PROVE prober[c].p_type = "copy" /\ prober[c].master_xact_id = t
    <3>1. PICK u \in AcquireIds : /\ ProbesFor(u, a) /\ prober[c].p_type = probe_type(u) /\ prober[c].master_xact_id = u
      BY <2>1, AnswerEffect
    <3>2. u = t
      BY <1>0, <1>1, <3>1, SameLine DEF ProbesFor, Idle
    <3> QED
      BY <1>1, <3>1, <3>2
  <2>2. ~Returning(c, a)'
    <3> SUFFICES ASSUME NEW i \in DOMAIN release'[c], release'[c][i].addr = a,
                        release'[c][i].r_type \in {"invalidateData", "downgradeData"}
                 PROVE  FALSE
      BY DEF Returning
    <3>1. ASSUME NEW k \in DOMAIN release[c], release'[c][i] = release[c][k] PROVE FALSE
      <4>1. release[c][k].master_xact_id = t /\ ~isVoluntary(release[c][k].r_type)
        BY <1>0, <1>1, <3>1, AnswerLine DEF isVoluntary
      <4>2. PICK d \in BOOLEAN : release[c][k].r_type = ReleaseOnProbe(probe_type(t), d)
        BY <4>1 DEF ProbeInv, AnswersSent
      <4> QED
        BY <1>1, <3>1, <4>2 DEF ReleaseOnProbe
    <3>2. release'[c][i].r_type # ReleaseOnProbe(prober[c].p_type, FALSE)
      <4>1. prober[c].p_type \in ProbeTypes
        BY TileTypes DEF ProbeUnit
      <4> QED
        BY <4>1 DEF ReleaseOnProbe, ProbeTypes
    <3>3. ASSUME WbRelease(c), release'[c][i].r_type = wb[c].r_type, release'[c][i].addr = wb[c].addr PROVE FALSE
      <4>1. wb[c].r_type = ReleaseOnProbe(prober[c].p_type, TRUE) /\ prober[c].addr = a /\ Answers(c)
        BY <3>3, WbReleaseData DEF isVoluntary
      <4> QED
        BY <2>1, <3>3, <4>1 DEF ReleaseOnProbe
    <3> QED
      BY <3>1, <3>2, <3>3, ReleaseOld
  <2>3. (Perm(c, a))' = "ExclusiveDirty" /\ ~Written(c)'
    BY <1>3, <2>2, OwedDirty DEF Owes
  <2>4. ASSUME Answers(c), prober[c].master_xact_id = t PROVE \E i \in DOMAIN release'[c] : CopyOf(t, c, i)'
    <3>1. prober[c].addr = a
      BY <1>1, <2>4, AnswerEffect DEF ProbesFor
    <3>2. WbRelease(c) /\ ~isVoluntary(wb[c].r_type)
      BY <2>4, <3>1, DirtyAnswers
    <3>3. wb[c].r_type = "copyData"
      BY <2>1, <2>4, <3>1, <3>2, WbReleaseData DEF ReleaseOnProbe
    <3> QED
      BY <2>4, <3>2, <3>3, AnswerSent
  <2> QED
    BY <2>3, <2>4, ToAnswerKept
<1> QED
  BY <1>2, <1>3

(* A read of the host that is under way keeps to the values the line has   *)
(* had since.                                                              *)
LEMMA HostReadGoesOn ==
    ASSUME HostContext, [Next]_vars, NEW t \in AcquireIds, ~Idle(t), HostRead(t)', NEW a \in Addrs,
           HostAsks, htif.addr = a, seen \subseteq seen'
    PROVE  ReadsSeen(t, a)'
<1> USE DEF HostContext, LineContext, LineInv, Context, TokenContext, TokenInv
<1>1. HostRead(t) /\ ~Idle(t)'
  <2>1. ~Idle(t)' /\ client(t)' = HTIF /\ ~Consumed(t, HTIF)'
    BY DEF HostRead
  <2>2. client(t) = HTIF
    BY <2>1, TrackerKept DEF client
  <2> QED
    BY <2>1, <2>2, ConsumedKept, ClientSets DEF HostRead
<1>2. ReadsSeen(t, a)
  BY <1>1 DEF HostInv
<1>3. /\ tracker[t].addr = a /\ tracker[t].a_type = "readUncached"
      /\ tracker[t].state \notin {"s_mem_write", "s_make_grant", "s_idle"}
  BY <1>1, HostReadFacts DEF Idle
<1>4. \A c \in Tiles : \A i \in DOMAIN release'[c] : CopyOf(t, c, i)' => release'[c][i].data \in seen'
  BY <1>1, CopiesSeen
<1>5. ASSUME tracker'[t].state \in {"s_probe", "s_mem_read"}
      PROVE  \/ mem'[a] \in seen'
             \/ \E c \in Tiles : \E i \in DOMAIN release'[c] : CopyOf(t, c, i)'
             \/ \E c \in Tiles : ToAnswer(t, c)' /\ (Perm(c, a))' = "ExclusiveDirty" /\ ~Written(c)'
  <2>1. tracker[t].state \in {"s_probe", "s_mem_read"}
    BY <1>1, <1>3, <1>5, BusyKept, TrackerFields DEF AcquireTracker
  <2>2. CASE mem[a] \in seen
    BY <1>1, <2>2, MemSeen
  <2>3. CASE \E c \in Tiles : \E i \in DOMAIN release[c] : CopyOf(t, c, i)
    BY <1>1, <2>3, MemSeen
  <2>4. CASE \E c \in Tiles : ToAnswer(t, c) /\ Perm(c, a) = "ExclusiveDirty" /\ ~Written(c)
    BY <1>1, <2>4, OwedSeen
  <2> QED
    BY <1>2, <2>1, <2>2, <2>3, <2>4 DEF ReadsSeen
<1>6. ASSUME NEW r \in outer', r.id = t PROVE r.data \in seen'
  <2>1. CASE r \in outer
    BY <1>2, <1>6, <2>1 DEF ReadsSeen
  <2>2. ASSUME NEW u \in AcquireIds, MemRead(u), r = [id |-> u, data |-> mem[tracker[u].addr]] PROVE mem[a] \in seen /\ r.data = mem[a]
    <3>1. u = t /\ tracker[t].state = "s_mem_read"
      BY <1>6, <2>2 DEF MemRead
    <3>2. \A c \in Tiles : ~ToAnswer(t, c) /\ ~Answer(t, c)
      BY <1>1, <3>1, PastProbes DEF HostRead
    <3>3. \A c \in Tiles : \A i \in DOMAIN release[c] : ~CopyOf(t, c, i)
      BY <3>2 DEF CopyOf, Answer, isVoluntary
    <3> QED
      BY <1>2, <1>3, <2>2, <3>1, <3>2, <3>3 DEF ReadsSeen
  <2> QED
    BY <2>1, <2>2, AgentMemory
<1>7. ASSUME GrantOf(t, HTIF)' PROVE Head(grant'[HTIF]).data \in seen'
  BY <1>2, <1>3, <1>7, GrantChange, ClientSets DEF ReadsSeen
<1> QED
  BY <1>4, <1>5, <1>6, <1>7 DEF ReadsSeen

(* Every step of the tiles, the agent and the host keeps it so.            *)
LEMMA HostStep == ASSUME HostContext, [Next]_vars PROVE HostInv'
<1> USE DEF HostContext, LineContext, Context, TokenContext, TokenInv
<1> SUFFICES ASSUME NEW a \in Addrs, HostAsks', htif'.addr = a
             PROVE  latest'[a] \in seen' /\ \A t \in AcquireIds : HostRead(t)' => ReadsSeen(t, a)'
  BY DEF HostInv
<1>1. latest'[a] \in seen'
  <2>1. CASE UNCHANGED vars
    BY <2>1 DEF vars, HostInv, HostAsks
  <2> QED
    BY <2>1, SeenGrows
<1>2. ASSUME NEW t \in AcquireIds, HostRead(t)' PROVE ReadsSeen(t, a)'
  <2>1. CASE HostAsks /\ ~Idle(t)
    BY <1>2, <2>1, SeenGrows, HostReadGoesOn
  <2>2. CASE HostAsks /\ Idle(t)
    <3>1. latest[a] \in seen'
      BY <2>2, SeenGrows DEF HostInv
    <3> QED
      BY <1>2, <2>2, <3>1, SeenGrows, HostReadStarts
  <2>3. CASE ~HostAsks
    <3>1. htif.state = "state_rx" /\ UNCHANGED << tracker, grant_ack >>
      BY <2>3, SeenGrows DEF l2vars
    <3>2. ~Idle(t) /\ client(t) = HTIF
      BY <1>2, <3>1 DEF HostRead, Idle, client
    <3>3. ~Consumed(t, HTIF)
      BY <1>2, <3>1, ClientSets DEF HostRead, Consumed, HeldBy, Acked
    <3>4. PICK x \in AcquireTypes, b \in Addrs : tracker[t].a_type = x /\ tracker[t].addr = b
      BY TrackerFields
    <3>5. Waiting(HTIF, x, b)
      BY <3>2, <3>3, <3>4, ClientSets DEF Asking
    <3> QED
      BY <3>1, <3>5 DEF Waiting
  <2> QED
    BY <2>1, <2>2, <2>3
<1> QED
  BY <1>1, <1>2

(* The host has not asked at first.                                        *)
LEMMA HostInit == Init => HostInv
<1> HAVE Init
<1>1. htif.state = "state_rx"
  BY DEF Init, HtifInit, IdleHtif
<1> QED
  BY <1>1 DEF HostInv, HostAsks

(* The grant brings one of the values seen.                                *)
LEMMA HostFresh == ASSUME HostContext PROVE HostReadsFresh
<1> USE DEF HostContext, LineContext, Context, TokenContext, TokenInv
<1> SUFFICES ASSUME HostAsks, grant[HTIF] # << >> PROVE Head(grant[HTIF]).data \in seen
  BY DEF HostReadsFresh, HostAsks
<1>1. requiresAckForGrant(Head(grant[HTIF]).g_type)
  BY DEF Evictions, EvictAck
<1>2. PICK t \in TrackerIds : Head(grant[HTIF]).master_xact_id = t
  BY TokenHead, ClientSets
<1>3. GrantOf(t, HTIF)
  BY <1>1, <1>2 DEF GrantOf
<1>4. BusyFor(t, HTIF) /\ ~Consumed(t, HTIF)
  BY <1>3, ClientSets DEF OnePlace
<1>5. t \in AcquireIds /\ HostRead(t)
  BY <1>4 DEF BusyFor, HostRead, Idle
<1>6. PICK a \in Addrs : htif.addr = a
  BY DEF TypeOK, HtifTypeOK
<1> QED
  BY <1>3, <1>5, <1>6 DEF HostInv, ReadsSeen

(* A read of the host, during which the tiles may go on storing, returns a *)
(* value that the line has had since the host asked for it.                *)
THEOREM HostReadsCorrect == ASSUME ~MetaStalls, SharersFit PROVE Spec => []HostReadsFresh
<1>1. Init => HostInv
  BY HostInit
<1>2. LineContext /\ HostInv /\ [Next]_vars => HostInv'
  BY HostStep DEF HostContext
<1>3. LineContext /\ HostInv => HostReadsFresh
  BY HostFresh DEF HostContext
<1> QED
  BY <1>1, <1>2, <1>3, LineContextHolds, PTL DEF Spec

-----------------------------------------------------------------------------
(* Reservations.                                                           *)

LrContext == LineContext /\ LrInv

(* A transaction whose grant an MSHR keeps to itself goes on.              *)
LEMMA HeldKept ==
    ASSUME Context, [Next]_vars, NEW t \in AcquireIds, NEW c \in Tiles, HeldBy(t, c),
           mshr[c].state \in {"s_meta_write_req", "s_drain_rpq"}
    PROVE  HeldBy(t, c)' /\ tracker'[t].addr = tracker[t].addr
<1> USE DEF Context, TokenContext, TokenInv
<1>1. ackq'[c] = ackq[c]
  <2>1. CASE UNCHANGED dcvars
    BY <2>1 DEF dcvars
  <2>2. ASSUME NEW d \in Tiles, TileStep(d) PROVE ackq'[c] = ackq[c]
    <3>1. CASE d # c
      BY <2>2, <3>1, TileFrame
    <3>2. CASE d = c
      <4>1. ~MshrWbResp(c) /\ ~MshrRefill(c) /\ ~MshrFinish(c)
        BY DEF MshrWbResp, MshrRefill, MshrFinish, can_finish
      <4>2. CASE CoreRequest(c)
        <5>1. PICK cmd, a, v : CpuHit(c, cmd, a, v) \/ PrimaryMiss(c, cmd, a, v) \/ SecondaryMiss(c, cmd, a, v)
          BY <4>2 DEF CoreRequest
        <5> QED
          BY <5>1 DEF CpuHit, PrimaryMiss, SecondaryMiss
      <4>3. CASE MshrWbReq(c) \/ MshrMetaClear(c) \/ MshrRefillReq(c) \/ MshrMetaWrite(c) \/ MshrReplay(c) \/ MshrDrained(c)
        BY <4>3 DEF MshrWbReq, MshrMetaClear, MshrRefillReq, MshrMetaWrite, MshrReplay, MshrDrained
      <4>4. CASE WbStep(c) \/ LrscExpire(c) \/ ProbeStep(c)
        BY <4>4 DEF WbStep, WbRead, WbRelease, LrscExpire, ProbeStep, ProbeAccept, ProbeLookup, ProbeRelease, ProbeWbReq,
           ProbeWbResp, ProbeMetaWrite
      <4> QED
        BY <2>2, <3>2, <4>1, <4>2, <4>3, <4>4 DEF TileStep, MshrStep
    <3> QED
      BY <3>1, <3>2
  <2> QED
    BY <2>1, <2>2 DEF Next, OfL2, OfTile, OfHtif, vars
<1>2. t \in TrackerIds /\ c \in Clients /\ c # HTIF
  BY ClientSets
<1>3. BusyFor(t, c) /\ \A d \in Clients : ~Acked(t, d)
  BY <1>2 DEF OnePlace, BusyFor
<1>4. ~Idle(t) /\ tracker[t].state = "s_busy"
  BY <1>3 DEF BusyFor, Idle
<1>5. ~Idle(t)'
  <2> USE DEF Idle
  <2>1. tracker \in [AcquireIds -> AcquireTracker]
    BY DEF TypeOK, L2TypeOK
  <2>2. ASSUME NEW d \in Clients, AcceptAcquire(d) PROVE ~Idle(t)'
    BY <1>4, <2>2, AcceptEffect
  <2>3. ASSUME NEW d \in Clients, TakeGrantAck(d) PROVE ~Idle(t)'
    <3>1. grant_ack[d] # << >> /\ grant_ack[d] \in Seq(TrackerIds)
      BY <2>3 DEF TakeGrantAck, TypeOK, ChannelsTypeOK
    <3>2. Head(grant_ack[d]) # t
      BY <1>3, <3>1 DEF Acked
    <3> QED
      BY <1>4, <2>3, <3>2 DEF TakeGrantAck
  <2>4. ASSUME NEW d \in Clients, TakeProbeRelease(d) PROVE ~Idle(t)'
    BY <1>4, <2>4, TakeProbeReleaseEffect DEF TakeProbeRelease
  <2>5. ASSUME NEW u \in AcquireIds, SendProbe(u) \/ MemWrite(u) \/ MemRead(u) \/ ForwardGrant(u) \/ MakeGrant(u) PROVE ~Idle(t)'
    BY <1>4, <2>1, <2>5 DEF SendProbe, MemWrite, MemRead, ForwardGrant, MakeGrant
  <2>6. CASE (\E d \in Clients : TakeVoluntaryRelease(d)) \/ VoluntaryStep
    BY <1>4, <2>6 DEF TakeVoluntaryRelease, VoluntaryStep, VoluntaryWrite, VoluntaryAck
  <2>7. CASE L2Step
    BY <2>2, <2>3, <2>4, <2>5, <2>6, <2>7 DEF L2Step, TakeRelease, TrackerStep
  <2>8. CASE UNCHANGED tracker
    BY <1>4, <2>8
  <2> QED
    BY <2>7, <2>8 DEF Next, OfL2, OfTile, OfHtif, l2vars, vars
<1> QED
  BY <1>1, <1>2, <1>4, <1>5, TrackerKept DEF HeldBy

(* A prober starts on a transaction only when no reservation is held.      *)
LEMMA ProbedStarts ==
    ASSUME Context, [Next]_vars, NEW t \in AcquireIds, NEW c \in Tiles, ProbedBy(t, c)', ~ProbedBy(t, c)
    PROVE  ~lrsc[c].valid
<1> USE DEF Context, TokenContext
<1>1. CASE UNCHANGED dcvars
  BY <1>1 DEF dcvars, ProbedBy, Probing
<1>2. ASSUME NEW d \in Tiles, TileStep(d) PROVE ~lrsc[c].valid
  <2>1. d = c
    <3> SUFFICES ASSUME d # c PROVE FALSE
      OBVIOUS
    <3>1. prober'[c] = prober[c] /\ wb'[c] = wb[c]
      BY <1>2, TileFrame
    <3> QED
      BY <3>1 DEF ProbedBy, Probing
  <2>2. CASE ProbeAccept(c)
    BY <2>2 DEF ProbeAccept
  <2>3. CASE WbRelease(c)
    <3>1. prober' = prober /\ wb'[c].state = "inactive"
      BY <2>3, TileTypes DEF WbRelease, IdleWb
    <3> QED
      BY <3>1 DEF ProbedBy, Probing
  <2>4. CASE ProbeRelease(c) /\ ~ProbeDirty(c)
    <3>1. prober'[c].state \in {"s_meta_write", "s_invalid"}
      BY <2>4, TileTypes DEF ProbeRelease, ProbeUnit, IdleProber
    <3> QED
      BY <3>1 DEF ProbedBy, Probing
  <2>5. CASE ~ProbeAccept(c) /\ ~WbRelease(c) /\ ~(ProbeRelease(c) /\ ~ProbeDirty(c))
    BY <1>2, <2>1, <2>5, ProberKept DEF ProbedBy
  <2> QED
    BY <2>2, <2>3, <2>4, <2>5
<1> QED
  BY <1>1, <1>2 DEF Next, OfL2, OfTile, OfHtif, vars

(* What waits for its replay in these states was there before.             *)
LEMMA ReplaysWaiting ==
    ASSUME Context, NEW c \in Tiles, TileStep(c), ~MshrRefill(c), NEW i \in DOMAIN mshr'[c].rpq, mshr'[c].rpq[i].cmd = "lr",
           mshr'[c].state \in {"s_meta_write_req", "s_drain_rpq"}
    PROVE  /\ mshr[c].state \in {"s_meta_write_req", "s_drain_rpq"} /\ mshr'[c].addr = mshr[c].addr
           /\ \E j \in DOMAIN mshr[c].rpq : mshr[c].rpq[j].cmd = "lr"
<1> USE DEF Context, TokenContext
<1>0. mshr \in [Tiles -> MSHR] /\ mshr[c] \in MSHR
  BY TileTypes
<1>1. CASE CoreRequest(c)
  <2>1. PICK cmd \in Cmds, a \in Addrs, v \in Values :
           CpuHit(c, cmd, a, v) \/ PrimaryMiss(c, cmd, a, v) \/ SecondaryMiss(c, cmd, a, v)
    BY <1>1, CoreRequestCases
  <2>2. CASE CpuHit(c, cmd, a, v)
    BY <2>2 DEF CpuHit
  <2>3. CASE PrimaryMiss(c, cmd, a, v)
    <3>1. isWrite(cmd) /\ mshr'[c].rpq = Replayed(cmd, v)
      BY <2>3, PrimaryMissEffect
    <3>2. << >> \in Seq(Replay)
      OBVIOUS
    <3>3. \A k \in DOMAIN Replayed(cmd, v) : Replayed(cmd, v)[k].cmd = cmd
      BY <3>2, ReplayedOnly
    <3> QED
      BY <3>1, <3>3 DEF isWrite
  <2>4. CASE SecondaryMiss(c, cmd, a, v)
    BY <2>4, SecondaryMissEffect
  <2> QED
    BY <2>1, <2>2, <2>3, <2>4
<1>2. CASE MshrWbReq(c) \/ MshrWbResp(c) \/ MshrRefillReq(c) \/ MshrMetaClear(c) \/ MshrDrained(c)
  <2>1. mshr'[c].state \notin {"s_meta_write_req", "s_drain_rpq"}
    BY <1>0, <1>2 DEF MSHR, MshrWbReq, MshrWbResp, MshrRefillReq, MshrMetaClear, MshrDrained, IdleMSHR
  <2> QED
    BY <2>1
<1>3. CASE MshrMetaWrite(c)
  <2>1. mshr'[c].rpq = mshr[c].rpq /\ mshr[c].state = "s_meta_write_req" /\ mshr'[c].addr = mshr[c].addr
    BY <1>0, <1>3 DEF MSHR, MshrMetaWrite
  <2> QED
    BY <2>1
<1>4. CASE MshrReplay(c)
  <2>1. /\ mshr'[c].rpq = Tail(mshr[c].rpq) /\ mshr[c].state = "s_drain_rpq" /\ mshr'[c].addr = mshr[c].addr
        /\ mshr[c].rpq # << >> /\ mshr[c].rpq \in Seq(Replay)
    BY <1>0, <1>4 DEF MSHR, MshrReplay
  <2>2. i + 1 \in DOMAIN mshr[c].rpq /\ mshr'[c].rpq[i] = mshr[c].rpq[i + 1]
    BY <2>1
  <2> QED
    BY <2>1, <2>2
<1>5. CASE WbStep(c) \/ MshrFinish(c) \/ LrscExpire(c) \/ ProbeStep(c)
  <2>1. UNCHANGED mshr
    BY <1>5 DEF WbStep, WbRead, WbRelease, MshrFinish, LrscExpire, ProbeStep, ProbeAccept, ProbeLookup, ProbeRelease,
       ProbeWbReq, ProbeWbResp, ProbeMetaWrite
  <2> QED
    BY <2>1
<1> QED
  BY <1>1, <1>2, <1>3, <1>4, <1>5 DEF TileStep, MshrStep

(* The MSHR acknowledges only after it has drained its queue, so the       *)
(* transaction that brought the line of a load-reserve lasts until the     *)
(* replay.                                                                 *)
LEMMA LrAckedStep == ASSUME Context, LrAcked, [Next]_vars PROVE LrAcked'
<1> USE DEF Context, TokenContext, TokenInv
<1> SUFFICES ASSUME NEW c \in Tiles, NEW a \in Addrs, NEW i \in DOMAIN mshr'[c].rpq, mshr'[c].rpq[i].cmd = "lr",
                    mshr'[c].state \in {"s_meta_write_req", "s_drain_rpq"}, mshr'[c].addr = a
             PROVE  \E t \in AcquireIds : HeldBy(t, c)' /\ tracker'[t].addr = a
  BY DEF LrAcked
<1>1. ASSUME mshr[c].state \in {"s_meta_write_req", "s_drain_rpq"}, mshr[c].addr = a,
             \E j \in DOMAIN mshr[c].rpq : mshr[c].rpq[j].cmd = "lr"
      PROVE  \E t \in AcquireIds : HeldBy(t, c)' /\ tracker'[t].addr = a
  <2>1. PICK t \in AcquireIds : HeldBy(t, c) /\ tracker[t].addr = a
    BY <1>1 DEF LrAcked
  <2> QED
    BY <1>1, <2>1, HeldKept
<1>2. CASE mshr'[c] = mshr[c]
  BY <1>1, <1>2
<1>3. CASE TileStep(c) /\ ~MshrRefill(c)
  BY <1>1, <1>3, ReplaysWaiting
<1>4. CASE MshrRefill(c) /\ UNCHANGED tracker
  <2>1. PICK t \in AcquireIds : GrantOf(t, c) /\ tracker[t].addr = mshr[c].addr /\ mshr'[c].addr = mshr[c].addr
    BY <1>4, RefillEffect
  <2>2. ackq[c] = << >> /\ ackq \in [Tiles -> Seq(TrackerIds)] /\ t \in TrackerIds
    BY <1>4, ClientSets DEF Lengths, MshrRefill, TypeOK, DCacheTypeOK
  <2>3. ackq' = [ackq EXCEPT ![c] = Append(@, t)]
    BY <1>4, <2>1 DEF MshrRefill, GrantOf
  <2>4. HeldBy(t, c)'
    BY <2>2, <2>3 DEF HeldBy
  <2> QED
    BY <1>4, <2>1, <2>4
<1>5. ASSUME NEW d \in Tiles, TileStep(d), d # c PROVE mshr'[c] = mshr[c]
  BY <1>5, TileFrame
<1> QED
  BY <1>2, <1>3, <1>4, <1>5 DEF Next, OfL2, OfTile, OfHtif, vars, dcvars, l2vars

\* A load-reserve is performed.
Reserves(c, a) ==
    /\ Perm(c, a) \in co.isHit["lr"] /\ Perm(c, a) = line[c].state
    /\ UNCHANGED << probe, prober, wb, tracker >>
    /\ \A d \in Tiles : mshr'[d].state = mshr[d].state
    /\ prober[c].state = "s_invalid" \/ \E t \in AcquireIds : HeldBy(t, c) /\ tracker[t].addr = a

(* Only a load-reserve makes a reservation.                                *)
LEMMA PerformReserves ==
    ASSUME TypeOK, NEW c \in Tiles, NEW cmd \in Cmds, NEW b \in Addrs, NEW v, Perform(c, cmd, b, v), NEW a \in Addrs,
           lrsc'[c].valid, lrsc'[c].addr = a, ~(lrsc[c].valid /\ lrsc[c].addr = a)
    PROVE  cmd = "lr" /\ b = a
<1>1. lrsc \in [Tiles -> Reservation]
  BY DEF TypeOK, DCacheTypeOK
<1>2. CASE cmd = "lr"
  <2>1. lrsc' = [lrsc EXCEPT ![c] = [valid |-> TRUE, addr |-> b]]
    BY <1>2 DEF Perform
  <2> QED
    BY <1>1, <1>2, <2>1
<1>3. CASE cmd = "sc"
  <2>1. lrsc' = [lrsc EXCEPT ![c] = NoReservation]
    BY <1>3 DEF Perform
  <2> QED
    BY <1>1, <2>1 DEF NoReservation
<1>4. CASE cmd # "lr" /\ cmd # "sc"
  BY <1>4 DEF Perform
<1> QED
  BY <1>2, <1>3, <1>4

(* When a reservation is made its tile is the only one to have the line.   *)
LEMMA ReservationStarts ==
    ASSUME LrContext, [Next]_vars, NEW c \in Tiles, NEW a \in Addrs, lrsc'[c].valid, lrsc'[c].addr = a,
           ~(lrsc[c].valid /\ lrsc[c].addr = a)
    PROVE  Reserves(c, a)
<1> USE DEF LrContext, LrInv, LineContext, Context, TokenContext
<1>1. PICK d \in Tiles : TileStep(d) /\ UNCHANGED l2vars
  BY DEF Next, OfL2, OfTile, OfHtif, vars, dcvars
<1>2. d = c
  BY <1>1, TileFrame
<1>3. lrsc \in [Tiles -> Reservation] /\ UNCHANGED tracker
  BY <1>1 DEF TypeOK, DCacheTypeOK, l2vars
<1>4. CASE CoreRequest(c)
  <2>1. PICK cmd \in Cmds, b \in Addrs, v \in Values : CpuHit(c, cmd, b, v)
    BY <1>4, CoreRequestCases, ZenonT(30) DEF PrimaryMiss, SecondaryMiss
  <2>2. cmd = "lr" /\ b = a
    BY <2>1, PerformReserves DEF CpuHit
  <2>3. Allowed(c, cmd, b)
    BY <2>1 DEF CpuHit, Allowed, s2_hit
  <2>4. prober[c].state = "s_invalid" /\ UNCHANGED << mshr, wb, prober, probe >>
    BY <2>1 DEF CpuHit, Nacked, channels
  <2> QED
    BY <1>3, <2>2, <2>3, <2>4, AllowedPerm DEF Reserves
<1>5. CASE MshrReplay(c)
  <2>1. /\ mshr[c].state = "s_drain_rpq" /\ mshr[c].rpq # << >> /\ mshr[c] \in MSHR /\ mshr \in [Tiles -> MSHR]
        /\ UNCHANGED << wb, prober, probe >>
    BY <1>5, TileTypes DEF MshrReplay, channels
  <2>2. 1 \in DOMAIN mshr[c].rpq /\ Head(mshr[c].rpq) = mshr[c].rpq[1] /\ mshr[c].rpq[1] \in Replay
    BY <2>1 DEF MSHR
  <2>3. PICK cmd \in Cmds, b \in Addrs : cmd = Head(mshr[c].rpq).cmd /\ b = mshr[c].addr
    BY <2>1, <2>2 DEF MSHR, Replay
  <2>4. cmd = "lr" /\ b = a
    BY <1>5, <2>3, PerformReserves DEF MshrReplay
  <2>5. Allowed(c, cmd, b)
    BY <2>1, <2>3 DEF Allowed
  <2>6. \E t \in AcquireIds : HeldBy(t, c) /\ tracker[t].addr = a
    <3>1. mshr[c].rpq[1].cmd = "lr" /\ mshr[c].addr = a
      BY <2>2, <2>3, <2>4
    <3>2. LrAcked
      OBVIOUS
    <3> QED
      BY ONLY <2>1, <2>2, <3>1, <3>2, c \in Tiles, a \in Addrs DEF LrAcked
  <2>7. \A e \in Tiles : mshr'[e].state = mshr[e].state
    BY <1>5, <2>1 DEF MshrReplay, MSHR
  <2> QED
    BY <1>3, <2>1, <2>4, <2>5, <2>6, <2>7, AllowedPerm DEF Reserves
<1>6. CASE LrscExpire(c)
  BY <1>3, <1>6 DEF LrscExpire, NoReservation
<1>7. CASE WbStep(c) \/ MshrFinish(c) \/ ProbeStep(c) \/ (MshrStep(c) /\ ~MshrReplay(c))
  <2>1. UNCHANGED lrsc
    BY <1>7 DEF WbStep, WbRead, WbRelease, MshrFinish, ProbeStep, ProbeAccept, ProbeLookup, ProbeRelease,
       ProbeWbReq, ProbeWbResp, ProbeMetaWrite, MshrStep, MshrWbReq, MshrWbResp, MshrMetaClear, MshrRefillReq, MshrRefill,
       MshrMetaWrite, MshrDrained
  <2> QED
    BY <2>1
<1> QED
  BY <1>1, <1>2, <1>4, <1>5, <1>6, <1>7 DEF TileStep

(* No other tile refills the line of a reservation.                        *)
LEMMA ReservedAlone ==
    ASSUME LrContext, NEW c \in Tiles, NEW a \in Addrs, lrsc[c].valid, lrsc[c].addr = a, NEW d \in Tiles, d # c, MshrRefill(d)
    PROVE  mshr[d].addr # a
<1> USE DEF LrContext, LrInv, LineContext, Context, TokenContext
<1> SUFFICES ASSUME mshr[d].addr = a PROVE FALSE
  OBVIOUS
<1>1. PICK t \in AcquireIds : /\ tracker[t].state = "s_busy" /\ client(t) = d /\ tracker[t].addr = a
                              /\ CachedType(tracker[t].a_type)
  BY RefillEffect
<1>2. ~Idle(t) /\ ~ToAnswer(t, c)
  BY <1>1, PastProbes DEF Idle
<1>3. probe_type(t) # "copy"
  BY <1>1, PolicyMessages DEF probe_type
<1> QED
  BY <1>1, <1>2, <1>3 DEF ReservationInv

(* A reservation falls before its tile answers a probe for the line.       *)
LEMMA ReservationStep == ASSUME LrContext, [Next]_vars PROVE ReservationInv'
<1> USE DEF LrContext, LrInv, LineContext, LineInv, Context, TokenContext, TokenInv
<1> SUFFICES ASSUME NEW c \in Tiles, NEW a \in Addrs, lrsc'[c].valid, lrsc'[c].addr = a
             PROVE  /\ \A d \in Tiles : d # c => (Perm(d, a))' = "Invalid"
                    /\ \A t \in AcquireIds : ~Idle(t)' /\ tracker'[t].addr = a =>
                          (ToAnswer(t, c)' /\ ~ProbedBy(t, c)') \/ client(t)' = c \/ probe_type(t)' = "copy"
  BY DEF ReservationInv
<1>1. CASE lrsc[c].valid /\ lrsc[c].addr = a
  <2>1. ASSUME NEW d \in Tiles, d # c PROVE (Perm(d, a))' = "Invalid"
    <3>1. Perm(d, a) = "Invalid"
      BY <1>1, <2>1 DEF ReservationInv
    <3>2. CASE ~MshrRefill(d)
      BY <3>1, <3>2, PermWeaker DEF Weaker, Exclusive
    <3>3. CASE MshrRefill(d)
      <4>1. mshr[d].addr # a
        BY <1>1, <2>1, <3>3, ReservedAlone
      <4> QED
        BY <3>3, <4>1, MachinesRefill
    <3> QED
      BY <3>2, <3>3
  <2>2. ASSUME NEW t \in AcquireIds, ~Idle(t)', tracker'[t].addr = a
        PROVE  (ToAnswer(t, c)' /\ ~ProbedBy(t, c)') \/ client(t)' = c \/ probe_type(t)' = "copy"
    <3>1. ProbedBy(t, c)' => ProbedBy(t, c)
      BY <1>1, ProbedStarts
    <3>2. CASE Idle(t)
      <4>1. tracker'[t].probe_flags = Tiles
        BY <2>2, <3>2, NewTransaction
      <4>2. ~ProbedBy(t, c)
        BY <3>2 DEF ProbeInv, ProbesSent, ProbesFor, Idle
      <4> QED
        BY <3>1, <4>1, <4>2 DEF ToAnswer, Flagged
    <3>3. CASE ~Idle(t)
      <4>1. tracker[t].addr = a /\ client(t)' = client(t) /\ probe_type(t)' = probe_type(t)
        BY <2>2, <3>3, TrackerKept DEF client, probe_type
      <4>2. CASE ToAnswer(t, c) /\ ~ProbedBy(t, c)
        <5>1. ~(Answers(c) /\ prober[c].master_xact_id = t)
          BY <4>2, AnswerEffect
        <5> QED
          BY <3>1, <4>2, <5>1, ToAnswerKept
      <4> QED
        BY <1>1, <3>3, <4>1, <4>2 DEF ReservationInv
    <3> QED
      BY <3>2, <3>3
  <2> QED
    BY <2>1, <2>2
<1>2. CASE ~(lrsc[c].valid /\ lrsc[c].addr = a)
  <2>1. Reserves(c, a)
    BY <1>2, ReservationStarts
  <2>2. Exclusive(Perm(c, a))
    <3>1. "lr" \in Cmds /\ isWriteIntent("lr")
      BY DEF Cmds, isWriteIntent
    <3>2. Known(line[c].state) /\ line[c].state \in TileStates
      BY MachineFacts, TileTypes DEF MshrOk, Line
    <3> QED
      BY <2>1, <3>1, <3>2, PolicyHits DEF Reserves
  <2>3. ASSUME NEW d \in Tiles, d # c PROVE (Perm(d, a))' = "Invalid"
    <3>1. Perm(d, a) = "Invalid"
      BY <2>2, <2>3 DEF OneWriter
    <3>2. ~MshrRefill(d)
      <4> SUFFICES ASSUME MshrRefill(d) PROVE FALSE
        OBVIOUS
      <4>1. mshr[d].state = "s_refill_resp" /\ mshr'[d].state = "s_meta_write_req"
        BY RefillEffect
      <4> QED
        BY <2>1, <4>1 DEF Reserves
    <3> QED
      BY <3>1, <3>2, PermWeaker DEF Weaker, Exclusive
  <2>4. ASSUME NEW t \in AcquireIds, ~Idle(t)', tracker'[t].addr = a
        PROVE  (ToAnswer(t, c)' /\ ~ProbedBy(t, c)') \/ client(t)' = c \/ probe_type(t)' = "copy"
    <3>1. UNCHANGED << probe, prober, wb, tracker >>
      BY <2>1 DEF Reserves
    <3>2. /\ ~Idle(t) /\ tracker[t].addr = a /\ client(t)' = client(t) /\ probe_type(t)' = probe_type(t)
          /\ ToAnswer(t, c)' <=> ToAnswer(t, c)
          /\ ProbedBy(t, c)' <=> ProbedBy(t, c)
      BY <2>4, <3>1 DEF Idle, client, probe_type, ToAnswer, Flagged, ProbeIn, ProbedBy, Probing
    <3>3. CASE prober[c].state = "s_invalid"
      <4>1. ~ProbedBy(t, c)
        BY <3>3 DEF ProbedBy, Probing
      <4>2. CASE ~ToAnswer(t, c) /\ client(t) # c
        <5>1. Compatible(probe_type(t), Perm(c, a))
          BY <3>2, <4>2 DEF AnswersKept
        <5>2. probe_type(t) \in ProbeTypes
          BY TrackerFields, PolicyType DEF probe_type
        <5> QED
          BY <2>2, <3>2, <5>1, <5>2 DEF Compatible, Exclusive, ProbeTypes
      <4> QED
        BY <3>2, <4>1, <4>2
    <3>4. ASSUME NEW u \in AcquireIds, HeldBy(u, c), tracker[u].addr = a PROVE client(t) = c
      <4>1. BusyFor(u, c)
        BY <3>4, ClientSets DEF OnePlace
      <4>2. t = u
        BY <3>2, <3>4, <4>1, SameLine DEF BusyFor, Idle
      <4> QED
        BY <4>1, <4>2 DEF BusyFor
    <3> QED
      BY <2>1, <3>2, <3>3, <3>4 DEF Reserves
  <2> QED
    BY <2>3, <2>4
<1> QED
  BY <1>1, <1>2

(* There are no reservations at first.                                     *)
LEMMA LrInit == Init => LrInv
<1> HAVE Init
<1>1. \A c \in Tiles : ~lrsc[c].valid /\ mshr[c].state = "s_invalid"
  BY DEF Init, DCacheInit, IdleMSHR, NoReservation
<1> QED
  BY <1>1 DEF LrInv, ReservationInv, LrAcked

(* Both parts are inductive, on top of the other layers.                   *)
LEMMA LrStep == ASSUME LrContext, [Next]_vars PROVE LrInv'
BY ReservationStep, LrAckedStep DEF LrContext, LrInv, LineContext

(* The host's write comes after the answers of all tiles.                  *)
LEMMA HostWritesUnreserved ==
    ASSUME LrContext, NEW t \in AcquireIds, tracker[t].state = "s_mem_write", NEW c \in Tiles, NEW a \in Addrs,
           tracker[t].addr = a, lrsc[c].valid
    PROVE  lrsc[c].addr # a
<1> USE DEF LrContext, LrInv, LineContext, Context, TokenContext, TokenInv
<1> SUFFICES ASSUME lrsc[c].addr = a PROVE FALSE
  OBVIOUS
<1>1. ~Idle(t) /\ tracker[t].a_type = "writeUncached" /\ t \in TrackerIds /\ "writeUncached" \in AcquireTypes
  BY ClientSets DEF Idle, ProbeInv, Stages, AcquireTypes
<1>2. ~ToAnswer(t, c)
  BY <1>1, PastProbes
<1>3. probe_type(t) # "copy"
  BY <1>1, PolicyMessages DEF probe_type, UncachedProbe, messageIsUncached
<1>4. client(t) # c
  <2> SUFFICES ASSUME client(t) = c PROVE FALSE
    OBVIOUS
  <2>1. c \in Clients /\ c # HTIF
    BY ClientSets
  <2>2. ~Consumed(t, c)
    BY <1>1, <2>1 DEF Consumed, OnePlace, BusyFor
  <2>3. Waiting(c, "writeUncached", a)
    BY <1>1, <2>1, <2>2 DEF Asking
  <2>4. CachedType("writeUncached")
    BY <2>1, <2>3 DEF Waiting, Asking
  <2> QED
    BY <2>4, PolicyMessages DEF messageIsUncached
<1> QED
  BY <1>1, <1>2, <1>3, <1>4 DEF ReservationInv

(* A value that changes under a reservation is changed by its tile.        *)
LEMMA ReservationHeld ==
    ASSUME LrContext, [Next]_vars, NEW c \in Tiles, lrsc[c].valid, latest'[lrsc[c].addr] # latest[lrsc[c].addr]
    PROVE  line'[c].data # line[c].data
<1> USE DEF LrContext, LrInv, LineContext, LineInv, Context
<1>1. PICK a \in Addrs : lrsc[c].addr = a
  BY DEF TokenContext, TypeOK, DCacheTypeOK, Reservation
<1>2. ASSUME NEW d \in Tiles, NEW b \in Addrs, Writes(d, b) PROVE line'[c].data # line[c].data
  <2>1. b = a
    BY <1>1, <1>2 DEF Writes
  <2>2. d = c
    BY <1>1, <1>2, <2>1 DEF Writes, ReservationInv
  <2>3. line'[c].data = latest'[a] /\ line[c].data = latest[a]
    BY <1>2, <2>1, <2>2 DEF Writes, CopiesLatest
  <2> QED
    BY <1>1, <2>3
<1>3. ASSUME NEW t \in AcquireIds, MemWrite(t) PROVE FALSE
  <2>1. PICK b \in Addrs : /\ tracker[t].addr = b /\ tracker[t].state = "s_mem_write"
                           /\ \A e \in Addrs : e # b => latest'[e] = latest[e]
    BY <1>3, MemWriteEffect
  <2> QED
    BY <1>1, <2>1, HostWritesUnreserved
<1> QED
  BY <1>1, <1>2, <1>3, ValueChange

(* While a tile has a reservation nobody else writes the line: no other    *)
(* tile's store, and no write of the host. It ends before the tile gives   *)
(* the line up.                                                            *)
THEOREM ReservationsKept == ASSUME ~MetaStalls, SharersFit PROVE Spec => ReservationRespected
<1>1. Init => LrInv
  BY LrInit
<1>2. LineContext /\ LrInv /\ [Next]_vars => LrInv'
  BY LrStep DEF LrContext
<1>3. LineContext /\ LrInv /\ [Next]_vars =>
        [\A c \in Tiles : lrsc[c].valid /\ latest'[lrsc[c].addr] # latest[lrsc[c].addr] => line'[c].data # line[c].data]_vars
  BY ReservationHeld DEF LrContext
<1> QED
  BY <1>1, <1>2, <1>3, LineContextHolds, PTL DEF Spec, ReservationRespected
=============================================================================
