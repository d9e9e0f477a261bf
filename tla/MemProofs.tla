----------------------------- MODULE MemProofs ------------------------------
(***************************************************************************)
(* The slots of the load buffer, for queues and buffers of every size.     *)
(***************************************************************************)
EXTENDS MemPipeline, IntegerLemmas, FiniteSetTheorems

-----------------------------------------------------------------------------
(* The invariant.                                                          *)

\* Where a load is on its way.
InM1(t)    == m1_req.tag = t
InM2(t)    == m2_req.sent /\ m2_req.tag = t
InCache(t) == replays[t] # NoData

Slots ==
    \A t \in SlotIdx :
        /\ inflight_load_buffer[t].valid <=> InM1(t) \/ InM2(t) \/ InCache(t)
        /\ ~(InM1(t) /\ InM2(t)) /\ ~(InM1(t) /\ InCache(t)) /\ ~(InM2(t) /\ InCache(t))

\* A uop whose access touches memory.
Touches(uop) == "acc" \in DOMAIN uop /\ uop.acc.bytes # {}

\* A request with a slot is a load that the cache has been given, and touches memory.
Requests ==
    /\ m1_req.tag # None => /\ m1_req.op = "load" /\ m1_req.valid /\ m1_req.ready
                            /\ Touches(m1_req.uop)
    /\ m2_req.tag # None => m2_req.op = "load" /\ Touches(m2_req.uop)
    /\ m2_req.sent => m2_req.taken

\* An address in the load queue is one a load has computed.
AddrOk(e) == "addr" \in DOMAIN e /\ (e.addr = NoAcc \/ e.addr.bytes # {})

Addresses == laq_head \in LdIdx /\ \A i \in LdIdx : AddrOk(laq[i])

PortInv == Slots /\ Requests /\ Addresses /\ mem_stage.kill \in BOOLEAN

-----------------------------------------------------------------------------
LEMMA Sizes ==
    /\ MAX_LD_COUNT \in Nat \ {0} /\ num_ld_entries \in Nat \ {0} /\ num_st_entries \in Nat \ {0}
    /\ num_rob_rows \in Nat \ {0}
    /\ SlotIdx \subseteq Nat /\ None \notin SlotIdx /\ 0 \in LdIdx
BY MemAssumption DEF SlotIdx, LdIdx, None

LEMMA Wraps ==
    ASSUME NEW n \in Nat \ {0}, NEW i \in 0 .. n - 1
    PROVE  WrapInc(i, n) \in 0 .. n - 1
<1>1. i + 1 \in Int
  OBVIOUS
<1> QED
  BY <1>1, DivMod, Zenon DEF WrapInc

LEMMA ExeLoad ==
    ASSUME NEW br, NEW ex \in ExeChoices(br)
    PROVE  ex.part = "load" => ex.acc.bytes # {}
<1>1. CASE ex = NoExe
  BY <1>1 DEF NoExe
<1>2. CASE ex # NoExe
  <2> DEFINE A(x) == CASE x[2] = "load" -> LdAcc [] x[2] = "sta" -> StAcc [] x[2] = "std" -> {NoAcc}
             V(x) == IF x[2] = "std" THEN DataOf(rob[x[1]].stq_idx) ELSE {None}
             M(x) == IF x[2] \in Misaligned THEN BOOLEAN ELSE {FALSE}
             S(x) == {[part |-> x[2], row |-> x[1], ldq_idx |-> rob[x[1]].ldq_idx, stq_idx |-> rob[x[1]].stq_idx,
                       br_mask |-> GetNewBrMask(br, rob[x[1]].br_mask), acc |-> a, v |-> v, ma |-> m] :
                         a \in A(x), v \in V(x), m \in M(x)}
  <2>1. ExeChoices(br) = {NoExe} \cup UNION {S(x) : x \in Executable(br)}
    BY DEF ExeChoices
  <2> HIDE DEF S
  <2>2. PICK x \in Executable(br) : ex \in S(x)
    BY <1>2, <2>1
  <2> HIDE DEF A, V, M
  <2>3. PICK a \in A(x), v \in V(x), m \in M(x) :
          ex = [part |-> x[2], row |-> x[1], ldq_idx |-> rob[x[1]].ldq_idx, stq_idx |-> rob[x[1]].stq_idx,
                br_mask |-> GetNewBrMask(br, rob[x[1]].br_mask), acc |-> a, v |-> v, ma |-> m]
    BY <2>2 DEF S
  <2>4. ex.part = x[2] /\ ex.acc = a
    BY <2>3
  <2>5. x[2] = "load" => a \in LdAcc
    BY DEF A
  <2> QED
    BY <2>4, <2>5, MemAssumption
<1> QED
  BY <1>1, <1>2

(* A squash does not change what a uop accesses.                           *)
LEMMA SquashKeeps ==
    ASSUME NEW uop, NEW f, NEW br, Touches(uop)
    PROVE  Touches(Squash(uop, f, br))
BY DEF Touches, Squash

(* A load that is to access memory goes into a free slot.                  *)
LEMMA Request ==
    ASSUME Addresses, NEW br, NEW ex \in ExeChoices(br), NEW ready \in BOOLEAN, NEW thrown \in BOOLEAN,
           NEW f
    PROVE  LET rq == MemReq(ex, ready, thrown)
               m  == [rq EXCEPT !.uop = Squash(@, f /\ rq.op = "load", br)]
           IN  /\ m.tag = rq.tag
               /\ rq.tag # None => /\ rq.tag \in FreeSlots /\ m.op = "load" /\ m.valid /\ m.ready
                                   /\ Touches(m.uop)
<1>1. ASSUME NEW rq, NEW u, NEW tag, NEW valid, NEW v, NEW op,
             rq = [op |-> op, valid |-> valid, ready |-> ready, uop |-> u, v |-> v, tag |-> tag]
      PROVE  LET m == [rq EXCEPT !.uop = Squash(@, f /\ rq.op = "load", br)]
             IN  /\ rq.tag = tag /\ m.tag = tag /\ m.op = op /\ m.valid = valid /\ m.ready = ready
                 /\ m.uop = Squash(u, f /\ op = "load", br)
  BY <1>1
<1>2. CASE FireLoad(ex)
  <2> DEFINE tag == IF ~thrown /\ EnqRdy(ready) THEN EnqIdx ELSE None
             rq == MemReq(ex, ready, thrown)
             m == [rq EXCEPT !.uop = Squash(@, f /\ rq.op = "load", br)]
  <2>1. rq = [op |-> "load", valid |-> ~thrown, ready |-> ready, uop |-> LUop(ex), v |-> None, tag |-> tag]
    BY <1>2 DEF MemReq
  <2>2. /\ rq.tag = tag /\ m.tag = tag /\ m.op = "load" /\ m.valid = ~thrown /\ m.ready = ready
        /\ m.uop = Squash(LUop(ex), f /\ "load" = "load", br)
    BY <1>1, <2>1
  <2>3. Touches(LUop(ex))
    <3>1. CASE FireLoadFast(ex)
      BY <3>1, ExeLoad DEF LUop, Touches, FireLoadFast
    <3>2. CASE ~FireLoadFast(ex)
      <4>1. laq[laq_head].addr.bytes # {}
        BY <1>2, <3>2 DEF FireLoad, FireLoadSleeper, Addresses, AddrOk
      <4> QED
        BY <3>2, <4>1 DEF LUop, Touches
    <3> QED
      BY <3>1, <3>2
  <2>4. Touches(m.uop)
    BY <2>2, <2>3, SquashKeeps
  <2>5. tag # None => ready /\ ~thrown /\ tag \in FreeSlots
    <3>1. FreeSlots \in SUBSET Nat
      BY Sizes DEF FreeSlots
    <3> QED
      BY <3>1, MinMember DEF EnqRdy, EnqIdx
  <2> HIDE DEF tag, rq, m
  <2>6. m.tag = rq.tag /\ (rq.tag # None => rq.tag \in FreeSlots /\ m.op = "load" /\ m.valid /\ m.ready /\ Touches(m.uop))
    BY <2>2, <2>4, <2>5
  <2> QED
    BY <2>6 DEF m, rq
<1>3. CASE ~FireLoad(ex) /\ FireStore
  <2> DEFINE u == [NoUop EXCEPT !.idx = stq_head, !.acc = stq[stq_head].addr]
  <2>1. MemReq(ex, ready, thrown) = [op |-> "store", valid |-> TRUE, ready |-> ready, uop |-> u,
                                     v |-> stq[stq_head].data, tag |-> None]
    BY <1>3 DEF MemReq
  <2> HIDE DEF u
  <2> QED
    BY <1>1, <2>1
<1>4. CASE ~FireLoad(ex) /\ ~FireStore
  <2>1. MemReq(ex, ready, thrown) = NoReq
    BY <1>4 DEF MemReq
  <2> QED
    BY <2>1 DEF NoReq
<1> QED
  BY <1>2, <1>3, <1>4

-----------------------------------------------------------------------------
(* The steps.                                                              *)

LEMMA AddressesStep ==
    ASSUME Addresses, NEW br, NEW ex \in ExeChoices(br), NEW enq, NEW com, NEW reset, NEW ready, NEW failures,
           NEW s2, NEW ordered, LsuNext(enq, ex, br, com, reset, ready, failures, s2, ordered)
    PROVE  Addresses'
<1>1. laq_head' \in LdIdx
  BY Sizes, Wraps DEF LsuNext, Addresses, LdIdx
<1>2. ASSUME NEW i \in LdIdx PROVE AddrOk(laq'[i])
  <2> DEFINE forwarded == IF ForwardingVal(ex) /\ DmemReqReady(ready) THEN ForwardedFrom(ex) ELSE None
             cleared  == [laq[i] EXCEPT !.st_dep_mask = @ \ (IF ClearStore(ordered) THEN {stq_head} ELSE {})]
             enqueued == IF enq.op = "load" /\ i = laq_tail THEN Enqueue(enq, ordered) ELSE cleared
             executed == IF FireLoadFast(ex) /\ i = ex.ldq_idx THEN [enqueued EXCEPT !.addr = ex.acc] ELSE enqueued
             fired    == IF FireLoad(ex) /\ i = LdIss(ex)
                         THEN [executed EXCEPT !.executed = TRUE, !.failure = FALSE,
                                 !.forwarded_stq_idx = IF forwarded # None THEN forwarded ELSE @]
                         ELSE executed
             failed   == IF i \in failures
                         THEN [fired EXCEPT !.executed = FALSE, !.failure = TRUE] ELSE fired
             resolved == IF ~laq[i].allocated THEN failed
                         ELSE IF IsKilledByBranch(br, laq[i].br_mask) THEN FreeLaq
                         ELSE [failed EXCEPT !.br_mask = GetNewBrMask(br, @)]
             retired  == IF com = "load" /\ i = laq_head THEN FreeLaq ELSE resolved
             nacked   == IF ClrLd(br, s2) /\ m2_req.uop.idx = i THEN [retired EXCEPT !.executed = FALSE] ELSE retired
             next     == IF reset THEN [FreeLaq EXCEPT !.br_mask = nacked.br_mask]
                         ELSE IF nacked.allocated THEN nacked
                         ELSE [FreeLaq EXCEPT !.addr = nacked.addr, !.br_mask = nacked.br_mask]
  <2>1. laq'[i] = next
    BY <1>2, Zenon DEF LsuNext, LaqNext
  <2>2. AddrOk(laq[i]) /\ AddrOk(FreeLaq)
    BY <1>2 DEF Addresses, AddrOk, FreeLaq
  <2>3. AddrOk(cleared)
    BY <2>2 DEF AddrOk
  <2> HIDE DEF cleared
  <2>4. AddrOk(enqueued)
    <3>1. CASE enq.op = "load" /\ i = laq_tail
      BY <3>1, <2>2 DEF AddrOk, Enqueue, FreeLaq
    <3> QED
      BY <3>1, <2>3
  <2> HIDE DEF enqueued
  <2>5. AddrOk(executed)
    BY <2>4, ExeLoad DEF AddrOk, FireLoadFast
  <2> HIDE DEF executed
  <2>6. AddrOk(fired)
    BY <2>5 DEF AddrOk
  <2> HIDE DEF fired
  <2>7. AddrOk(failed)
    BY <2>6 DEF AddrOk
  <2> HIDE DEF failed
  <2>8. AddrOk(resolved)
    BY <2>2, <2>7 DEF AddrOk
  <2> HIDE DEF resolved
  <2>9. AddrOk(retired)
    BY <2>2, <2>8
  <2> HIDE DEF retired
  <2>10. AddrOk(nacked)
    BY <2>9 DEF AddrOk
  <2> HIDE DEF nacked
  <2>11. AddrOk(next)
    <3>1. AddrOk([FreeLaq EXCEPT !.br_mask = nacked.br_mask])
      BY DEF AddrOk, FreeLaq
    <3>2. AddrOk([FreeLaq EXCEPT !.addr = nacked.addr, !.br_mask = nacked.br_mask])
      BY <2>10 DEF AddrOk, FreeLaq
    <3> QED
      BY <2>10, <3>1, <3>2
  <2> HIDE DEF next
  <2> QED
    BY <2>1, <2>11
<1> QED
  BY <1>1, <1>2 DEF Addresses

LEMMA PortStep ==
    ASSUME PortInv, NEW br, NEW ex \in ExeChoices(br), NEW ready \in BOOLEAN, NEW thrown \in BOOLEAN,
           NEW kill \in BOOLEAN, NEW flushed \in BOOLEAN, NEW s2 \in S2Choices, NEW replay \in ReplayChoices,
           PortNext(MemReq(ex, ready, thrown), kill, flushed, br, s2, replay)
    PROVE  Slots' /\ Requests'
<1> DEFINE rq == MemReq(ex, ready, thrown)
<1>1. /\ m1_req'.tag = rq.tag
      /\ rq.tag # None => /\ rq.tag \in FreeSlots /\ m1_req'.op = "load" /\ m1_req'.valid /\ m1_req'.ready
                          /\ Touches(m1_req'.uop)
  BY Request DEF PortNext, PortInv
<1> HIDE DEF rq
<1>2. /\ m2_req'.op = m1_req.op /\ m2_req'.tag = m1_req.tag
      /\ m2_req'.uop = Squash(m1_req.uop, flushed /\ m1_req.op = "load", br)
      /\ m2_req'.taken = (m1_req.valid /\ m1_req.ready)
      /\ m2_req'.sent = (m1_req.valid /\ m1_req.ready /\ ~kill /\ ~IflbKill)
  BY DEF PortNext
<1>3. Requests'
  <2>1. m1_req.tag # None => Touches(m2_req'.uop)
    BY <1>2, SquashKeeps DEF PortInv, Requests
  <2> QED
    BY <1>1, <1>2, <2>1 DEF PortInv, Requests
<1>4. ASSUME NEW t \in SlotIdx
      PROVE  /\ inflight_load_buffer'[t].valid <=> (InM1(t) \/ InM2(t) \/ InCache(t))'
             /\ ~(InM1(t) /\ InM2(t))' /\ ~(InM1(t) /\ InCache(t))' /\ ~(InM2(t) /\ InCache(t))'
  <2>1. t # None
    BY Sizes
  <2>2. InM1(t)' <=> rq.tag = t
    BY <1>1 DEF InM1
  <2>3. rq.tag = t => ~inflight_load_buffer[t].valid
    BY <1>1, <2>1 DEF FreeSlots
  <2>4. InM2(t)' <=> InM1(t) /\ ~kill
    BY <1>2, <2>1 DEF InM1, InM2, IflbKill, PortInv, Requests
  <2>5. /\ replay = t => InCache(t) /\ ~m2_req.sent
        /\ s2 \in {"nack", "hit", "miss"} /\ (s2 = "miss" => m2_req.sent /\ m2_req.op = "load")
        /\ m2_req.sent => replay = None
    BY <2>1 DEF ReplayChoices, Owed, InCache, S2Choices, PortInv, Requests
  <2>6. InCache(t)' <=> \/ InCache(t) /\ replay # t
                        \/ InM2(t) /\ s2 = "miss"
    <3>1. replays'[t] = IF t = replay THEN NoData
                        ELSE IF Accepted(s2) /\ s2 = "miss" /\ m2_req.tag = t
                             THEN Read(mem, m2_req.uop.acc) ELSE replays[t]
      BY DEF PortNext
    <3>2. m2_req.tag = t => Read(mem, m2_req.uop.acc) # NoData
      <4>1. m2_req.tag = t => m2_req.uop.acc.bytes # {}
        BY <2>1 DEF PortInv, Requests, Touches
      <4>2. DOMAIN Read(mem, m2_req.uop.acc) = m2_req.uop.acc.bytes /\ DOMAIN NoData = {}
        BY DEF Read, NoData
      <4> QED
        BY <4>1, <4>2
    <3> QED
      BY <2>5, <3>1, <3>2, <2>1 DEF InCache, InM2, Accepted, PortInv, Slots
  <2>7. ClearSlot(t, s2, replay, kill) <=> \/ replay = t
                                           \/ InM2(t) /\ s2 \in {"hit", "nack"}
                                           \/ kill /\ InM1(t)
    BY <2>1, <2>5 DEF ClearSlot, LoadAckTag, CacheNack, Accepted, InM1, InM2, PortInv, Requests
  <2>8. inflight_load_buffer'[t] = LoadReqSlotNext(t, rq, flushed, br, s2, replay, kill)
    BY DEF PortNext, rq
  <2>9. inflight_load_buffer'[t].valid <=>
           IF inflight_load_buffer[t].valid THEN ~ClearSlot(t, s2, replay, kill) ELSE rq.tag = t
    BY <2>3, <2>8 DEF LoadReqSlotNext, FreeSlot, Slot
  <2> QED
    BY <2>2, <2>3, <2>4, <2>5, <2>6, <2>7, <2>9 DEF PortInv, Slots
<1> QED
  BY <1>3, <1>4 DEF Slots

-----------------------------------------------------------------------------
LEMMA PortStart == Init => PortInv
<1> SUFFICES ASSUME Init PROVE PortInv
  OBVIOUS
<1>1. Slots
  BY Sizes DEF Init, PortInit, Slots, InM1, InM2, InCache, NoReq, NoM2, FreeSlot
<1>2. Requests
  BY DEF Init, PortInit, Requests, NoReq, NoM2
<1>3. Addresses
  BY Sizes DEF Init, LsuInit, Addresses, AddrOk, FreeLaq
<1>4. mem_stage.kill \in BOOLEAN
  BY DEF Init, LsuInit
<1> QED
  BY <1>1, <1>2, <1>3, <1>4 DEF PortInv

LEMMA PortKept == PortInv /\ [Next]_vars => PortInv'
<1> SUFFICES ASSUME PortInv, [Next]_vars PROVE PortInv'
  OBVIOUS
<1>1. CASE Next
  <2>1. PICK br \in BrChoices, s2 \in S2Choices, replay \in ReplayChoices, ordered \in OrderedChoices :
          \E ex \in ExeChoices(br), dis \in DisChoices(br) :
            \E ready \in ReadyChoices(ex) : Clock(dis, ex, br, ready, s2, replay, ordered)
    BY <1>1 DEF Next
  <2>2. PICK ex \in ExeChoices(br), dis \in DisChoices(br) :
          \E ready \in ReadyChoices(ex) : Clock(dis, ex, br, ready, s2, replay, ordered)
    BY <2>1
  <2>3. PICK ready \in ReadyChoices(ex) : Clock(dis, ex, br, ready, s2, replay, ordered)
    BY <2>2
  <2>4. /\ LsuNext(Enq(dis, br), ex, br, Com, LsuReset, ready, FailedLoads(ex, ready), s2, ordered)
        /\ PortNext(MemReq(ex, ready, Thrown), mem_stage.kill, flush # "none", br, s2, replay)
    BY <2>3 DEF Clock
  <2>5. Addresses'
    BY <2>4, AddressesStep DEF PortInv
  <2>6. Slots' /\ Requests'
    <3>1. ready \in BOOLEAN /\ Thrown \in BOOLEAN /\ (flush # "none") \in BOOLEAN /\ mem_stage.kill \in BOOLEAN
      BY DEF ReadyChoices, Thrown, PortInv
    <3> DEFINE Stepped(rdy, thrown, kill, flushed) ==
                 PortNext(MemReq(ex, rdy, thrown), kill, flushed, br, s2, replay)
    <3>2. ASSUME NEW rdy \in BOOLEAN, NEW thrown \in BOOLEAN, NEW kill \in BOOLEAN, NEW flushed \in BOOLEAN,
                 Stepped(rdy, thrown, kill, flushed)
          PROVE  Slots' /\ Requests'
      BY <3>2, PortStep
    <3>3. Stepped(ready, Thrown, mem_stage.kill, flush # "none")
      BY <2>4
    <3> HIDE DEF Stepped
    <3> QED
      BY <3>1, <3>2, <3>3
  <2>7. mem_stage'.kill \in BOOLEAN
    BY <2>4 DEF LsuNext
  <2> QED
    BY <2>5, <2>6, <2>7 DEF PortInv
<1>2. CASE UNCHANGED vars
  BY <1>2 DEF vars, lsuVars, portVars, PortInv, Slots, Requests, Addresses, InM1, InM2, InCache
<1> QED
  BY <1>1, <1>2

(***************************************************************************)
(* A slot of the load buffer is taken exactly while one load is on its     *)
(* way, for buffers, queues and memories of every size (lsu.scala's        *)
(* inflight_load_buffer and the tags it gives the cache): no kill, nack,   *)
(* miss or squash leaks a slot, and none is given away while an answer can *)
(* still come for it.                                                      *)
(***************************************************************************)
THEOREM SlotsKept == Spec => []OneOwnerPerSlot
<1>1. PortInv => OneOwnerPerSlot
  <2> SUFFICES ASSUME PortInv, NEW t \in SlotIdx
               PROVE  LET owners == {o \in {"m1", "m2", "replay"} :
                                       CASE o = "m1" -> m1_req.tag = t
                                         [] o = "m2" -> m2_req.sent /\ m2_req.tag = t
                                         [] o = "replay" -> replays[t] # NoData}
                      IN  inflight_load_buffer[t].valid <=> Cardinality(owners) = 1
    BY DEF OneOwnerPerSlot
  <2> DEFINE owners == {o \in {"m1", "m2", "replay"} :
                          CASE o = "m1" -> m1_req.tag = t
                            [] o = "m2" -> m2_req.sent /\ m2_req.tag = t
                            [] o = "replay" -> replays[t] # NoData}
  <2>1. /\ "m1" \in owners <=> InM1(t)
        /\ "m2" \in owners <=> InM2(t)
        /\ "replay" \in owners <=> InCache(t)
        /\ owners \subseteq {"m1", "m2", "replay"}
    BY DEF InM1, InM2, InCache
  <2> HIDE DEF owners
  <2>2. ASSUME inflight_load_buffer[t].valid PROVE Cardinality(owners) = 1
    <3>1. owners = {"m1"} \/ owners = {"m2"} \/ owners = {"replay"}
      BY <2>1, <2>2 DEF PortInv, Slots
    <3>2. Cardinality(owners) = 1
      BY <3>1, FS_Singleton
    <3> QED
      BY <2>2, <3>2
  <2>3. ASSUME ~inflight_load_buffer[t].valid PROVE Cardinality(owners) # 1
    <3>1. owners = {}
      BY <2>1, <2>3 DEF PortInv, Slots
    <3>2. Cardinality(owners) = 0
      BY <3>1, FS_EmptySet
    <3> QED
      BY <2>3, <3>2
  <2>4. inflight_load_buffer[t].valid <=> Cardinality(owners) = 1
    BY <2>2, <2>3
  <2> QED
    BY <2>4 DEF owners
<1> QED
  BY <1>1, PortStart, PortKept, PTL DEF Spec
=============================================================================
