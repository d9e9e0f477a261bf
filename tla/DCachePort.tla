----------------------------- MODULE DCachePort -----------------------------
(***************************************************************************)
(* The load buffer between the BOOM load/store unit and the non-blocking   *)
(* data cache (dcachewrapper.scala: LoadReqSlot, DCacheWrapper).  The      *)
(* cache itself is external here (DCacheClient models its coherence side): *)
(* a request made in one cycle may be killed in the next and is nacked or  *)
(* accepted in the one after.  An accepted store is done; an accepted load *)
(* reads memory at that point and answers at once (a hit) or in any later  *)
(* cycle whose pipeline slot was not given to the core (a replay goes      *)
(* first, and a request that was taken keeps its slot even if killed).     *)
(*                                                                         *)
(* One step is one clock edge.  Operators that take rq, flush, br read the *)
(* wires of the current cycle; the primed variables are the registers      *)
(* after the edge.                                                         *)
(***************************************************************************)
EXTENDS Integers, FiniteSets, FiniteSetsExt

CONSTANTS
    MAX_LD_COUNT,   \* slots of the load buffer
    MAX_BR_COUNT,   \* branch tags
    num_ld_entries, num_st_entries, num_rob_rows,
    MaxReplays,     \* bound: accepted loads the cache may owe an answer at a time
    Bytes,          \* the bytes of memory
    Val             \* what a byte may hold

VARIABLES
    inflight_load_buffer,   \* the slots
    m1_req,                 \* the request of one cycle ago
    m2_req,                 \* the request of two cycles ago
    replays,                \* cache: the value an accepted, unanswered load has read
    mem                     \* cache and memory behind it, in acceptance order

portVars == <<inflight_load_buffer, m1_req, m2_req, replays, mem>>

SlotIdx == 0 .. MAX_LD_COUNT - 1
Rows    == 0 .. num_rob_rows - 1
LdIdx   == 0 .. num_ld_entries - 1
StIdx   == 0 .. num_st_entries - 1
Tags    == 0 .. MAX_BR_COUNT - 1
None    == -1

\* What an access touches, and the mem_typ it uses.
Typs  == {"D", "W", "WU", "none"}
Acc   == [bytes : SUBSET Bytes, typ : Typs]
NoAcc == [bytes |-> {}, typ |-> "none"]

\* The value of some bytes, and what a store of value v leaves in memory.
Data == UNION {[S -> Val] : S \in SUBSET Bytes}
NoData == << >>
Read(m, acc) == [b \in acc.bytes |-> m[b]]
Write(m, acc, v) == [b \in Bytes |-> IF b \in acc.bytes THEN v ELSE m[b]]

\* What a branch resolution br (BrResolutionInfo) does to a uop and its branch mask.
IsKilledByBranch(br, mask) == br.valid /\ br.mispredict /\ br.tag \in mask
GetNewBrMask(br, mask) == IF br.valid THEN mask \ {br.tag} ELSE mask

(***************************************************************************)
(* A request.  idx is its queue entry, row and br_mask come with the uop;  *)
(* v is a store's data.  dead is a history variable: the uop has been      *)
(* squashed since.                                                         *)
(***************************************************************************)
Uop   == [row : Rows, idx : 0 .. Max({num_ld_entries, num_st_entries}) - 1, br_mask : SUBSET Tags,
          acc : Acc, dead : BOOLEAN]
NoUop == [row |-> 0, idx |-> 0, br_mask |-> {}, acc |-> NoAcc, dead |-> FALSE]
Ops   == {"none", "load", "store"}
NoReq == [op |-> "none", valid |-> FALSE, ready |-> FALSE, tag |-> None, uop |-> NoUop, v |-> None]
M1Req == [op : Ops, valid : BOOLEAN, ready : BOOLEAN, tag : SlotIdx \cup {None}, uop : Uop, v : Val \cup {None}]
NoM2  == [op |-> "none", taken |-> FALSE, sent |-> FALSE, nack |-> FALSE, tag |-> None, uop |-> NoUop, v |-> None]
M2Req == [op : Ops, taken : BOOLEAN, sent : BOOLEAN, nack : BOOLEAN, tag : SlotIdx \cup {None}, uop : Uop, v : Val \cup {None}]
FreeSlot == [valid |-> FALSE, was_killed |-> FALSE, uop |-> NoUop]

PortInit(m) ==
    /\ inflight_load_buffer = [t \in SlotIdx |-> FreeSlot]
    /\ m1_req = NoReq
    /\ m2_req = NoM2
    /\ replays = [t \in SlotIdx |-> NoData]
    /\ mem = m

-----------------------------------------------------------------------------
\* Entering the buffer: the lowest free slot, when the cache is ready too.
FreeSlots == {t \in SlotIdx : ~inflight_load_buffer[t].valid}
EnqRdy(ready) == ready /\ FreeSlots # {}
EnqIdx == Min(FreeSlots)

\* req.ready as the load/store unit sees it.
DmemReqReady(ready) == EnqRdy(ready)

\* A load that found no slot, or no ready cache, is killed and nacked.
IflbKill == m1_req.valid /\ m1_req.op = "load" /\ m1_req.tag = None

(***************************************************************************)
(* The cache's answer to the request of two cycles ago: s2 is "nack",      *)
(* "hit" or "miss".  replay is the slot of a load answered late, or None.  *)
(***************************************************************************)
CacheNack(s2) == m2_req.sent /\ s2 = "nack"
Accepted(s2)  == m2_req.sent /\ s2 # "nack"
LoadAckTag(s2, replay) ==
    IF Accepted(s2) /\ m2_req.op = "load" /\ s2 = "hit" THEN m2_req.tag ELSE replay
LoadAckData(s2, replay) ==
    IF replay = None THEN Read(mem, m2_req.uop.acc) ELSE replays[replay]
StoreAck(s2) == Accepted(s2) /\ m2_req.op = "store"

\* was_killed: hide loads that were squashed, in this very cycle too.
WasKilled(t, br) ==
    \/ inflight_load_buffer[t].was_killed
    \/ IsKilledByBranch(br, inflight_load_buffer[t].uop.br_mask)
LoadAckValid(s2, replay, br) ==
    LoadAckTag(s2, replay) # None /\ ~WasKilled(LoadAckTag(s2, replay), br)

\* nack: by the cache, by the load/store unit's kill, for want of a slot or of a ready cache.
NackValid(s2) == CacheNack(s2) \/ m2_req.nack

\* dmem.ordered: nothing of the core is in the cache any more.
Idle == ~m1_req.valid /\ ~m2_req.sent /\ \A t \in SlotIdx : replays[t] = NoData

\* What the cache may do in this cycle.
Owed == {t \in SlotIdx : replays[t] # NoData}
S2Choices == IF ~m2_req.sent THEN {"hit"}
             ELSE {"nack", "hit"} \cup
                  {s \in {"miss"} : m2_req.op = "load" /\ Cardinality(Owed) < MaxReplays}
ReplayChoices == {None} \cup (IF m2_req.taken THEN {} ELSE Owed)

-----------------------------------------------------------------------------
Squash(uop, flush, br) ==
    [uop EXCEPT !.dead = @ \/ flush \/ IsKilledByBranch(br, uop.br_mask),
                !.br_mask = GetNewBrMask(br, @)]

\* Mutant: the load/store unit's kill does not free the slot.
ClearSlotNotKilled(t, s2, replay, kill) ==
    \/ LoadAckTag(s2, replay) = t
    \/ CacheNack(s2) /\ m2_req.op = "load" /\ m2_req.tag = t

\* clear: answered, nacked, or killed in the cycle after it was entered.
ClearSlot(t, s2, replay, kill) ==
    \/ LoadAckTag(s2, replay) = t
    \/ CacheNack(s2) /\ m2_req.op = "load" /\ m2_req.tag = t
    \/ kill /\ m1_req.tag = t

\* The payload of a killed load is never looked at again, so it is erased.
Slot(killed, uop) == [valid |-> TRUE, was_killed |-> killed,
                      uop |-> IF killed THEN [NoUop EXCEPT !.dead = TRUE] ELSE uop]

\* Mutant: only branches kill a load in the buffer, a pipeline flush does not.
LoadReqSlotNextNoFlush(t, rq, flush, br, s2, replay, kill) ==
    LET s == inflight_load_buffer[t] IN
    IF ClearSlot(t, s2, replay, kill) /\ s.valid THEN FreeSlot
    ELSE IF rq.tag = t
         THEN Slot(IsKilledByBranch(br, rq.uop.br_mask), Squash(rq.uop, flush, br))
         ELSE IF s.valid THEN Slot(WasKilled(t, br), Squash(s.uop, flush, br)) ELSE s

LoadReqSlotNext(t, rq, flush, br, s2, replay, kill) ==
    LET s == inflight_load_buffer[t] IN
    IF ClearSlot(t, s2, replay, kill) /\ s.valid THEN FreeSlot
    ELSE IF rq.tag = t
         THEN Slot(flush \/ IsKilledByBranch(br, rq.uop.br_mask), Squash(rq.uop, flush, br))
         ELSE IF s.valid THEN Slot(flush \/ WasKilled(t, br), Squash(s.uop, flush, br)) ELSE s

(***************************************************************************)
(* The edge: rq is the request of this cycle with the slot it enters, kill *)
(* the load/store unit's kill of the request before it.                    *)
(***************************************************************************)
PortNext(rq, kill, flush, br, s2, replay) ==
    /\ inflight_load_buffer' =
         [t \in SlotIdx |-> LoadReqSlotNext(t, rq, flush, br, s2, replay, kill)]
    /\ m1_req' = [rq EXCEPT !.uop = Squash(@, flush /\ rq.op = "load", br)]
    /\ m2_req' = [op |-> m1_req.op, tag |-> m1_req.tag, v |-> m1_req.v,
                  uop |-> Squash(m1_req.uop, flush /\ m1_req.op = "load", br),
                  taken |-> m1_req.valid /\ m1_req.ready,
                  sent |-> m1_req.valid /\ m1_req.ready /\ ~kill /\ ~IflbKill,
                  nack |-> kill \/ IflbKill \/ (m1_req.valid /\ ~m1_req.ready)]
    /\ replays' = [t \in SlotIdx |->
                     IF t = replay THEN NoData
                     ELSE IF Accepted(s2) /\ s2 = "miss" /\ m2_req.tag = t
                          THEN Read(mem, m2_req.uop.acc) ELSE replays[t]]
    /\ mem' = IF StoreAck(s2) THEN Write(mem, m2_req.uop.acc, m2_req.v) ELSE mem
=============================================================================
