--------------------------- MODULE LoadStoreUnit ----------------------------
(***************************************************************************)
(* The BOOM load/store unit (lsu.scala) over the load buffer and cache     *)
(* port it drives (execute.scala).  Loads and stores enter their queues in *)
(* program order at decode; a load goes to the cache as soon as its        *)
(* address is known, past stores whose addresses are not; a store searches *)
(* the load queue when its address arrives and goes to memory only after   *)
(* it has committed.                                                       *)
(*                                                                         *)
(* Bit vectors over entries are sets, a valid bit and the field it guards  *)
(* are one field with a None.  A field of an entry that is not allocated   *)
(* is kept only if some later step can still read it.                      *)
(***************************************************************************)
EXTENDS DCachePort

VARIABLES
    laq,                        \* load address queue
    stq,                        \* store address and data queue
    laq_head, laq_tail,
    stq_head, stq_tail, stq_commit_head,
    live_store_mask,
    mem_stage,                  \* r_mem_uop.br_mask, r_memreq_kill, r_forward_std_val and _idx
    wb_stage                    \* r_wb_uop.br_mask, the registered r_forward_std_val, r_sdq_val_for_forwarding and data

lsuVars == <<laq, stq, laq_head, laq_tail, stq_head, stq_tail, stq_commit_head,
             live_store_mask, mem_stage, wb_stage>>

WrapInc(i, n) == (i + 1) % n

LaqEntry == [allocated : BOOLEAN, addr : Acc, executed : BOOLEAN, failure : BOOLEAN,
             st_dep_mask : SUBSET StIdx, yng_st_idx : StIdx,
             forwarded_stq_idx : StIdx \cup {None}, row : Rows, br_mask : SUBSET Tags]
StqEntry == [entry_val : BOOLEAN, fence : BOOLEAN, addr : Acc, data : Val \cup {None},
             executed : BOOLEAN, succeeded : BOOLEAN, committed : BOOLEAN, br_mask : SUBSET Tags]

FreeLaq == [allocated |-> FALSE, addr |-> NoAcc, executed |-> FALSE, failure |-> FALSE,
            st_dep_mask |-> {}, yng_st_idx |-> 0, forwarded_stq_idx |-> None, row |-> 0, br_mask |-> {}]
FreeStq == [entry_val |-> FALSE, fence |-> FALSE, addr |-> NoAcc, data |-> None,
            executed |-> FALSE, succeeded |-> FALSE, committed |-> FALSE, br_mask |-> {}]

LsuInit ==
    /\ laq = [i \in LdIdx |-> FreeLaq]
    /\ stq = [i \in StIdx |-> FreeStq]
    /\ laq_head = 0 /\ laq_tail = 0
    /\ stq_head = 0 /\ stq_tail = 0 /\ stq_commit_head = 0
    /\ live_store_mask = {}
    /\ mem_stage = [br_mask |-> {}, kill |-> FALSE, forward |-> None]
    /\ wb_stage = [br_mask |-> {}, forward |-> FALSE, data |-> None]

-----------------------------------------------------------------------------
(***************************************************************************)
(* The wires of one cycle.  ex is the uop in the execute stage (part       *)
(* "none", "load", "sta" or "std", its reorder-buffer row, queue indices   *)
(* and branch mask, the access or the datum it computes), ready says       *)
(* whether the cache takes a request, thrown whether the reorder buffer    *)
(* throws an exception (com_handling_exc).                                 *)
(***************************************************************************)
LaqFull == laq_tail = laq_head /\ \E i \in LdIdx : laq[i].allocated
StqFull == WrapInc(stq_tail, num_st_entries) = stq_head

\* Mutant: the entry is given up as soon as its request has been made.
ClearStoreEarly(ordered) ==
    /\ stq[stq_head].entry_val /\ stq[stq_head].committed
    /\ IF stq[stq_head].fence THEN ordered ELSE stq[stq_head].executed

\* The store at the head has been written (or the fence's wait is over).
ClearStore(ordered) ==
    /\ stq[stq_head].entry_val /\ stq[stq_head].committed
    /\ IF stq[stq_head].fence THEN ordered ELSE stq[stq_head].succeeded
NextLive(ordered) == live_store_mask \ (IF ClearStore(ordered) THEN {stq_head} ELSE {})

\* Who wants the port: the load in execute, the sleeping load at the head, the store at the head.
FireLoadFast(ex) == ex.part = "load"
FireLoadSleeper ==
    /\ laq[laq_head].allocated /\ laq[laq_head].addr # NoAcc
    /\ ~laq[laq_head].executed /\ ~laq[laq_head].failure
FireLoad(ex) == FireLoadFast(ex) \/ FireLoadSleeper
FireStore ==
    /\ stq[stq_head].entry_val /\ stq[stq_head].committed
    /\ ~stq[stq_head].executed /\ ~stq[stq_head].fence

LdIss(ex) == IF FireLoadFast(ex) THEN ex.ldq_idx ELSE laq_head
LUop(ex) == IF FireLoadFast(ex)
            THEN [row |-> ex.row, idx |-> ex.ldq_idx, br_mask |-> ex.br_mask, acc |-> ex.acc, dead |-> FALSE]
            ELSE [row |-> laq[laq_head].row, idx |-> laq_head, br_mask |-> laq[laq_head].br_mask,
                  acc |-> laq[laq_head].addr, dead |-> FALSE]

\* The search of the store queue among the stores the load depends on.
Overlap(a, b) == a.bytes \cap b.bytes # {}
DepStores(ex) == {i \in laq[LdIss(ex)].st_dep_mask : stq[i].entry_val}
AddrConflicts(ex) == {i \in DepStores(ex) : stq[i].fence \/ Overlap(stq[i].addr, LUop(ex).acc)}
ForwardingMatches(ex) ==
    {i \in DepStores(ex) : ~stq[i].fence /\ stq[i].addr.bytes = LUop(ex).acc.bytes}
ForceLdToSleep(ex) ==
    \E i \in AddrConflicts(ex) : stq[i].fence \/ stq[i].addr.typ # LUop(ex).acc.typ

\* Mutant: the highest index, whatever its age.
ForwardingIdxHighest(matches, youngest_st_idx) == Max(matches)

\* ForwardingAgeLogic: the youngest match older than the load.
ForwardingIdx(matches, youngest_st_idx) ==
    LET wrapped == {i \in matches : i < youngest_st_idx}
    IN  Max(IF wrapped # {} THEN wrapped ELSE matches)
ForwardingVal(ex) == FireLoad(ex) /\ ForwardingMatches(ex) # {}
ForwardedFrom(ex) == ForwardingIdx(ForwardingMatches(ex), laq[LdIss(ex)].yng_st_idx)

\* The request: a load's is withheld in the cycle of an exception, but the unit thinks it made it.
MemReq(ex, ready, thrown) ==
    IF FireLoad(ex)
    THEN [op |-> "load", valid |-> ~thrown, ready |-> ready, uop |-> LUop(ex), v |-> None,
          tag |-> IF ~thrown /\ EnqRdy(ready) THEN EnqIdx ELSE None]
    ELSE IF FireStore
         THEN [op |-> "store", valid |-> TRUE, ready |-> ready, tag |-> None, v |-> stq[stq_head].data,
               uop |-> [NoUop EXCEPT !.idx = stq_head, !.acc = stq[stq_head].addr]]
         ELSE NoReq

\* Two cycles after the search, the store's data goes to the load.
WbForwardingKill(br) == IsKilledByBranch(br, wb_stage.br_mask)
ForwardVal(br) == wb_stage.forward /\ ~WbForwardingKill(br) /\ wb_stage.data # None

\* Mutant: a load that was to be forwarded is not retried although the data was missing.
ClrLdNotForwarded(br, s2) == NackValid(s2) /\ m2_req.op = "load" /\ ~wb_stage.forward

\* A nack puts a load back to sleep unless its data was forwarded.
ClrLd(br, s2) ==
    /\ NackValid(s2) /\ m2_req.op = "load"
    /\ wb_stage.forward => ~WbForwardingKill(br) /\ wb_stage.data = None
\* Mutant: a refused store is not retried.
ClrStNever(s2) == FALSE

ClrSt(s2) == NackValid(s2) /\ m2_req.op = "store"

\* The loads that went ahead of the store whose address is in execute.
IsExecuting(i, ex, ready) == FireLoad(ex) /\ ~FireStore /\ i = LdIss(ex) /\ DmemReqReady(ready)
AgeFrom(s, i) == IF i < s THEN num_st_entries + i ELSE i
FailedLoads(ex, ready) ==
    IF ex.part # "sta" THEN {}
    ELSE {i \in LdIdx :
            /\ ex.stq_idx \in laq[i].st_dep_mask
            /\ laq[i].allocated
            /\ Overlap(laq[i].addr, ex.acc)
            /\ laq[i].executed \/ IsExecuting(i, ex, ready)
            /\ LET fid == laq[i].forwarded_stq_idx IN
               \/ fid = None
               \/ fid # ex.stq_idx /\ AgeFrom(ex.stq_idx, laq[i].yng_st_idx) < AgeFrom(ex.stq_idx, fid)}
\* The one the reorder buffer is told about.
OldestFailed(failed) ==
    LET ahead == {i \in failed : i >= laq_head} IN Min(IF ahead # {} THEN ahead ELSE failed)

\* The store's row is done once both halves have executed.
ClrBsy(ex) == \/ ex.part = "sta" /\ stq[ex.stq_idx].data # None
              \/ ex.part = "std" /\ stq[ex.stq_idx].addr # NoAcc
-----------------------------------------------------------------------------
(***************************************************************************)
(* The registers after the edge.  enq is the uop that decode puts in a     *)
(* queue, com what commits ("none", "load" or "store"), reset an exception *)
(* or a memory-ordering restart.  In each, later assignments win.          *)
(***************************************************************************)
Enqueue(enq, ordered) ==
    [FreeLaq EXCEPT !.allocated = TRUE, !.st_dep_mask = NextLive(ordered), !.yng_st_idx = stq_tail,
                    !.row = enq.row, !.br_mask = enq.br_mask, !.addr = laq[laq_tail].addr]

LaqNext(i, enq, ex, br, com, reset, forwarded, failures, s2, ordered) ==
    LET cleared  == [laq[i] EXCEPT !.st_dep_mask = @ \ (IF ClearStore(ordered) THEN {stq_head} ELSE {})]
        enqueued == IF enq.op = "load" /\ i = laq_tail THEN Enqueue(enq, ordered) ELSE cleared
        executed == IF FireLoadFast(ex) /\ i = ex.ldq_idx THEN [enqueued EXCEPT !.addr = ex.acc] ELSE enqueued
        fired    == IF FireLoad(ex) /\ i = LdIss(ex)
                    THEN [executed EXCEPT !.executed = TRUE, !.failure = FALSE,
                            !.forwarded_stq_idx = IF forwarded # None THEN forwarded ELSE @]
                    ELSE executed
        failed   == IF i \in failures
                    THEN [fired EXCEPT !.executed = FALSE, !.failure = TRUE] ELSE fired
        resolved == IF ~laq[i].allocated THEN failed
                    ELSE IF IsKilledByBranch(br, laq[i].br_mask) THEN FreeLaq
                    ELSE [failed EXCEPT !.br_mask = GetNewBrMask(br, @)]
        retired  == IF com = "load" /\ i = laq_head THEN FreeLaq ELSE resolved
        nacked   == IF ClrLd(br, s2) /\ m2_req.uop.idx = i THEN [retired EXCEPT !.executed = FALSE] ELSE retired
    IN  IF reset THEN [FreeLaq EXCEPT !.br_mask = nacked.br_mask]
        ELSE IF nacked.allocated THEN nacked
        ELSE [FreeLaq EXCEPT !.addr = nacked.addr, !.br_mask = nacked.br_mask]

StqNext(i, enq, ex, br, com, reset, s2, ordered) ==
    LET enqueued == IF enq.op \in {"store", "fence"} /\ i = stq_tail
                    THEN [FreeStq EXCEPT !.entry_val = TRUE, !.fence = (enq.op = "fence"), !.br_mask = enq.br_mask]
                    ELSE stq[i]
        executed == IF ex.part \in {"sta", "std"} /\ i = ex.stq_idx
                    THEN IF ex.part = "sta" THEN [enqueued EXCEPT !.addr = ex.acc]
                                            ELSE [enqueued EXCEPT !.data = ex.v]
                    ELSE enqueued
        fired    == IF FireStore /\ ~FireLoad(ex) /\ i = stq_head
                    THEN [executed EXCEPT !.executed = TRUE] ELSE executed
        answered == IF StoreAck(s2) /\ i = m2_req.uop.idx THEN [fired EXCEPT !.succeeded = TRUE] ELSE fired
        resolved == IF ~stq[i].entry_val THEN answered
                    ELSE IF IsKilledByBranch(br, stq[i].br_mask) THEN FreeStq
                    ELSE [answered EXCEPT !.br_mask = GetNewBrMask(br, @)]
        marked   == IF com = "store" /\ i = stq_commit_head THEN [resolved EXCEPT !.committed = TRUE] ELSE resolved
        cleared  == IF ClearStore(ordered) /\ i = stq_head THEN FreeStq ELSE marked
        nacked   == IF ClrSt(s2) /\ i = m2_req.uop.idx THEN [cleared EXCEPT !.executed = FALSE] ELSE cleared
    IN  IF reset /\ ~stq[i].committed THEN FreeStq
        ELSE IF nacked.entry_val THEN nacked
        ELSE [FreeStq EXCEPT !.committed = nacked.committed]

\* Mutant: stores squashed by a branch stay live.
BrKilledStoresNone(br) == {}

BrKilledStores(br) == {i \in StIdx : stq[i].entry_val /\ IsKilledByBranch(br, stq[i].br_mask)}
ExcKilledStores(reset) == IF reset THEN {i \in StIdx : ~stq[i].committed} ELSE {}

LsuNext(enq, ex, br, com, reset, ready, failures, s2, ordered) ==
    LET forwarded == IF ForwardingVal(ex) /\ DmemReqReady(ready) THEN ForwardedFrom(ex) ELSE None IN
    /\ laq' = [i \in LdIdx |-> LaqNext(i, enq, ex, br, com, reset, forwarded, failures, s2, ordered)]
    /\ stq' = [i \in StIdx |-> StqNext(i, enq, ex, br, com, reset, s2, ordered)]
    /\ laq_head' = IF reset THEN 0
                   ELSE IF com = "load" THEN WrapInc(laq_head, num_ld_entries) ELSE laq_head
    /\ laq_tail' = IF reset THEN 0
                   ELSE IF br.valid /\ br.mispredict THEN br.ldq_idx
                   ELSE IF enq.op = "load" THEN WrapInc(laq_tail, num_ld_entries) ELSE laq_tail
    /\ stq_head' = IF ClearStore(ordered) THEN WrapInc(stq_head, num_st_entries) ELSE stq_head
    /\ stq_commit_head' = IF com = "store" THEN WrapInc(stq_commit_head, num_st_entries) ELSE stq_commit_head
    /\ stq_tail' = IF reset THEN stq_commit_head
                   ELSE IF br.valid /\ br.mispredict THEN br.stq_idx
                   ELSE IF enq.op \in {"store", "fence"} THEN WrapInc(stq_tail, num_st_entries) ELSE stq_tail
    /\ live_store_mask' =
         ((NextLive(ordered) \cup (IF enq.op \in {"store", "fence"} THEN {stq_tail} ELSE {}))
            \ BrKilledStores(br)) \ ExcKilledStores(reset)
    /\ mem_stage' =
         [br_mask |-> LUop(ex).br_mask,
          kill    |-> FireLoad(ex) /\ AddrConflicts(ex) # {},
          forward |-> IF IsKilledByBranch(br, mem_stage.br_mask) \/ ForceLdToSleep(ex)
                      THEN None ELSE forwarded]
    /\ wb_stage' =
         [br_mask |-> IF mem_stage.forward # None THEN GetNewBrMask(br, mem_stage.br_mask) ELSE {},
          forward |-> mem_stage.forward # None,
          data    |-> IF mem_stage.forward # None THEN stq[mem_stage.forward].data ELSE None]
=============================================================================
