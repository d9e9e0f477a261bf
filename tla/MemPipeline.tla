---------------------------- MODULE MemPipeline -----------------------------
(***************************************************************************)
(* The load/store unit in the core: decode feeds its queues, the execute   *)
(* stage hands it addresses and data out of order, branches squash it, and *)
(* the reorder buffer commits or restarts it (dpath.scala, execute.scala,  *)
(* rob.scala at width 1).  RenameRob models the reorder buffer itself in   *)
(* full; here only what the load/store unit sees of it is kept.            *)
(*                                                                         *)
(* A squashed or restarted program continues with any instructions at all, *)
(* so no program is fixed: each dispatch chooses a kind, each execution an *)
(* access or a datum.                                                      *)
(***************************************************************************)
EXTENDS LoadStoreUnit

CONSTANTS
    Kinds,      \* what decode may dispatch: loads, stores, fences, branches
    LdAcc, StAcc,
    Mem0,       \* memory at reset
    DataOf(_),  \* the values a store in a given queue entry may carry
    Misaligned, \* whose address may turn out misaligned: "load", "sta"
    CacheBusy,  \* may the cache refuse a request outright
    TrapSkid    \* may a uop already issued still act in the cycle after a trap is taken

VARIABLES
    rob, rob_head, rob_tail, rob_state,
    branch_mask,
    flush,      \* flush_pipeline (registered), with its cause
    exe_mem,    \* the execution unit had a memory uop in the cycle before, and no branch; kept
                \* while a branch is unresolved
    arch        \* history: memory as the committed stores have left it

robVars == <<rob, rob_head, rob_tail, rob_state, branch_mask, flush, exe_mem, arch>>
vars == <<robVars, lsuVars, portVars>>

ASSUME MemAssumption ==
    /\ {num_ld_entries, num_st_entries, num_rob_rows, MAX_LD_COUNT, MAX_BR_COUNT} \subseteq Nat \ {0}
    /\ num_st_entries > 1 /\ num_rob_rows > 1
    /\ Kinds \subseteq {"load", "store", "fence", "branch"}
    /\ LdAcc \cup StAcc \subseteq Acc \ {NoAcc} /\ \A a \in LdAcc \cup StAcc : a.bytes # {}
    /\ Mem0 \in [Bytes -> Val]
    /\ \A i \in StIdx : DataOf(i) \subseteq Val
    /\ Val \subseteq Nat /\ {TrapSkid, CacheBusy} \subseteq BOOLEAN /\ Misaligned \subseteq {"load", "sta"}

Row == [val : BOOLEAN, kind : Kinds \cup {"none"}, bsy : BOOLEAN, xcpt : {"none", "mini", "trap"},
        todo : SUBSET {"load", "sta", "std", "branch"}, wait : 0 .. 2, br_mask : SUBSET Tags,
        tag : Tags, ldq_idx : LdIdx, stq_idx : StIdx, acc : Acc, data : Data,
        v : Val \cup {None}]
FreeRow == [val |-> FALSE, kind |-> "none", bsy |-> FALSE, xcpt |-> "none", todo |-> {}, wait |-> 0,
            br_mask |-> {}, tag |-> 0, ldq_idx |-> 0, stq_idx |-> 0, acc |-> NoAcc, data |-> NoData,
            v |-> None]

Init ==
    /\ PortInit(Mem0) /\ arch = Mem0
    /\ LsuInit
    /\ rob = [r \in Rows |-> FreeRow]
    /\ rob_head = 0 /\ rob_tail = 0 /\ rob_state = "normal"
    /\ branch_mask = {} /\ flush = "none" /\ exe_mem = FALSE

-----------------------------------------------------------------------------
Head == rob[rob_head]
Running == rob_state \in {"normal", "wait_till_empty"}
Thrown  == Running /\ Head.val /\ Head.xcpt # "none"
Commits == Running /\ Head.val /\ Head.xcpt = "none" /\ ~Head.bsy
Com == IF ~Commits THEN "none" ELSE IF Head.kind = "fence" THEN "store" ELSE Head.kind
Trap == Thrown /\ Head.xcpt = "trap"
LsuReset == Trap \/ flush = "mini"

\* Branches: the resolution of one that executed in the cycle before, in the one unit.
NoBr == [valid |-> FALSE]
CanAct == flush = "none" \/ flush = "mini" \/ (flush = "trap" /\ TrapSkid)
BrChoices ==
    {NoBr} \cup
    {[valid |-> TRUE, mispredict |-> m, tag |-> rob[r].tag, row |-> r, br_mask |-> rob[r].br_mask,
      ldq_idx |-> rob[r].ldq_idx, stq_idx |-> rob[r].stq_idx] :
        m \in BOOLEAN, r \in {q \in Rows : CanAct /\ ~exe_mem /\ rob[q].val /\ "branch" \in rob[q].todo /\ rob[q].wait = 0}}

\* The uop in the execute stage: issued at least one cycle after dispatch, not squashed by br.
NoExe == [part |-> "none"]
Executable(br) ==
    {x \in Rows \X {"load", "sta", "std"} :
        /\ CanAct
        /\ rob[x[1]].val /\ rob[x[1]].wait = 0 /\ x[2] \in rob[x[1]].todo
        /\ ~IsKilledByBranch(br, rob[x[1]].br_mask)}
ExeChoices(br) ==
    {NoExe} \cup UNION {
        {[part |-> x[2], row |-> x[1], ldq_idx |-> rob[x[1]].ldq_idx, stq_idx |-> rob[x[1]].stq_idx,
          br_mask |-> GetNewBrMask(br, rob[x[1]].br_mask), acc |-> a, v |-> v, ma |-> m] :
            a \in CASE x[2] = "load" -> LdAcc [] x[2] = "sta" -> StAcc [] x[2] = "std" -> {NoAcc},
            v \in IF x[2] = "std" THEN DataOf(rob[x[1]].stq_idx) ELSE {None},
            m \in IF x[2] \in Misaligned THEN BOOLEAN ELSE {FALSE}} : x \in Executable(br)}

\* Decode: stalled while anything it needs is short, in a mispredict's or flush's cycle, around a fence.
RobReady == rob_state = "normal" /\ WrapInc(rob_tail, num_rob_rows) # rob_head
Stalled(br) == \/ ~RobReady \/ LaqFull \/ StqFull \/ (br.valid /\ br.mispredict) \/ flush # "none"
DisChoices(br) ==
    {"none"} \cup
    (IF Stalled(br) THEN {}
     ELSE {k \in Kinds : /\ k = "fence" => rob_head = rob_tail
                         /\ k = "branch" => branch_mask # Tags})
Parts(k) == CASE k = "load" -> {"load"} [] k = "store" -> {"sta", "std"} [] k = "branch" -> {"branch"}
              [] OTHER -> {}
NewRow(k, br) ==
    [val |-> TRUE, kind |-> k, bsy |-> k # "fence", xcpt |-> "none",
     todo |-> Parts(k), wait |-> IF k = "branch" THEN 2 ELSE 1,
     br_mask |-> GetNewBrMask(br, branch_mask),
     tag |-> IF k = "branch" THEN Min(Tags \ branch_mask) ELSE 0,
     ldq_idx |-> laq_tail, stq_idx |-> stq_tail, acc |-> NoAcc, data |-> NoData,
     v |-> None]
Enq(dis, br) ==
    [op |-> IF dis \in {"load", "store", "fence"} /\ ~Trap THEN dis ELSE "none",
     row |-> rob_tail, br_mask |-> GetNewBrMask(br, branch_mask)]

(***************************************************************************)
(* Write-back: forwarded store data or the cache's answer, to a row.  A    *)
(* load answer is dropped in the cycle of an exception.                    *)
(***************************************************************************)
NoWb == [row |-> None]
Writeback(br, s2, replay) ==
    IF Thrown /\ (LoadAckTag(s2, replay) # None \/ m2_req.op = "load") THEN NoWb
    ELSE IF ForwardVal(br)
    THEN [row |-> m2_req.uop.row, dead |-> m2_req.uop.dead, acc |-> m2_req.uop.acc,
          data |-> [b \in m2_req.uop.acc.bytes |-> wb_stage.data]]
    ELSE IF LoadAckValid(s2, replay, br)
    THEN LET u == inflight_load_buffer[LoadAckTag(s2, replay)].uop IN
         [row |-> u.row, dead |-> u.dead, acc |-> u.acc, data |-> LoadAckData(s2, replay)]
    ELSE NoWb

\* One row of the reorder buffer after the edge; later assignments win.
RowNext(r, dis, br, ex, failed, wb) ==
    LET old      == rob[r]
        aged     == [old EXCEPT !.wait = IF @ > 0 THEN @ - 1 ELSE 0]
        entered  == IF dis # "none" /\ r = rob_tail THEN NewRow(dis, br) ELSE aged
        executed == IF ex.part # "none" /\ ex.row = r
                    THEN [entered EXCEPT !.todo = @ \ {ex.part},
                            !.acc  = IF ex.part = "sta" THEN ex.acc ELSE @,
                            !.v    = IF ex.part = "std" THEN ex.v ELSE @,
                            !.bsy  = @ /\ ~ClrBsy(ex),
                            !.xcpt = IF ex.ma THEN "trap" ELSE @]
                    ELSE entered
        written  == IF wb.row # r THEN executed
                    ELSE IF wb.dead THEN [executed EXCEPT !.bsy = FALSE]
                    ELSE [executed EXCEPT !.bsy = FALSE, !.acc = wb.acc, !.data = wb.data]
        faulted  == IF failed # {} /\ laq[OldestFailed(failed)].row = r
                    THEN [written EXCEPT !.xcpt = "mini"] ELSE written
        resolved == IF ~br.valid THEN faulted
                    ELSE IF old.val /\ IsKilledByBranch(br, old.br_mask) THEN FreeRow
                    ELSE IF br.row = r THEN [faulted EXCEPT !.bsy = FALSE, !.todo = {}]
                    ELSE [faulted EXCEPT !.br_mask = GetNewBrMask(br, @)]
        gone     == \/ Commits /\ r = rob_head
                    \/ rob_state = "rollback" /\ r = rob_tail
    IN  IF gone \/ ~resolved.val THEN FreeRow
        ELSE IF flush # "none" THEN [resolved EXCEPT !.todo = {}] ELSE resolved

RobNext(dis, br, ex, failed, wb) ==
    /\ rob' = [r \in Rows |-> RowNext(r, dis, br, ex, failed, wb)]
    /\ rob_head' = IF Commits THEN WrapInc(rob_head, num_rob_rows) ELSE rob_head
    /\ rob_tail' = IF rob_state = "rollback" /\ rob_tail # rob_head
                   THEN (rob_tail + num_rob_rows - 1) % num_rob_rows
                   ELSE IF br.valid /\ br.mispredict THEN WrapInc(br.row, num_rob_rows)
                   ELSE IF dis # "none" THEN WrapInc(rob_tail, num_rob_rows) ELSE rob_tail
    /\ rob_state' = CASE Thrown -> "rollback"
                      [] ~Thrown /\ rob_state = "normal" -> IF dis = "fence" THEN "wait_till_empty" ELSE "normal"
                      [] OTHER -> IF rob_tail = rob_head THEN "normal" ELSE rob_state
    /\ branch_mask' = IF flush # "none" THEN {}
                      ELSE IF br.valid /\ br.mispredict THEN br.br_mask
                      ELSE GetNewBrMask(br, branch_mask \cup (IF dis = "branch" THEN {Min(Tags \ branch_mask)} ELSE {}))
    /\ flush' = IF Thrown THEN Head.xcpt ELSE IF Commits /\ Head.kind = "fence" THEN "fence" ELSE "none"
    /\ exe_mem' = (ex.part # "none" /\ branch_mask # {})
    /\ arch' = IF Commits /\ Head.kind = "store" THEN Write(arch, Head.acc, Head.v) ELSE arch

(***************************************************************************)
(* One clock edge.  Inputs: what decode dispatches, what executes, which   *)
(* branch resolves and how, what the cache does.                           *)
(***************************************************************************)
Clock(dis, ex, br, ready, s2, replay, ordered) ==
    LET failures == FailedLoads(ex, ready) IN
    /\ LsuNext(Enq(dis, br), ex, br, Com, LsuReset, ready, failures, s2, ordered)
    /\ PortNext(MemReq(ex, ready, Thrown), mem_stage.kill, flush # "none", br, s2, replay)
    /\ RobNext(dis, br, ex, failures, Writeback(br, s2, replay))

ReadyChoices(ex) == IF CacheBusy /\ (FireLoad(ex) \/ FireStore) THEN BOOLEAN ELSE {TRUE}
OrderedChoices == IF Idle /\ stq[stq_head].fence THEN BOOLEAN ELSE {FALSE}

Next ==
    \E br \in BrChoices, s2 \in S2Choices, replay \in ReplayChoices, ordered \in OrderedChoices :
        \E ex \in ExeChoices(br), dis \in DisChoices(br) :
            \E ready \in ReadyChoices(ex) : Clock(dis, ex, br, ready, s2, replay, ordered)

(***************************************************************************)
(* Fairness: the clock runs; an issued uop executes; the cache does not    *)
(* refuse or nack the requests of one kind for ever, answers the loads it  *)
(* has accepted and tells a fence when it is idle.  Each of these is what  *)
(* weak or strong fairness of the step means, written without ENABLED.     *)
(* Nothing makes decode fair.                                              *)
(***************************************************************************)
AcceptsRequest(op) ==
    /\ m2_req.sent /\ m2_req.op = op
    /\ IF op = "store" THEN stq'[m2_req.uop.idx].succeeded
                       ELSE m2_req.uop.dead \/ laq'[m2_req.uop.idx].executed
FenceWaits == stq[stq_head].fence /\ stq[stq_head].committed
Fairness ==
    /\ WF_vars(Next)
    /\ \A r \in Rows, part \in {"load", "sta", "std", "branch"} : []<>(part \notin rob[r].todo)
    /\ \A op \in {"load", "store"} :
         /\ []<>(m1_req.op = op) => []<>(m1_req.op = op /\ m1_req.ready)
         /\ []<>(m2_req.sent /\ m2_req.op = op) => []<><<AcceptsRequest(op)>>_vars
    /\ \A t \in SlotIdx : []<>(replays[t] = NoData)
    /\ []<>(FenceWaits /\ Idle) => []<>~FenceWaits
FairSpec == Init /\ [][Next]_vars /\ Fairness

Spec == Init /\ [][Next]_vars
-----------------------------------------------------------------------------
(* Every register and history variable stays in its range, the queue
   pointers of the load/store unit included. *)
TypeOK ==
    /\ inflight_load_buffer \in [SlotIdx -> [valid : BOOLEAN, was_killed : BOOLEAN, uop : Uop]]
    /\ m1_req \in M1Req /\ m2_req \in M2Req
    /\ replays \in [SlotIdx -> Data] /\ {mem, arch} \subseteq [Bytes -> Val]
    /\ laq \in [LdIdx -> LaqEntry] /\ stq \in [StIdx -> StqEntry]
    /\ {laq_head, laq_tail} \subseteq LdIdx
    /\ {stq_head, stq_tail, stq_commit_head} \subseteq StIdx /\ live_store_mask \subseteq StIdx
    /\ mem_stage \in [br_mask : SUBSET Tags, kill : BOOLEAN, forward : StIdx \cup {None}]
    /\ wb_stage \in [br_mask : SUBSET Tags, forward : BOOLEAN, data : Val \cup {None}]
    /\ rob \in [Rows -> Row] /\ {rob_head, rob_tail} \subseteq Rows
    /\ rob_state \in {"normal", "rollback", "wait_till_empty"} /\ branch_mask \subseteq Tags
    /\ flush \in {"none", "mini", "trap", "fence"} /\ exe_mem \in BOOLEAN

(* A load that commits has the value program order gives it: what the
   stores committed before it have left, whether it came from memory early,
   from a store's entry or after sleeping, and whatever nacks, kills, late
   answers and ordering restarts there were on the way. *)
LoadsRight ==
    Commits /\ Head.kind = "load" => Head.acc # NoAcc /\ Head.data = Read(arch, Head.acc)

(* An instruction of the running program that the reorder buffer holds as
   done was done by its own execution: no late write-back of a squashed load
   (a slow answer of the cache, data forwarded from a store) has cleared the
   busy bit of the instruction that has its row now ("kill forwarding if
   branch mispredict", lsu.scala). *)
DoneByItself ==
    \A r \in Rows : Running /\ rob[r].val /\ ~rob[r].bsy =>
        /\ rob[r].todo = {}
        /\ rob[r].kind = "load" => rob[r].acc # NoAcc
        /\ rob[r].kind = "store" => rob[r].acc # NoAcc /\ rob[r].v # None

(* No committed store is lost, duplicated or overtaken: memory, with the
   committed stores still in the queue applied oldest first, is what the
   program has stored, through nacks, retries, branches and restarts. *)
AgeOrder == [k \in 0 .. num_st_entries - 1 |-> (stq_head + k) % num_st_entries]
Pending(i) == stq[i].entry_val /\ stq[i].committed /\ ~stq[i].succeeded /\ ~stq[i].fence
Drained[k \in 0 .. num_st_entries] ==
    IF k = 0 THEN mem
    ELSE LET i == AgeOrder[k - 1]
         IN  IF Pending(i) THEN Write(Drained[k - 1], stq[i].addr, stq[i].data) ELSE Drained[k - 1]
StoresReachMemory == Drained[num_st_entries] = arch

(* Outside a restart the queues and the reorder buffer agree on what is in
   flight, entry by entry; live_store_mask is the set of the entries in use,
   and no load still depends on an entry that has been given up.  Once the
   buffer is empty, after a flush that was to "kill everything" too, nothing
   of the squashed uops is left: the tails are back and no load entry holds
   an address. *)
Quiet == Running /\ flush = "none"
InFlight(kinds) == {r \in Rows : rob[r].val /\ rob[r].kind \in kinds}
QueuesMatchRob ==
    Quiet =>
        /\ {i \in LdIdx : laq[i].allocated} = {rob[r].ldq_idx : r \in InFlight({"load"})}
        /\ \A r \in InFlight({"load"}) : laq[rob[r].ldq_idx].row = r
        /\ {i \in StIdx : stq[i].entry_val /\ ~stq[i].committed} =
             {rob[r].stq_idx : r \in InFlight({"store", "fence"})}
        /\ live_store_mask = {i \in StIdx : stq[i].entry_val}
        /\ \A i \in LdIdx : laq[i].st_dep_mask \subseteq live_store_mask
        /\ rob_head = rob_tail =>
             /\ laq_head = laq_tail /\ stq_tail = stq_commit_head
             /\ \A i \in LdIdx : laq[i].addr = NoAcc

(* A slot of the load buffer is taken exactly while one load is on its way:
   in the cache's pipeline or owed an answer.  No slot is leaked by a kill
   or nack, none is given away while an answer can still come for it. *)
OneOwnerPerSlot ==
    \A t \in SlotIdx :
        LET owners == {o \in {"m1", "m2", "replay"} :
                         CASE o = "m1" -> m1_req.tag = t
                           [] o = "m2" -> m2_req.sent /\ m2_req.tag = t
                           [] o = "replay" -> replays[t] # NoData}
        IN  inflight_load_buffer[t].valid <=> Cardinality(owners) = 1

(* Loads and stores that fight for the one port never starve each other for
   good ("is it possible to starve out stores and deadlock the machine?"):
   the head of the reorder buffer always commits or restarts in the end... *)
HeadMoves == []<>(~Head.val \/ Commits \/ Thrown)
(* ...and every committed store and fence leaves the store queue. *)
StoresDrain == \A i \in StIdx : []<>~stq[i].committed
=============================================================================
