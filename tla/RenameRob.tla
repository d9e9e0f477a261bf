------------------------------ MODULE RenameRob ------------------------------
(***************************************************************************)
(* The speculative front half of the BOOM core: register renaming          *)
(* (rename.scala), branch-mask allocation (decode.scala), the reorder      *)
(* buffer (rob.scala) and the one-cycle-late branch resolution of the      *)
(* branch unit (functional_unit.scala).  One step is one clock edge.       *)
(*                                                                         *)
(* What the rest of the core does to these parts is an input of the step:  *)
(* the bundle that decode dispatches, the uops that write back, the branch *)
(* that executes and whether it was mispredicted, the memory uop that      *)
(* raises an exception.  Bit masks are sets.  The payload of an entry that *)
(* is not valid is never read, so the model erases it.                     *)
(***************************************************************************)
EXTENDS Integers, FiniteSets, FiniteSetsExt

CONSTANTS
    Width,      \* DECODE_WIDTH: instructions dispatched, and committed, per cycle
    NumRows,    \* num_rob_rows
    NumLRegs,   \* LOGICAL_REG_COUNT
    NumPRegs,   \* PHYS_REG_COUNT
    MaxBr,      \* MAX_BR_COUNT
    DecUops     \* the instructions decode may present

Lanes  == 0 .. Width - 1
Rows   == 0 .. NumRows - 1
Slots  == Rows \X Lanes
LRegs  == 0 .. NumLRegs - 1
PRegs  == 0 .. NumPRegs - 1
Tags   == 0 .. MaxBr - 1

(***************************************************************************)
(* What the decode table says of an instruction, as far as this part of    *)
(* the core looks at it.  "alu" also stands for the multiplier's uops and  *)
(* jal, which write a register and cannot fault; "load" can.  "branch" and *)
(* "jalr" allocate a branch tag; "csr", "fence" (fence.i too) and "sret"   *)
(* are unique.  A decode exception (scall, illegal, fetch fault) comes on  *)
(* top of any kind.                                                        *)
(***************************************************************************)
Kinds == {"alu", "load", "store", "branch", "jalr", "csr", "fence", "sret"}

IsFix(u)         == u.kind \in {"alu", "load", "jalr", "csr"}
IsBranch(u)      == u.kind \in {"branch", "jalr"}
IsUnique(u)      == u.kind \in {"csr", "fence", "sret"}
FlushOnCommit(u) == u.kind \in {"csr", "fence"}
StartsBusy(u)    == u.kind \notin {"fence", "sret"}
LdstVal(u)       == IsFix(u) /\ u.ldst # 0

DecUop == [kind : Kinds, ldst : LRegs, exception : BOOLEAN]
Bubble == [kind |-> "bubble"]

ASSUME SizeAssumption ==
    /\ Width \in {1, 2}
    /\ NumRows \in Nat /\ NumRows >= 2
    /\ NumLRegs \in Nat /\ NumLRegs >= 1
    /\ NumPRegs \in Nat /\ NumPRegs >= NumLRegs + Width
    /\ MaxBr \in Nat /\ MaxBr >= 1

ASSUME DecUopsAssumption == DecUops \subseteq DecUop

\* The contents of a register no reset initialises and nothing has written yet.
Undef == -1

VARIABLES
    map_table,          \* logical register -> physical register
    br_copies,          \* per branch tag, the map table as of that branch
    free_list,          \* physical registers nobody holds
    allocation_lists,   \* per branch tag, the registers allocated since
    branch_mask,        \* tags of the branches in flight
    rob_val, rob_bsy, rob_exception, rob_uop,
    rob_head, rob_tail, rob_state,
    flush_pipeline,     \* flush_val of the previous cycle
    brinfo              \* the branch the branch unit resolved last cycle

renVars == <<map_table, br_copies, free_list, allocation_lists, branch_mask>>
robVars == <<rob_val, rob_bsy, rob_exception, rob_uop,
             rob_head, rob_tail, rob_state, flush_pipeline>>
vars    == <<renVars, robVars, brinfo>>

RobUop == [kind : Kinds, ldst : LRegs, pdst : PRegs, stale_pdst : PRegs,
           br_tag : Tags, br_mask : SUBSET Tags]
NoUop  == [kind |-> "none"]

NoBr   == [valid |-> FALSE, mispredict |-> FALSE]
BrInfo == [valid : {TRUE}, mispredict : BOOLEAN, tag : Tags,
           exe_mask : SUBSET Tags, rob_idx : Slots]

WrapInc(r) == IF r = NumRows - 1 THEN 0 ELSE r + 1
WrapDec(r) == IF r = 0 THEN NumRows - 1 ELSE r - 1

\* What the two lanes of a bundle get from a priority encoder over S.
First(S)  == Min(S)
Second(S) == Min(S \ {Min(S)})

GetNewBrMask(m) == IF brinfo.valid THEN m \ {brinfo.tag} ELSE m

Init ==
    /\ map_table = [l \in LRegs |-> 0]
    /\ br_copies = [t \in Tags |-> [l \in LRegs |-> Undef]]
    /\ free_list = PRegs \ {0}
    /\ allocation_lists = [t \in Tags |-> {Undef}]
    /\ branch_mask = {}
    /\ rob_val = {} /\ rob_bsy = {} /\ rob_exception = {}
    /\ rob_uop = [s \in Slots |-> NoUop]
    /\ rob_head = 0 /\ rob_tail = 0
    /\ rob_state = "s_reset"
    /\ flush_pipeline = FALSE
    /\ brinfo = NoBr

-----------------------------------------------------------------------------
(* The head of the reorder buffer: what commits, what throws.              *)

HeadSlot(w) == <<rob_head, w>>

rob_head_vals(w)       == HeadSlot(w) \in rob_val
can_commit(w)          == rob_head_vals(w) /\ HeadSlot(w) \notin rob_bsy
can_throw_exception(w) == rob_head_vals(w) /\ HeadSlot(w) \in rob_exception

\* Mutant: nothing commits while the buffer drains for a unique instruction.
CommitNotBlocked_normal_only(w) ==
    /\ rob_state = "s_normal"
    /\ \A x \in Lanes : x < w /\ rob_head_vals(x) =>
                            can_commit(x) /\ ~can_throw_exception(x)

\* No older instruction of the commit bundle stands in the way.
CommitNotBlocked(w) ==
    /\ rob_state \in {"s_normal", "s_wait_till_empty"}
    /\ \A x \in Lanes : x < w /\ rob_head_vals(x) =>
                            can_commit(x) /\ ~can_throw_exception(x)

will_commit(w) == can_commit(w) /\ ~can_throw_exception(w) /\ CommitNotBlocked(w)

\* Mutant: a faulting instruction throws beside one that commits.
exception_thrown_beside_commit == \E w \in Lanes : can_throw_exception(w) /\ CommitNotBlocked(w)

exception_thrown ==
    \E w \in Lanes : /\ can_throw_exception(w) /\ CommitNotBlocked(w)
                     /\ w > 0 => ~will_commit(w - 1)

Committed  == {HeadSlot(w) : w \in {x \in Lanes : will_commit(x)}}
RolledBack == IF rob_state = "s_rollback"
              THEN {s \in rob_val : s[1] = rob_tail} ELSE {}
Killed     == IF brinfo.mispredict
              THEN {s \in rob_val : brinfo.tag \in rob_uop[s].br_mask} ELSE {}

flush_val == exception_thrown \/ \E s \in Committed : FlushOnCommit(rob_uop[s])

-----------------------------------------------------------------------------
(* Decode and rename of the bundle dis, a function from lanes to an        *)
(* instruction or a bubble.                                                *)

Fires(dis)      == {w \in Lanes : dis[w] # Bubble}
Older(dis, w)   == {x \in Fires(dis) : x < w}
Allocs(dis)     == {w \in Fires(dis) : LdstVal(dis[w])}
Branches(dis)   == {w \in Fires(dis) : IsBranch(dis[w])}

\* The registers on offer do not depend on who needs one.
requested_preg(w) == IF w = 0 THEN First(free_list) ELSE Second(free_list)
can_allocate(w)   == free_list \ (IF w = 0 THEN {} ELSE {First(free_list)}) # {}

br_tag(dis, w)    == IF Older(dis, w) \cap Branches(dis) = {}
                     THEN First(Tags \ branch_mask) ELSE Second(Tags \ branch_mask)
curr_br_mask(dis, w) ==
    branch_mask \cup {br_tag(dis, x) : x \in Older(dis, w) \cap Branches(dis)}

rob_full  == WrapInc(rob_tail) = rob_head
rob_empty == rob_head = rob_tail
rob_rdy   == rob_state = "s_normal" /\ ~rob_full

\* ~stall_me of every lane that fires.
CanDispatch(dis) ==
    \A w \in Fires(dis) :
        /\ rob_rdy /\ ~brinfo.mispredict /\ ~flush_pipeline
        /\ IsFix(dis[w]) => can_allocate(w)
        /\ IsUnique(dis[w]) => rob_empty
        /\ IsBranch(dis[w]) => curr_br_mask(dis, w) # Tags
        /\ \A x \in Older(dis, w) : ~IsUnique(dis[x])

pdst(dis, w) == IF LdstVal(dis[w]) THEN requested_preg(w) ELSE dis[w].ldst

\* The map table as lane w leaves it behind.
MapAfter(dis, w, l) ==
    LET writers == {x \in Allocs(dis) : x <= w /\ dis[x].ldst = l}
    IN  IF writers = {} THEN map_table[l] ELSE requested_preg(Max(writers))

\* Bypassing within the bundle: the first older lane that matches wins.
Bypassed(dis, w, l) ==
    LET matches == {x \in Allocs(dis) : x < w /\ dis[x].ldst = l}
    IN  IF matches = {} THEN map_table[l] ELSE pdst(dis, Min(matches))

stale_pdst(dis, w) ==
    IF LdstVal(dis[w]) THEN Bypassed(dis, w, dis[w].ldst) ELSE map_table[dis[w].ldst]

DisUop(dis, w) ==
    [kind |-> dis[w].kind, ldst |-> dis[w].ldst, pdst |-> pdst(dis, w),
     stale_pdst |-> stale_pdst(dis, w),
     br_tag  |-> IF IsBranch(dis[w]) THEN br_tag(dis, w) ELSE 0,
     br_mask |-> GetNewBrMask(curr_br_mask(dis, w))]

-----------------------------------------------------------------------------
(* What the clock edge does to each register of the rename stage.          *)

\* Mutant: the youngest write of a register in the row is undone last.
RenameMapTable_undo_oldest_first(dis) ==
    /\ br_copies' =
         [t \in Tags |->
            LET brs == {w \in Branches(dis) : br_tag(dis, w) = t}
            IN  IF brs = {} THEN br_copies[t]
                ELSE [l \in LRegs |-> MapAfter(dis, Max(brs), l)]]
    /\ map_table' =
         [l \in LRegs |->
            LET undo == {w \in Lanes : <<rob_tail, w>> \in RolledBack
                                       /\ LdstVal(rob_uop[<<rob_tail, w>>])
                                       /\ rob_uop[<<rob_tail, w>>].ldst = l}
            IN  IF brinfo.mispredict THEN br_copies[brinfo.tag][l]
                ELSE IF undo # {} THEN rob_uop[<<rob_tail, Max(undo)>>].stale_pdst
                ELSE MapAfter(dis, Width - 1, l)]

\* com_rbk_valids, including those whose destination is x0.
Unwound == {s \in RolledBack : IsFix(rob_uop[s])}

RenameMapTable(dis) ==
    /\ br_copies' =
         [t \in Tags |->
            LET brs == {w \in Branches(dis) : br_tag(dis, w) = t}
            IN  IF brs = {} THEN br_copies[t]
                ELSE [l \in LRegs |-> MapAfter(dis, Max(brs), l)]]
    /\ map_table' =
         [l \in LRegs |->
            LET undo == {w \in Lanes : <<rob_tail, w>> \in Unwound
                                       /\ rob_uop[<<rob_tail, w>>].ldst = l}
            IN  IF brinfo.mispredict THEN br_copies[brinfo.tag][l]
                ELSE IF undo # {} THEN rob_uop[<<rob_tail, Min(undo)>>].stale_pdst
                ELSE MapAfter(dis, Width - 1, l)]

\* Mutant: the lists start one lane early and hold the branch's own register.
JustAllocated_from_branch(dis, from) ==
    {requested_preg(w) : w \in {x \in Allocs(dis) : x + 1 >= from}}

JustAllocated(dis, from) == {requested_preg(w) : w \in {x \in Allocs(dis) : x >= from}}

\* Mutant: unwinding gives no register back.
Enqueued_commit_only ==
    {rob_uop[s].stale_pdst : s \in {c \in Committed : IsFix(rob_uop[c])}} \ {0}

Enqueued ==
    ({rob_uop[s].stale_pdst : s \in {c \in Committed : IsFix(rob_uop[c])}}
        \cup {rob_uop[s].pdst : s \in Unwound}) \ {0}

\* Mutant: a branch does not start a fresh allocation list.
RenameFreeList_never_cleared(dis) ==
    /\ free_list' = IF brinfo.mispredict
                    THEN free_list \cup allocation_lists[brinfo.tag] \cup Enqueued
                    ELSE (free_list \ JustAllocated(dis, 0)) \cup Enqueued
    /\ allocation_lists' = [t \in Tags |-> allocation_lists[t] \cup JustAllocated(dis, 0)]

RenameFreeList(dis) ==
    IF brinfo.mispredict
    THEN LET lost == allocation_lists[brinfo.tag]
         IN  /\ free_list' = free_list \cup lost \cup Enqueued
             /\ allocation_lists' =
                  [t \in Tags |-> IF allocation_lists[t] = {Undef} THEN {Undef}
                                  ELSE allocation_lists[t] \ lost]
    ELSE /\ free_list' = (free_list \ JustAllocated(dis, 0)) \cup Enqueued
         /\ allocation_lists' =
              [t \in Tags |->
                 LET brs == {w \in Branches(dis) : br_tag(dis, w) = t}
                 IN  IF brs # {} THEN JustAllocated(dis, Max(brs) + 1)
                     ELSE IF allocation_lists[t] = {Undef} THEN {Undef}
                     ELSE allocation_lists[t] \cup JustAllocated(dis, 0)]

\* Mutant: a mispredict clears its own tag only.
BranchMask_own_tag_only(dis) ==
    branch_mask' = IF flush_pipeline THEN {} ELSE GetNewBrMask(curr_br_mask(dis, Width))

BranchMaskGenerationLogic(dis) ==
    branch_mask' = IF flush_pipeline THEN {}
                   ELSE IF brinfo.mispredict THEN brinfo.exe_mask
                   ELSE GetNewBrMask(curr_br_mask(dis, Width))

-----------------------------------------------------------------------------
(* What the clock edge does to the reorder buffer.  wb holds the slots     *)
(* whose uop writes back, xcpt those whose memory uop raises an exception. *)

Dispatched(dis) == {<<rob_tail, w>> : w \in Fires(dis)}

RobEntries(dis, wb, xcpt) ==
    /\ rob_val' = (rob_val \ (Committed \cup RolledBack \cup Killed)) \cup Dispatched(dis)
    /\ rob_uop' = [s \in Slots |->
                     IF s \in Dispatched(dis) THEN DisUop(dis, s[2])
                     ELSE IF s \in rob_val'
                     THEN [rob_uop[s] EXCEPT !.br_mask = GetNewBrMask(@)]
                     ELSE NoUop]
    /\ rob_bsy' = LET resolved == IF brinfo.valid THEN {brinfo.rob_idx} ELSE {}
                  IN  ((rob_bsy \ (wb \cup resolved)) \cap rob_val')
                      \cup {s \in Dispatched(dis) : StartsBusy(dis[s[2]])}
    /\ rob_exception' = ((rob_exception \cup xcpt) \cap rob_val')
                        \cup {s \in Dispatched(dis) : dis[s[2]].exception}

\* Mutant: the head waits for the state machine to be back in s_normal.
RobHead_normal_only ==
    rob_head' = IF rob_state = "s_normal" /\ Committed # {}
                   /\ Committed = {s \in rob_val : s[1] = rob_head}
                THEN WrapInc(rob_head) ELSE rob_head

RobHead ==
    rob_head' = IF Committed # {} /\ Committed = {s \in rob_val : s[1] = rob_head}
                THEN WrapInc(rob_head) ELSE rob_head

\* Mutant: after a mispredict the branch's own row is dispatched into again.
RobTail_reuses_row(dis) ==
    rob_tail' = IF rob_state = "s_rollback" /\ rob_tail # rob_head THEN WrapDec(rob_tail)
                ELSE IF brinfo.mispredict THEN brinfo.rob_idx[1]
                ELSE IF Fires(dis) # {} THEN WrapInc(rob_tail)
                ELSE rob_tail

RobTail(dis) ==
    rob_tail' = IF rob_state = "s_rollback" /\ rob_tail # rob_head THEN WrapDec(rob_tail)
                ELSE IF brinfo.mispredict THEN WrapInc(brinfo.rob_idx[1])
                ELSE IF Fires(dis) # {} THEN WrapInc(rob_tail)
                ELSE rob_tail

RobFSM(dis) ==
    rob_state' =
        CASE rob_state = "s_reset" -> "s_normal"
          [] rob_state = "s_rollback" ->
               IF rob_tail = rob_head THEN "s_normal" ELSE "s_rollback"
          [] rob_state \in {"s_normal", "s_wait_till_empty"} ->
               IF exception_thrown THEN "s_rollback"
               ELSE IF rob_state = "s_wait_till_empty"
               THEN IF rob_tail = rob_head THEN "s_normal" ELSE "s_wait_till_empty"
               ELSE IF \E w \in Fires(dis) : IsUnique(dis[w])
               THEN "s_wait_till_empty" ELSE "s_normal"

Rob(dis, wb, xcpt) ==
    /\ RobEntries(dis, wb, xcpt)
    /\ RobHead /\ RobTail(dis) /\ RobFSM(dis)
    /\ flush_pipeline' = flush_val

-----------------------------------------------------------------------------
(* The inputs.                                                             *)

\* The flush signal empties the issue window, register read and the functional
\* units: from the cycle after it nothing of the doomed instructions is left.
PipelineFlushed == rob_state = "s_rollback" /\ ~flush_pipeline

\* A branch whose outcome is not known, and one that is still to execute.
Unresolved == {s \in rob_bsy : IsBranch(rob_uop[s])}
ToExecute  == IF PipelineFlushed THEN {}
              ELSE {s \in Unresolved : ~(brinfo.valid /\ brinfo.rob_idx = s)}

\* exe is the set of at most one branch in the branch unit this cycle.
BranchUnit(exe, mispredict) ==
    brinfo' = IF exe \ Killed = {} \/ flush_pipeline THEN NoBr
              ELSE LET s == CHOOSE x \in exe : TRUE
                   IN  [valid |-> TRUE, mispredict |-> mispredict,
                        tag |-> rob_uop[s].br_tag,
                        exe_mask |-> GetNewBrMask(rob_uop[s].br_mask), rob_idx |-> s]

\* A uop of another functional unit that may answer.
CanWriteBack == IF PipelineFlushed THEN {} ELSE {s \in rob_bsy : ~IsBranch(rob_uop[s])}
\* A load or a store that may be found misaligned or out of order.
CanFault     == IF rob_state = "s_rollback" THEN {}
                ELSE {s \in rob_val : rob_uop[s].kind \in {"load", "store"}}
                     \ (Committed \cup rob_exception)

AtMostOne(S) == {{}} \cup {{x} : x \in S}

Clock(dis, wb, xcpt, exe, mispredict) ==
    /\ CanDispatch(dis)
    /\ RenameMapTable(dis)
    /\ RenameFreeList(dis)
    /\ BranchMaskGenerationLogic(dis)
    /\ Rob(dis, wb, xcpt)
    /\ BranchUnit(exe, mispredict)

Bundles == [Lanes -> DecUops \cup {Bubble}]

Next ==
    \E dis \in Bundles, wb \in AtMostOne(CanWriteBack), xcpt \in AtMostOne(CanFault),
       exe \in AtMostOne(ToExecute), mispredict \in BOOLEAN :
        Clock(dis, wb, xcpt, exe, mispredict)

Spec == Init /\ [][Next]_vars

\* A uop in flight is executed some day, unless it is killed first.
Completes(s) ==
    \E dis \in Bundles, xcpt \in AtMostOne(CanFault), mispredict \in BOOLEAN :
        \/ s \in CanWriteBack /\ Clock(dis, {s}, xcpt, {}, mispredict)
        \/ s \in ToExecute \ Killed /\ ~flush_pipeline /\ Clock(dis, {}, xcpt, {s}, mispredict)

FairSpec == Spec /\ WF_vars(Next) /\ \A s \in Slots : WF_vars(Completes(s))

-----------------------------------------------------------------------------
(* Properties.                                                             *)

TypeOK ==
    /\ map_table \in [LRegs -> PRegs]
    /\ br_copies \in [Tags -> [LRegs -> PRegs \cup {Undef}]]
    /\ free_list \subseteq PRegs
    /\ allocation_lists \in [Tags -> (SUBSET PRegs) \cup {{Undef}}]
    /\ branch_mask \subseteq Tags
    /\ rob_val \subseteq Slots /\ rob_bsy \subseteq rob_val /\ rob_exception \subseteq rob_val
    /\ rob_uop \in [Slots -> RobUop \cup {NoUop}]
    /\ \A s \in rob_val : rob_uop[s] \in RobUop
    /\ rob_head \in Rows /\ rob_tail \in Rows
    /\ rob_state \in {"s_reset", "s_normal", "s_rollback", "s_wait_till_empty"}
    /\ flush_pipeline \in BOOLEAN
    /\ brinfo \in {NoBr} \cup BrInfo

\* Rows from the head, counted round the buffer; program order of the entries.
FromHead(r)   == (r - rob_head + NumRows) % NumRows
Precedes(s, t) == \/ FromHead(s[1]) < FromHead(t[1])
                  \/ s[1] = t[1] /\ s[2] < t[2]

Writers(l) == {s \in rob_val : LdstVal(rob_uop[s]) /\ rob_uop[s].ldst = l}
Oldest(S)   == CHOOSE s \in S : \A t \in S : t = s \/ Precedes(s, t)
Youngest(S) == CHOOSE s \in S : \A t \in S : t = s \/ Precedes(t, s)

\* The map table that unwinding every instruction in flight would leave.
CommittedMap == [l \in LRegs |-> IF Writers(l) = {} THEN map_table[l]
                                 ELSE rob_uop[Oldest(Writers(l))].stale_pdst]

InFlightPdsts(S) == {rob_uop[s].pdst : s \in {t \in S : LdstVal(rob_uop[t])}}

(* Every physical register but P0 has exactly one owner: the free list, an *)
(* instruction in flight that will write it, or the committed map.  None   *)
(* leaks when branches are mispredicted or exceptions unwound, and none is *)
(* handed out twice (rename.scala, RenameFreeList).                        *)
OneOwner ==
    LET committed == {CommittedMap[l] : l \in LRegs} \ {0}
        inflight  == InFlightPdsts(rob_val)
    IN  /\ free_list \cup committed \cup inflight = PRegs \ {0}
        /\ free_list \cap (committed \cup inflight) = {}
        /\ committed \cap inflight = {}
        /\ \A s, t \in rob_val : /\ s # t /\ LdstVal(rob_uop[s]) /\ LdstVal(rob_uop[t])
                                  => rob_uop[s].pdst # rob_uop[t].pdst
        /\ \A l, m \in LRegs : l # m /\ CommittedMap[l] # 0 => CommittedMap[l] # CommittedMap[m]

(* The committed register map is precise: only committing instructions     *)
(* change it, and each only to make its own destination current.  A        *)
(* mispredict, an exception's unwinding and dispatch never do (rob.scala,  *)
(* "Commit or Rollback"; rename.scala, RenameMapTableElement).             *)
PreciseState ==
    [][\A l \in LRegs :
         LET ws == Writers(l) \cap Committed
         IN  CommittedMap'[l] = IF ws = {} THEN CommittedMap[l]
                                ELSE rob_uop[Youngest(ws)].pdst]_vars

(* What a mispredict of a branch in flight would restore is right: its map *)
(* copy is the map as of the branch, its own link register included, and   *)
(* its allocation list is exactly what younger instructions hold.          *)
SnapshotsExact ==
    rob_state # "s_rollback" =>
    \A b \in Unresolved :
        LET younger == {s \in rob_val : Precedes(b, s)}
            asOf(l) == LET ws == Writers(l) \cap younger
                       IN  IF ws = {} THEN map_table[l] ELSE rob_uop[Oldest(ws)].stale_pdst
        IN  /\ br_copies[rob_uop[b].br_tag] = [l \in LRegs |-> asOf(l)]
            /\ allocation_lists[rob_uop[b].br_tag] = InFlightPdsts(younger)

(* Branch masks are exact: an instruction is killed by the mispredict of   *)
(* an older branch still in flight and of no other, and the mask decode    *)
(* hands out names precisely the tags of the branches in flight, which are *)
(* all different.                                                          *)
BranchMasksExact ==
    rob_state # "s_rollback" =>
    /\ branch_mask = {rob_uop[b].br_tag : b \in Unresolved}
    /\ \A s \in rob_val : rob_uop[s].br_mask =
           {rob_uop[b].br_tag : b \in {c \in Unresolved : Precedes(c, s)}}
    /\ \A b, c \in Unresolved : b # c => rob_uop[b].br_tag # rob_uop[c].br_tag

(* The rows from head to tail hold the valid entries, and each of them at  *)
(* least one: the head only moves on from a row it commits something in,   *)
(* so an empty row would stop the machine for good.                        *)
RowsOccupied ==
    LET occupied == {s[1] : s \in rob_val}
        used     == {r \in Rows : FromHead(r) < FromHead(rob_tail)}
    IN  IF rob_state = "s_rollback"
        THEN occupied \subseteq used \cup {rob_tail}
        ELSE occupied = used

(* An exception is taken by the oldest instruction in flight, with every   *)
(* older one committed and every branch before it resolved.                *)
ExceptionPrecise ==
    exception_thrown =>
        LET s == Oldest(rob_val) IN s \in rob_exception /\ rob_uop[s].br_mask = {}

(* Every instruction leaves the reorder buffer, committed or squashed.     *)
EntriesLeave == \A s \in Slots : s \in rob_val ~> s \notin rob_val

(* The reorder buffer accepts dispatch again and again: unwinding an       *)
(* exception and draining for a unique instruction both end.               *)
ReadyAgain == []<>rob_rdy
=============================================================================
