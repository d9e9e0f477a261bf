-------------------------- MODULE RenameRobProofs ---------------------------
(***************************************************************************)
(* Register rename and the reorder buffer, for queues and register files   *)
(* of every size: types, the order of the instructions in flight, and the  *)
(* physical registers.                                                     *)
(***************************************************************************)
EXTENDS RenameRob, IntegerLemmas

(* A priority encoder picks a lane of the set, the highest or the lowest.  *)
LEMMA LaneMember ==
    ASSUME NEW S \in SUBSET Lanes, S # {}
    PROVE  Max(S) \in S /\ Min(S) \in S
<1>1. Lanes \subseteq {0, 1}
  BY SizeAssumption DEF Lanes
<1>2. S = {0} \/ S = {1} \/ S = {0, 1}
  BY <1>1
<1>3. \E x \in S : \A y \in S : x >= y
  BY <1>2
<1>4. \E x \in S : \A y \in S : x <= y
  BY <1>2
<1> QED
  BY <1>3, <1>4 DEF Max, Min

-----------------------------------------------------------------------------
(* Reading a map copy or an allocation list that was never written would   *)
(* put an undefined value into the map table or the free list, so the type *)
(* invariant needs to know that the tags in use have been written.         *)

TagDefined(t) == br_copies[t] \in [LRegs -> PRegs] /\ allocation_lists[t] \in SUBSET PRegs

Defined ==
    /\ \A s \in rob_val : IsBranch(rob_uop[s]) => TagDefined(rob_uop[s].br_tag)
    /\ brinfo.valid => TagDefined(brinfo.tag)

TypeInv == TypeOK /\ Defined

(* A lane that dispatches gets a register that is free and, if it is a     *)
(* branch, a tag no branch in flight holds.                                *)
LEMMA FromFreeList ==
    ASSUME TypeOK, NEW dis \in Bundles, CanDispatch(dis), NEW w \in Fires(dis)
    PROVE  /\ dis[w] \in DecUop
           /\ IsFix(dis[w]) => requested_preg(w) \in free_list
           /\ IsBranch(dis[w]) => br_tag(dis, w) \in Tags \ branch_mask
<1>1. dis[w] \in DecUop
  BY DecUopsAssumption DEF Bundles, Fires
<1>2. ASSUME IsFix(dis[w]) PROVE requested_preg(w) \in free_list
  <2>1. can_allocate(w)
    BY <1>2 DEF CanDispatch
  <2>2. free_list \in SUBSET Nat
    BY SizeAssumption DEF TypeOK, PRegs
  <2>3. CASE w = 0
    BY <2>1, <2>2, <2>3, MinMember DEF can_allocate, requested_preg, First
  <2>4. CASE w # 0
    BY <2>1, <2>2, <2>4, MinMember DEF can_allocate, requested_preg, First, Second
  <2> QED
    BY <2>3, <2>4
<1>3. ASSUME IsBranch(dis[w]) PROVE br_tag(dis, w) \in Tags \ branch_mask
  <2> DEFINE idle == Tags \ branch_mask
  <2>1. curr_br_mask(dis, w) # Tags
    BY <1>3 DEF CanDispatch
  <2>2. idle \in SUBSET Nat /\ branch_mask \subseteq Tags
    BY SizeAssumption DEF TypeOK, Tags
  <2>3. CASE Older(dis, w) \cap Branches(dis) = {}
    <3>1. idle # {}
      BY <2>1, <2>2, <2>3 DEF curr_br_mask
    <3> QED
      BY <2>2, <2>3, <3>1, MinMember DEF br_tag, First
  <2>4. CASE Older(dis, w) \cap Branches(dis) # {}
    <3>1. PICK x \in Older(dis, w) \cap Branches(dis) : TRUE
      BY <2>4
    <3>2. Older(dis, w) = {x} /\ Older(dis, x) = {}
      BY <3>1, SizeAssumption DEF Older, Fires, Lanes
    <3>3. curr_br_mask(dis, w) = branch_mask \cup {First(idle)}
      BY <3>1, <3>2 DEF curr_br_mask, br_tag
    <3>4. idle \ {Min(idle)} # {}
      <4>1. x \in Fires(dis) /\ IsBranch(dis[x])
        BY <3>1 DEF Branches
      <4>2. curr_br_mask(dis, x) = branch_mask
        BY <3>2 DEF curr_br_mask
      <4>3. idle # {}
        BY <2>2, <4>1, <4>2 DEF CanDispatch
      <4>4. Min(idle) \in idle
        BY <2>2, <4>3, MinMember
      <4> QED
        BY <2>1, <2>2, <3>3, <4>4 DEF First
    <3>5. br_tag(dis, w) = Second(idle)
      BY <2>4 DEF br_tag
    <3>6. Min(idle \ {Min(idle)}) \in idle
      BY <2>2, <3>4, MinMember
    <3> QED
      BY <3>5, <3>6 DEF Second
  <2> QED
    BY <2>3, <2>4
<1> QED
  BY <1>1, <1>2, <1>3

(* Whatever lane of the bundle wrote a register last, or none did, the map *)
(* table names a physical register for it.                                 *)
LEMMA MapAfterType ==
    ASSUME TypeOK, NEW dis \in Bundles, CanDispatch(dis), NEW w, NEW l \in LRegs
    PROVE  MapAfter(dis, w, l) \in PRegs
<1> DEFINE writers == {x \in Allocs(dis) : x <= w /\ dis[x].ldst = l}
<1>1. CASE writers = {}
  BY <1>1 DEF MapAfter, TypeOK
<1>2. CASE writers # {}
  <2>1. writers \in SUBSET Lanes
    BY DEF Allocs, Fires
  <2>2. Max(writers) \in writers
    BY <1>2, <2>1, LaneMember
  <2>3. Max(writers) \in Fires(dis) /\ IsFix(dis[Max(writers)])
    BY <2>2 DEF Allocs, LdstVal
  <2>4. requested_preg(Max(writers)) \in free_list
    BY <2>3, FromFreeList
  <2>5. MapAfter(dis, w, l) = requested_preg(Max(writers))
    BY <1>2 DEF MapAfter
  <2> QED
    BY <2>4, <2>5 DEF TypeOK
<1> QED
  BY <1>1, <1>2

(* What dispatch writes into the reorder buffer has its type.              *)
LEMMA DisUopType ==
    ASSUME TypeOK, NEW dis \in Bundles, CanDispatch(dis), NEW w \in Fires(dis)
    PROVE  DisUop(dis, w) \in RobUop
<1>1. dis[w] \in DecUop
  BY FromFreeList
<1>2. LRegs \subseteq PRegs /\ 0 \in Tags
  BY SizeAssumption DEF LRegs, PRegs, Tags
<1>3. pdst(dis, w) \in PRegs
  BY <1>1, <1>2, FromFreeList DEF pdst, LdstVal, DecUop, TypeOK
<1>4. stale_pdst(dis, w) \in PRegs
  <2> DEFINE l == dis[w].ldst
             matches == {x \in Allocs(dis) : x < w /\ dis[x].ldst = l}
  <2>1. l \in LRegs /\ map_table[l] \in PRegs
    BY <1>1 DEF DecUop, TypeOK
  <2>2. CASE matches = {}
    BY <2>1, <2>2 DEF stale_pdst, Bypassed
  <2>3. CASE matches # {}
    <3>1. matches \in SUBSET Lanes
      BY DEF Allocs, Fires
    <3>2. Min(matches) \in matches
      BY <2>3, <3>1, LaneMember
    <3>3. Min(matches) \in Fires(dis) /\ LdstVal(dis[Min(matches)]) /\ IsFix(dis[Min(matches)])
      BY <3>2 DEF Allocs, LdstVal
    <3>4. pdst(dis, Min(matches)) \in PRegs
      BY <3>3, FromFreeList DEF pdst, TypeOK
    <3> QED
      BY <2>1, <2>3, <3>4 DEF stale_pdst, Bypassed
  <2> QED
    BY <2>2, <2>3
<1>5. IsBranch(dis[w]) => br_tag(dis, w) \in Tags
  BY FromFreeList
<1>6. curr_br_mask(dis, w) \subseteq Tags
  <2>1. \A x \in Older(dis, w) \cap Branches(dis) : br_tag(dis, x) \in Tags
    BY FromFreeList DEF Branches, Older
  <2> QED
    BY <2>1 DEF curr_br_mask, TypeOK
<1>7. GetNewBrMask(curr_br_mask(dis, w)) \in SUBSET Tags
  BY <1>6 DEF GetNewBrMask
<1> QED
  BY <1>1, <1>2, <1>3, <1>4, <1>5, <1>7 DEF DisUop, RobUop, DecUop

(* The clock edge keeps the rename stage's registers in their types.       *)
LEMMA RenameType ==
    ASSUME TypeInv, NEW dis \in Bundles, CanDispatch(dis),
           RenameMapTable(dis), RenameFreeList(dis), BranchMaskGenerationLogic(dis)
    PROVE  /\ map_table' \in [LRegs -> PRegs]
           /\ br_copies' \in [Tags -> [LRegs -> PRegs \cup {Undef}]]
           /\ free_list' \subseteq PRegs
           /\ allocation_lists' \in [Tags -> (SUBSET PRegs) \cup {{Undef}}]
           /\ branch_mask' \subseteq Tags
           /\ \A t \in Tags : TagDefined(t) => TagDefined(t)'
           /\ \A t \in Tags, w \in Branches(dis) :
                 t = br_tag(dis, w) /\ ~brinfo.mispredict => TagDefined(t)'
<1> USE DEF TypeInv
<1>1. brinfo.mispredict => /\ brinfo.tag \in Tags /\ TagDefined(brinfo.tag)
                           /\ brinfo.exe_mask \subseteq Tags
  <2>1. CASE brinfo = NoBr
    BY <2>1 DEF NoBr
  <2>2. CASE brinfo \in BrInfo
    BY <2>2 DEF BrInfo, Defined
  <2> QED
    BY <2>1, <2>2 DEF TypeOK
<1>2. \A w \in Branches(dis) : br_tag(dis, w) \in Tags
  BY FromFreeList DEF Branches
<1>3. \A s \in RolledBack : rob_uop[s] \in RobUop
  BY DEF RolledBack, TypeOK
<1>4. map_table' \in [LRegs -> PRegs]
  <2> SUFFICES ASSUME NEW l \in LRegs
               PROVE  map_table'[l] \in PRegs
    BY DEF RenameMapTable
  <2> DEFINE undo == {w \in Lanes : <<rob_tail, w>> \in Unwound
                                     /\ rob_uop[<<rob_tail, w>>].ldst = l}
  <2>1. CASE brinfo.mispredict
    BY <1>1, <2>1 DEF RenameMapTable, TagDefined
  <2>2. CASE ~brinfo.mispredict /\ undo # {}
    <3>1. Min(undo) \in undo
      BY <2>2, LaneMember
    <3>2. rob_uop[<<rob_tail, Min(undo)>>] \in RobUop
      BY <1>3, <3>1 DEF Unwound
    <3>3. map_table'[l] = rob_uop[<<rob_tail, Min(undo)>>].stale_pdst
      BY <2>2 DEF RenameMapTable
    <3> QED
      BY <3>2, <3>3 DEF RobUop
  <2>3. CASE ~brinfo.mispredict /\ undo = {}
    <3>1. map_table'[l] = MapAfter(dis, Width - 1, l)
      BY <2>3 DEF RenameMapTable
    <3> QED
      BY <3>1, MapAfterType
  <2> QED
    BY <2>1, <2>2, <2>3
<1>5. /\ br_copies' \in [Tags -> [LRegs -> PRegs \cup {Undef}]]
      /\ \A t \in Tags : br_copies[t] \in [LRegs -> PRegs] => br_copies'[t] \in [LRegs -> PRegs]
      /\ \A w \in Branches(dis) : br_copies'[br_tag(dis, w)] \in [LRegs -> PRegs]
  <2>1. ASSUME NEW w PROVE [l \in LRegs |-> MapAfter(dis, w, l)] \in [LRegs -> PRegs]
    BY MapAfterType
  <2> HIDE DEF TypeInv
  <2>2. br_copies \in [Tags -> [LRegs -> PRegs \cup {Undef}]]
    BY DEF TypeInv, TypeOK
  <2>3. [LRegs -> PRegs] \subseteq [LRegs -> PRegs \cup {Undef}]
    OBVIOUS
  <2> DEFINE brs(t) == {w \in Branches(dis) : br_tag(dis, w) = t}
             copy(t) == [l \in LRegs |-> MapAfter(dis, Max(brs(t)), l)]
  <2>4. br_copies' = [t \in Tags |-> IF brs(t) = {} THEN br_copies[t] ELSE copy(t)]
    BY DEF RenameMapTable
  <2>5. \A t \in Tags : copy(t) \in [LRegs -> PRegs]
    BY <2>1
  <2>6. \A w \in Branches(dis) : brs(br_tag(dis, w)) # {}
    OBVIOUS
  <2> HIDE DEF brs, copy
  <2> QED
    BY <1>2, <2>2, <2>3, <2>4, <2>5, <2>6
<1>6. JustAllocated(dis, 0) \subseteq free_list /\ \A k : JustAllocated(dis, k) \subseteq free_list
  BY FromFreeList DEF JustAllocated, Allocs, LdstVal
<1>7. Enqueued \subseteq PRegs
  <2>1. Committed \subseteq rob_val
    BY DEF Committed, will_commit, can_commit, rob_head_vals
  <2>2. Committed \cup Unwound \subseteq rob_val
    BY <2>1 DEF Unwound, RolledBack
  <2>3. \A s \in Committed \cup Unwound : rob_uop[s] \in RobUop
    BY <2>2 DEF TypeOK
  <2> QED
    BY <2>3 DEF Enqueued, RobUop
<1>8. free_list' \subseteq PRegs
  BY <1>1, <1>6, <1>7 DEF RenameFreeList, TagDefined, TypeOK
<1>9. /\ allocation_lists' \in [Tags -> (SUBSET PRegs) \cup {{Undef}}]
      /\ \A t \in Tags : allocation_lists[t] \in SUBSET PRegs => allocation_lists'[t] \in SUBSET PRegs
      /\ \A w \in Branches(dis) : ~brinfo.mispredict => allocation_lists'[br_tag(dis, w)] \in SUBSET PRegs
  <2>1. allocation_lists \in [Tags -> (SUBSET PRegs) \cup {{Undef}}] /\ free_list \subseteq PRegs
    BY DEF TypeOK
  <2>2. {Undef} \notin SUBSET PRegs
    BY SizeAssumption DEF PRegs, Undef
  <2> HIDE DEF TypeInv
  <2>3. CASE brinfo.mispredict
    BY <2>1, <2>2, <2>3 DEF RenameFreeList
  <2>4. CASE ~brinfo.mispredict
    <3> DEFINE brs(t)   == {w \in Branches(dis) : br_tag(dis, w) = t}
               fresh(t) == JustAllocated(dis, Max(brs(t)) + 1)
               all      == JustAllocated(dis, 0)
    <3>1. allocation_lists' =
            [t \in Tags |-> IF brs(t) # {} THEN fresh(t)
                            ELSE IF allocation_lists[t] = {Undef} THEN {Undef}
                            ELSE allocation_lists[t] \cup all]
      BY <2>4 DEF RenameFreeList
    <3>2. all \in SUBSET PRegs /\ \A t \in Tags : fresh(t) \in SUBSET PRegs
      BY <1>6, <2>1
    <3>3. \A w \in Branches(dis) : brs(br_tag(dis, w)) # {}
      OBVIOUS
    <3> HIDE DEF brs, fresh, all
    <3> QED
      BY <1>2, <2>1, <2>2, <3>1, <3>2, <3>3
  <2> QED
    BY <2>3, <2>4
<1>10. branch_mask' \subseteq Tags
  <2>1. \A x \in Older(dis, Width) \cap Branches(dis) : br_tag(dis, x) \in Tags
    BY FromFreeList DEF Branches, Older
  <2>2. curr_br_mask(dis, Width) \subseteq Tags
    BY <2>1 DEF curr_br_mask, TypeOK
  <2> QED
    BY <1>1, <2>2 DEF BranchMaskGenerationLogic, GetNewBrMask
<1> QED
  BY <1>4, <1>5, <1>8, <1>9, <1>10 DEF TagDefined

(* The clock edge keeps the reorder buffer's registers in their types.     *)
LEMMA RobType ==
    ASSUME TypeInv, NEW dis \in Bundles, CanDispatch(dis), NEW wb, NEW xcpt \in SUBSET rob_val,
           Rob(dis, wb, xcpt)
    PROVE  /\ rob_val' \subseteq Slots /\ rob_bsy' \subseteq rob_val' /\ rob_exception' \subseteq rob_val'
           /\ rob_uop' \in [Slots -> RobUop \cup {NoUop}]
           /\ \A s \in rob_val' : rob_uop'[s] \in RobUop
           /\ rob_head' \in Rows /\ rob_tail' \in Rows
           /\ rob_state' \in {"s_reset", "s_normal", "s_rollback", "s_wait_till_empty"}
           /\ flush_pipeline' \in BOOLEAN
<1> USE DEF TypeInv
<1>1. Dispatched(dis) \subseteq Slots
  BY DEF Dispatched, Fires, Slots, TypeOK
<1>2. rob_val' \subseteq Slots
  BY <1>1 DEF Rob, RobEntries, TypeOK
<1>3. rob_bsy' \subseteq rob_val' /\ rob_exception' \subseteq rob_val'
  BY DEF Rob, RobEntries
<1>4. \A s \in Dispatched(dis) : DisUop(dis, s[2]) \in RobUop
  BY DisUopType DEF Dispatched
<1>5. \A s \in rob_val : [rob_uop[s] EXCEPT !.br_mask = GetNewBrMask(@)] \in RobUop
  BY DEF TypeOK, RobUop, GetNewBrMask
<1>6. \A s \in rob_val' : s \in Dispatched(dis) \/ s \in rob_val
  BY DEF Rob, RobEntries
<1>7. /\ rob_uop' \in [Slots -> RobUop \cup {NoUop}]
      /\ \A s \in rob_val' : rob_uop'[s] \in RobUop
  <2> DEFINE dm == Dispatched(dis)
             fresh(s) == DisUop(dis, s[2])
             kept(s)  == [rob_uop[s] EXCEPT !.br_mask = GetNewBrMask(@)]
  <2>1. rob_uop' = [s \in Slots |-> IF s \in dm THEN fresh(s)
                                    ELSE IF s \in rob_val' THEN kept(s) ELSE NoUop]
    BY DEF Rob, RobEntries
  <2>2. /\ \A s \in dm : fresh(s) \in RobUop
        /\ \A s \in rob_val : kept(s) \in RobUop
        /\ \A s \in rob_val' : s \in dm \/ s \in rob_val
    BY <1>4, <1>5, <1>6
  <2> HIDE DEF dm, fresh, kept, TypeInv
  <2> QED
    BY <1>2, <2>1, <2>2
<1>8. \A r \in Rows : WrapInc(r) \in Rows /\ WrapDec(r) \in Rows
  BY SizeAssumption DEF Rows, WrapInc, WrapDec
<1>9. rob_head' \in Rows
  BY <1>8 DEF Rob, RobHead, TypeOK
<1>10. rob_tail' \in Rows
  <2>1. brinfo.mispredict => brinfo.rob_idx[1] \in Rows
    <3>1. CASE brinfo = NoBr
      BY <3>1 DEF NoBr
    <3>2. CASE brinfo \in BrInfo
      BY <3>2 DEF BrInfo, Slots
    <3> QED
      BY <3>1, <3>2 DEF TypeOK
  <2> QED
    BY <1>8, <2>1 DEF Rob, RobTail, TypeOK
<1>11. rob_state' \in {"s_reset", "s_normal", "s_rollback", "s_wait_till_empty"}
  BY DEF Rob, RobFSM, TypeOK
<1>12. flush_pipeline' \in BOOLEAN
  BY DEF Rob, flush_val, exception_thrown
<1> QED
  BY <1>2, <1>3, <1>7, <1>9, <1>10, <1>11, <1>12

(* The branch unit only ever names a branch in flight.                     *)
LEMMA BranchUnitType ==
    ASSUME TypeInv, NEW exe \in AtMostOne(ToExecute), NEW mispredict \in BOOLEAN,
           BranchUnit(exe, mispredict)
    PROVE  /\ brinfo' \in {NoBr} \cup BrInfo
           /\ brinfo'.valid => /\ brinfo'.tag \in Tags
                               /\ TagDefined(brinfo'.tag)
<1> USE DEF TypeInv
<1>1. CASE brinfo' = NoBr
  BY <1>1 DEF NoBr
<1>2. CASE brinfo' # NoBr
  <2> DEFINE s == CHOOSE x \in exe : TRUE
  <2>1. exe # {} /\ exe \subseteq ToExecute
    BY <1>2 DEF BranchUnit, AtMostOne
  <2>2. s \in rob_val /\ IsBranch(rob_uop[s]) /\ s \in Slots
    BY <2>1 DEF ToExecute, Unresolved, TypeOK
  <2>3. rob_uop[s] \in RobUop /\ TagDefined(rob_uop[s].br_tag)
    BY <2>2 DEF TypeOK, Defined
  <2>4. brinfo' = [valid |-> TRUE, mispredict |-> mispredict,
                   tag |-> rob_uop[s].br_tag,
                   exe_mask |-> GetNewBrMask(rob_uop[s].br_mask), rob_idx |-> s]
    BY <1>2 DEF BranchUnit
  <2>5. rob_uop[s].br_tag \in Tags /\ GetNewBrMask(rob_uop[s].br_mask) \in SUBSET Tags
    BY <2>3 DEF RobUop, GetNewBrMask
  <2> HIDE DEF s
  <2> QED
    BY <2>2, <2>3, <2>4, <2>5 DEF BrInfo
<1> QED
  BY <1>1, <1>2

(* The type invariant is inductive once it says that tags in use are       *)
(* defined.                                                                *)
LEMMA TypeInvStep == TypeInv /\ [Next]_vars => TypeInv'
<1> SUFFICES ASSUME TypeInv, [Next]_vars PROVE TypeInv'
  OBVIOUS
<1>1. CASE UNCHANGED vars
  BY <1>1 DEF vars, renVars, robVars, TypeInv, TypeOK, Defined, TagDefined
<1>2. CASE Next
  <2>1. PICK dis \in Bundles, wb \in AtMostOne(CanWriteBack), xcpt \in AtMostOne(CanFault),
             exe \in AtMostOne(ToExecute), mispredict \in BOOLEAN :
                Clock(dis, wb, xcpt, exe, mispredict)
    BY <1>2 DEF Next
  <2>2. CanDispatch(dis) /\ Rob(dis, wb, xcpt) /\ BranchUnit(exe, mispredict)
        /\ RenameMapTable(dis) /\ RenameFreeList(dis) /\ BranchMaskGenerationLogic(dis)
    BY <2>1 DEF Clock
  <2>3. xcpt \in SUBSET rob_val
    BY DEF AtMostOne, CanFault
  <2>4. TypeOK'
    BY <2>2, <2>3, RenameType, RobType, BranchUnitType DEF TypeOK
  <2>5. \A t \in Tags : TagDefined(t) => TagDefined(t)'
    BY <2>2, RenameType
  <2>6. (brinfo.valid => TagDefined(brinfo.tag))'
    <3> SUFFICES ASSUME brinfo'.valid PROVE TagDefined(brinfo.tag)'
      OBVIOUS
    <3>1. brinfo'.tag \in Tags /\ TagDefined(brinfo'.tag)
      BY <2>2, BranchUnitType
    <3> QED
      BY <2>5, <3>1 DEF TagDefined
  <2>7. ASSUME NEW s \in rob_val', IsBranch(rob_uop'[s])
        PROVE  TagDefined(rob_uop[s].br_tag)'
    <3>1. CASE s \in Dispatched(dis)
      <4>1. PICK w \in Fires(dis) : s = <<rob_tail, w>>
        BY <3>1 DEF Dispatched
      <4>2. s \in Slots /\ s[2] = w
        BY <4>1 DEF TypeInv, TypeOK, Fires, Slots
      <4>3. rob_uop'[s] = DisUop(dis, w)
        BY <2>2, <3>1, <4>2 DEF Rob, RobEntries
      <4>4. w \in Branches(dis) /\ rob_uop'[s].br_tag = br_tag(dis, w)
        BY <2>7, <4>3 DEF DisUop, IsBranch, Branches
      <4>5. ~brinfo.mispredict
        BY <2>2, <4>1 DEF CanDispatch
      <4>6. br_tag(dis, w) \in Tags
        BY <2>2, <4>4, FromFreeList DEF Branches, TypeInv
      <4>7. \A t \in Tags : t = br_tag(dis, w) => TagDefined(t)'
        BY <2>2, <4>4, <4>5, RenameType
      <4> QED
        BY <4>4, <4>6, <4>7 DEF TagDefined
    <3>2. CASE s \notin Dispatched(dis)
      <4>1. s \in rob_val /\ s \in Slots
        BY <2>2, <3>2 DEF Rob, RobEntries, TypeInv, TypeOK
      <4>2. rob_uop'[s] = [rob_uop[s] EXCEPT !.br_mask = GetNewBrMask(@)]
        BY <2>2, <3>2, <4>1 DEF Rob, RobEntries
      <4>3. rob_uop[s] \in RobUop
        BY <4>1 DEF TypeInv, TypeOK
      <4>4. rob_uop'[s].kind = rob_uop[s].kind /\ rob_uop'[s].br_tag = rob_uop[s].br_tag
        BY <4>2, <4>3 DEF RobUop
      <4>5. TagDefined(rob_uop[s].br_tag) /\ rob_uop[s].br_tag \in Tags
        BY <2>7, <4>1, <4>3, <4>4 DEF TypeInv, Defined, IsBranch, RobUop
      <4> QED
        BY <2>5, <4>4, <4>5 DEF TagDefined
    <3> QED
      BY <3>1, <3>2
  <2> QED
    BY <2>4, <2>6, <2>7 DEF TypeInv, Defined
<1> QED
  BY <1>1, <1>2

LEMMA TypeInvStart == Init => TypeInv
<1> SUFFICES ASSUME Init PROVE TypeInv
  OBVIOUS
<1>1. 0 \in PRegs /\ 0 \in Rows
  BY SizeAssumption DEF PRegs, Rows
<1>2. TypeOK
  BY <1>1 DEF Init, TypeOK
<1>3. Defined
  BY DEF Init, Defined, NoBr
<1> QED
  BY <1>2, <1>3 DEF TypeInv

(* The registers of rename and reorder buffer always hold values of their  *)
(* types: no undefined map copy or allocation list is ever restored from.  *)
THEOREM TypeCorrect == Spec => []TypeOK
<1>1. TypeInv => TypeOK
  BY DEF TypeInv
<1> QED
  BY <1>1, TypeInvStart, TypeInvStep, PTL DEF Spec

-----------------------------------------------------------------------------
(* The order of the instructions in flight: which rows of the reorder      *)
(* buffer they are in, which branches each of them waits for, and who may  *)
(* raise an exception.                                                     *)

NotUnwinding == rob_state # "s_rollback"

\* In the first cycle of an unwinding nothing has been unwound yet.
Settled == NotUnwinding \/ flush_pipeline

\* Distances round the buffer, and the rows in use between a head and a tail.
Dist(h, r) == IF r >= h THEN r - h ELSE r - h + NumRows
Filled(v, h, t) == \A r \in Rows : (\E s \in v : s[1] = r) <=> Dist(h, r) < Dist(h, t)

Exact ==
    /\ branch_mask = {rob_uop[b].br_tag : b \in Unresolved}
    /\ \A s \in rob_val : rob_uop[s].br_mask =
           {rob_uop[b].br_tag : b \in {c \in Unresolved : Precedes(c, s)}}
    /\ \A b, c \in Unresolved : b # c => rob_uop[b].br_tag # rob_uop[c].br_tag

InOrder == Settled => Exact /\ Filled(rob_val, rob_head, rob_tail)

\* What the branch unit found out in the last cycle is about a branch in flight.
Resolving ==
    brinfo.valid =>
        /\ Settled
        /\ brinfo.rob_idx \in Unresolved
        /\ brinfo.tag = rob_uop[brinfo.rob_idx].br_tag
        /\ brinfo.exe_mask = rob_uop[brinfo.rob_idx].br_mask

\* A unique instruction is the youngest, and the buffer drains behind it.
Alone ==
    NotUnwinding =>
        \A s \in rob_val : IsUnique(rob_uop[s]) =>
            /\ rob_state = "s_wait_till_empty"
            /\ \A t \in rob_val : t = s \/ Precedes(t, s)

\* The cycle after a flush: nothing is left, or everything is about to be unwound.
Flushing == flush_pipeline => IF NotUnwinding THEN rob_val = {} ELSE rob_tail # rob_head

\* Past its first cycle an unwinding has no branch in flight.
Unwinding == ~Settled => branch_mask = {}

OrderInv == RowsOccupied /\ InOrder /\ Resolving /\ Alone /\ Flushing /\ Unwinding

-----------------------------------------------------------------------------
(* Distances round the buffer.                                             *)

Before(h, s, t) == Dist(h, s[1]) < Dist(h, t[1]) \/ (s[1] = t[1] /\ s[2] < t[2])

LEMMA DistIs ==
    ASSUME NEW h \in Rows, NEW r \in Rows
    PROVE  (r - h + NumRows) % NumRows = Dist(h, r)
<1> DEFINE d == r - h + NumRows
           k == IF r >= h THEN 1 ELSE 0
<1>1. NumRows \in Nat \ {0} /\ d \in Int
  BY SizeAssumption DEF Rows
<1>2. k \in Int /\ Dist(h, r) \in 0 .. NumRows - 1 /\ d = k * NumRows + Dist(h, r)
  BY SizeAssumption DEF Rows, Dist
<1> HIDE DEF d, k
<1>3. (d % NumRows) = Dist(h, r)
  BY <1>1, <1>2, QuotientIs, Zenon
<1> QED
  BY <1>3 DEF d

LEMMA Distances ==
    ASSUME NEW h \in Rows, NEW r \in Rows
    PROVE  /\ Dist(h, r) \in 0 .. NumRows - 1
           /\ Dist(h, h) = 0
           /\ Dist(h, r) = 0 => r = h
           /\ WrapInc(r) \in Rows /\ WrapDec(r) \in Rows
           /\ WrapInc(r) # h => Dist(h, WrapInc(r)) = Dist(h, r) + 1
           /\ WrapInc(r) = h => Dist(h, r) = NumRows - 1
           /\ r # h => Dist(h, WrapDec(r)) = Dist(h, r) - 1
           /\ r # h => Dist(WrapInc(h), r) = Dist(h, r) - 1
           /\ Dist(WrapInc(h), h) = NumRows - 1
BY SizeAssumption DEF Rows, Dist, WrapInc, WrapDec

LEMMA DistInjective ==
    ASSUME NEW h \in Rows, NEW r \in Rows, NEW q \in Rows, Dist(h, r) = Dist(h, q)
    PROVE  r = q
BY SizeAssumption DEF Rows, Dist

LEMMA BeforeOrder ==
    ASSUME NEW h \in Rows, NEW s \in Slots, NEW t \in Slots
    PROVE  /\ ~Before(h, s, s)
           /\ ~(Before(h, s, t) /\ Before(h, t, s))
           /\ s # t => Before(h, s, t) \/ Before(h, t, s)
<1>1. /\ s[1] \in Rows /\ t[1] \in Rows /\ s[2] \in Int /\ t[2] \in Int
      /\ s = <<s[1], s[2]>> /\ t = <<t[1], t[2]>>
  BY SizeAssumption DEF Slots, Lanes
<1>2. Dist(h, s[1]) \in Int /\ Dist(h, t[1]) \in Int
  BY <1>1, Distances
<1>3. Dist(h, s[1]) = Dist(h, t[1]) => s[1] = t[1]
  BY <1>1, DistInjective
<1> HIDE DEF Dist
<1>4. s[1] = t[1] /\ s[2] = t[2] => s = t
  BY <1>1
<1> QED
  BY <1>1, <1>2, <1>3, <1>4 DEF Before

LEMMA BeforeTransitive ==
    ASSUME NEW h \in Rows, NEW s \in Slots, NEW t \in Slots, NEW u \in Slots,
           Before(h, s, t), Before(h, t, u)
    PROVE  Before(h, s, u)
<1>1. s[1] \in Rows /\ t[1] \in Rows /\ u[1] \in Rows /\ s[2] \in Int /\ t[2] \in Int /\ u[2] \in Int
  BY SizeAssumption DEF Slots, Lanes
<1>2. Dist(h, s[1]) \in Int /\ Dist(h, t[1]) \in Int /\ Dist(h, u[1]) \in Int
  BY <1>1, Distances
<1> QED
  BY <1>1, <1>2 DEF Before

(* Moving the head on keeps the order of what is not in the row it leaves. *)
LEMMA BeforeMoves ==
    ASSUME NEW h \in Rows, NEW s \in Slots, NEW t \in Slots, s[1] # h, t[1] # h
    PROVE  Before(WrapInc(h), s, t) <=> Before(h, s, t)
<1>1. s[1] \in Rows /\ t[1] \in Rows
  BY DEF Slots
<1>2. /\ Dist(h, s[1]) \in Int /\ Dist(h, t[1]) \in Int
      /\ Dist(WrapInc(h), s[1]) = Dist(h, s[1]) - 1
      /\ Dist(WrapInc(h), t[1]) = Dist(h, t[1]) - 1
  BY <1>1, Distances
<1> QED
  BY <1>2 DEF Before

LEMMA PrecedesIs ==
    ASSUME TypeOK
    PROVE  /\ \A r \in Rows : FromHead(r) = Dist(rob_head, r)
           /\ \A s, t \in Slots : Precedes(s, t) <=> Before(rob_head, s, t)
<1>1. rob_head \in Rows
  BY DEF TypeOK
<1>2. \A r \in Rows : FromHead(r) = Dist(rob_head, r)
  BY <1>1, DistIs DEF FromHead
<1> QED
  BY <1>2 DEF Precedes, Before, Slots

-----------------------------------------------------------------------------
(* The rows in use, as sets of slots between a head and a tail.            *)

Within(v, h, t) == \A s \in v : s[1] = t \/ Dist(h, s[1]) < Dist(h, t)

LEMMA RowsAre ==
    ASSUME TypeOK
    PROVE  RowsOccupied <=> IF NotUnwinding THEN Filled(rob_val, rob_head, rob_tail)
                                            ELSE Within(rob_val, rob_head, rob_tail)
<1>1. rob_head \in Rows /\ rob_tail \in Rows /\ \A s \in rob_val : s[1] \in Rows
  BY DEF TypeOK, Slots
<1>2. \A r \in Rows : FromHead(r) = Dist(rob_head, r)
  BY PrecedesIs
<1> DEFINE occupied == {s[1] : s \in rob_val}
           used     == {r \in Rows : FromHead(r) < FromHead(rob_tail)}
<1>3. \A r \in Rows : /\ r \in used <=> Dist(rob_head, r) < Dist(rob_head, rob_tail)
                      /\ r \in occupied <=> \E s \in rob_val : s[1] = r
  BY <1>1, <1>2
<1>4. occupied \subseteq Rows /\ used \subseteq Rows
  BY <1>1
<1>5. RowsOccupied <=> IF NotUnwinding THEN occupied = used ELSE occupied \subseteq used \cup {rob_tail}
  BY DEF RowsOccupied, NotUnwinding
<1> HIDE DEF used, occupied
<1>6. occupied = used <=> Filled(rob_val, rob_head, rob_tail)
  BY <1>3, <1>4 DEF Filled
<1>7. occupied \subseteq used \cup {rob_tail} <=> Within(rob_val, rob_head, rob_tail)
  BY <1>1, <1>3, <1>4 DEF Within
<1> QED
  BY <1>5, <1>6, <1>7

(* Committing all or some of the head's row.                               *)
LEMMA FilledCommit ==
    ASSUME NEW h \in Rows, NEW t \in Rows, NEW v \in SUBSET Slots, Filled(v, h, t),
           NEW c \in SUBSET v, \A s \in c : s[1] = h,
           NEW h1, h1 = IF c # {} /\ c = {s \in v : s[1] = h} THEN WrapInc(h) ELSE h
    PROVE  Filled(v \ c, h1, t)
<1> SUFFICES ASSUME NEW r \in Rows
             PROVE  (\E s \in v \ c : s[1] = r) <=> Dist(h1, r) < Dist(h1, t)
  BY DEF Filled
<1>1. (\E s \in v : s[1] = r) <=> Dist(h, r) < Dist(h, t)
  BY DEF Filled
<1>2. CASE c # {} /\ c = {s \in v : s[1] = h}
  <2>1. Dist(h, h) < Dist(h, t)
    BY <1>2 DEF Filled
  <2>2. t # h /\ Dist(WrapInc(h), t) = Dist(h, t) - 1 /\ Dist(h, t) \in 0 .. NumRows - 1
    BY <2>1, Distances
  <2>3. CASE r = h
    <3>1. Dist(WrapInc(h), r) = NumRows - 1
      BY <2>3, Distances
    <3> QED
      BY <1>2, <2>2, <2>3, <3>1, SizeAssumption
  <2>4. CASE r # h
    <3>1. Dist(WrapInc(h), r) = Dist(h, r) - 1 /\ Dist(h, r) \in 0 .. NumRows - 1
      BY <2>4, Distances
    <3>2. (\E s \in v \ c : s[1] = r) <=> \E s \in v : s[1] = r
      BY <1>2, <2>4
    <3> QED
      BY <1>1, <1>2, <2>2, <3>1, <3>2, SizeAssumption
  <2> QED
    BY <2>3, <2>4
<1>3. CASE ~(c # {} /\ c = {s \in v : s[1] = h})
  <2>1. (\E s \in v \ c : s[1] = r) <=> \E s \in v : s[1] = r
    BY <1>3
  <2> QED
    BY <1>1, <1>3, <2>1
<1> QED
  BY <1>2, <1>3

(* A mispredict keeps a branch and what is before it.                      *)
LEMMA FilledKill ==
    ASSUME NEW h \in Rows, NEW t \in Rows, NEW v \in SUBSET Slots, Filled(v, h, t), NEW b \in v
    PROVE  /\ WrapInc(b[1]) # h
           /\ Filled(v \ {s \in v : Before(h, b, s)}, h, WrapInc(b[1]))
<1>1. b[1] \in Rows /\ b \in Slots
  BY DEF Slots
<1>2. Dist(h, b[1]) < Dist(h, t)
  BY <1>1 DEF Filled
<1>3. Dist(h, t) \in 0 .. NumRows - 1 /\ Dist(h, b[1]) \in 0 .. NumRows - 1
  BY <1>1, Distances
<1>4. WrapInc(b[1]) # h
  BY <1>1, <1>2, <1>3, Distances, SizeAssumption
<1>5. Dist(h, WrapInc(b[1])) = Dist(h, b[1]) + 1
  BY <1>1, <1>4, Distances
<1>6. ASSUME NEW r \in Rows
      PROVE  (\E s \in v \ {x \in v : Before(h, b, x)} : s[1] = r) <=> Dist(h, r) < Dist(h, b[1]) + 1
  <2>1. Dist(h, r) \in 0 .. NumRows - 1
    BY Distances
  <2>2. CASE Dist(h, r) < Dist(h, b[1])
    <3>1. PICK s \in v : s[1] = r
      BY <1>2, <1>3, <2>1, <2>2, SizeAssumption DEF Filled
    <3>2. r # b[1]
      BY <2>1, <2>2
    <3>3. ~Before(h, b, s)
      BY <1>3, <2>1, <2>2, <3>1, <3>2, SizeAssumption DEF Before
    <3> QED
      BY <1>3, <2>1, <2>2, <3>1, <3>3, SizeAssumption
  <2>3. CASE r = b[1]
    <3>1. ~Before(h, b, b)
      BY <1>1, BeforeOrder
    <3> QED
      BY <1>3, <2>3, <3>1, SizeAssumption
  <2>4. CASE Dist(h, b[1]) < Dist(h, r)
    BY <1>3, <2>1, <2>4, SizeAssumption DEF Before
  <2>5. Dist(h, r) = Dist(h, b[1]) => r = b[1]
    BY <1>1, DistInjective
  <2> QED
    BY <1>3, <2>1, <2>2, <2>3, <2>4, <2>5, SizeAssumption
<1> QED
  BY <1>4, <1>5, <1>6 DEF Filled

(* Dispatching into the row of the tail.                                   *)
LEMMA FilledDispatch ==
    ASSUME NEW h \in Rows, NEW t \in Rows, NEW v \in SUBSET Slots, Filled(v, h, t), WrapInc(t) # h,
           NEW d \in SUBSET Slots, d # {}, \A s \in d : s[1] = t
    PROVE  Filled(v \cup d, h, WrapInc(t))
<1> SUFFICES ASSUME NEW r \in Rows
             PROVE  (\E s \in v \cup d : s[1] = r) <=> Dist(h, r) < Dist(h, WrapInc(t))
  BY DEF Filled
<1>1. (\E s \in v : s[1] = r) <=> Dist(h, r) < Dist(h, t)
  BY DEF Filled
<1>2. /\ Dist(h, r) \in 0 .. NumRows - 1 /\ Dist(h, t) \in 0 .. NumRows - 1
      /\ Dist(h, WrapInc(t)) = Dist(h, t) + 1
  BY Distances
<1>3. Dist(h, r) = Dist(h, t) => r = t
  BY DistInjective
<1>4. (\E s \in v \cup d : s[1] = r) <=> r = t \/ \E s \in v : s[1] = r
  OBVIOUS
<1> QED
  BY <1>1, <1>2, <1>3, <1>4, SizeAssumption

-----------------------------------------------------------------------------
(* The head of the buffer.                                                 *)

(* What commits is a front part of the head's row and is no longer busy.   *)
LEMMA Committing ==
    ASSUME TypeOK
    PROVE  /\ Committed \subseteq rob_val
           /\ \A s \in Committed : s[1] = rob_head /\ s \notin rob_bsy
           /\ Committed # {} => rob_state \in {"s_normal", "s_wait_till_empty"}
           /\ \A s \in Committed, t \in rob_val : t[1] = rob_head /\ t[2] < s[2] => t \in Committed
<1>1. \A s \in Committed : \E w \in Lanes : s = <<rob_head, w>> /\ will_commit(w)
  BY DEF Committed, HeadSlot
<1>2. \A w \in Lanes : will_commit(w) => /\ <<rob_head, w>> \in rob_val \ rob_bsy
                                         /\ rob_state \in {"s_normal", "s_wait_till_empty"}
  BY DEF will_commit, can_commit, rob_head_vals, HeadSlot, CommitNotBlocked
<1>3. ASSUME NEW s \in Committed, NEW t \in rob_val, t[1] = rob_head, t[2] < s[2]
      PROVE  t \in Committed
  <2>1. PICK w \in Lanes : s = <<rob_head, w>> /\ will_commit(w)
    BY <1>1
  <2>2. t[2] \in Lanes /\ t = <<rob_head, t[2]>>
    BY <1>3 DEF TypeOK, Slots
  <2>3. Lanes \subseteq {0, 1}
    BY SizeAssumption DEF Lanes
  <2>4. t[2] < w
    BY <1>3, <2>1
  <2>5. t[2] = 0
    <3>1. \A x, y \in {0, 1} : x < y => x = 0
      OBVIOUS
    <3>2. t[2] \in {0, 1} /\ w \in {0, 1}
      BY <2>2, <2>3
    <3> QED
      BY <2>4, <3>1, <3>2
  <2>6. can_commit(t[2]) /\ ~can_throw_exception(t[2])
    BY <1>3, <2>1, <2>2 DEF will_commit, CommitNotBlocked, rob_head_vals, HeadSlot
  <2>7. CommitNotBlocked(t[2])
    BY <2>1, <2>3, <2>5 DEF will_commit, CommitNotBlocked
  <2>8. will_commit(t[2])
    BY <2>6, <2>7 DEF will_commit
  <2> QED
    BY <2>2, <2>8 DEF Committed, HeadSlot
<1> QED
  BY <1>1, <1>2, <1>3

(* What throws is the first of the head's row, and nothing commits then.   *)
LEMMA Throwing ==
    ASSUME TypeOK, exception_thrown
    PROVE  /\ rob_state \in {"s_normal", "s_wait_till_empty"}
           /\ Committed = {}
           /\ \E s \in rob_exception :
                s[1] = rob_head /\ \A t \in rob_val : t[1] = rob_head => t = s \/ s[2] < t[2]
<1>1. Lanes = {0} \/ Lanes = {0, 1}
  BY SizeAssumption DEF Lanes
<1>2. PICK w \in Lanes : /\ can_throw_exception(w) /\ CommitNotBlocked(w)
                         /\ w > 0 => ~will_commit(w - 1)
  BY DEF exception_thrown
<1>3. rob_state \in {"s_normal", "s_wait_till_empty"}
  BY <1>2 DEF CommitNotBlocked
<1>4. ~will_commit(w)
  BY <1>2 DEF will_commit
<1>5. \A x \in Lanes : x < w => ~rob_head_vals(x)
  <2> SUFFICES ASSUME NEW x \in Lanes, x < w, rob_head_vals(x) PROVE FALSE
    OBVIOUS
  <2>1. x = 0 /\ w = 1
    BY <1>1
  <2>2. can_commit(x) /\ ~can_throw_exception(x)
    BY <1>2 DEF CommitNotBlocked
  <2>3. CommitNotBlocked(x)
    BY <1>1, <1>3, <2>1 DEF CommitNotBlocked
  <2>4. will_commit(0)
    BY <2>1, <2>2, <2>3 DEF will_commit
  <2>5. ~will_commit(w - 1)
    BY <1>2, <2>1
  <2>6. w - 1 = 0
    BY <2>1
  <2> QED
    BY <2>4, <2>5, <2>6
<1>6. \A x \in Lanes : ~will_commit(x)
  <2> SUFFICES ASSUME NEW x \in Lanes, will_commit(x) PROVE FALSE
    OBVIOUS
  <2>1. rob_head_vals(x) /\ CommitNotBlocked(x) /\ ~can_throw_exception(x)
    BY DEF will_commit, can_commit
  <2>2. ~(x < w) /\ x # w
    BY <1>2, <1>5, <2>1
  <2>3. w < x
    BY <1>1, <2>2
  <2> QED
    BY <1>2, <2>1, <2>3 DEF CommitNotBlocked, can_throw_exception
<1>7. /\ HeadSlot(w) \in rob_exception /\ HeadSlot(w)[1] = rob_head /\ HeadSlot(w)[2] = w
  BY <1>2 DEF can_throw_exception, HeadSlot
<1>8. ASSUME NEW t \in rob_val, t[1] = rob_head PROVE t = HeadSlot(w) \/ w < t[2]
  <2>1. t[2] \in Lanes /\ t = <<rob_head, t[2]>>
    BY <1>8 DEF TypeOK, Slots
  <2>2. ~(t[2] < w)
    BY <1>5, <2>1 DEF rob_head_vals, HeadSlot
  <2> QED
    BY <1>1, <2>1, <2>2 DEF HeadSlot
<1> QED
  BY <1>3, <1>6, <1>7, <1>8 DEF Committed

-----------------------------------------------------------------------------
(* One clock edge.                                                         *)

Remaining == rob_val \ (Committed \cup RolledBack \cup Killed)

Edge(dis, wb, xcpt, exe, mispredict) ==
    /\ dis \in Bundles /\ wb \in AtMostOne(CanWriteBack) /\ xcpt \in AtMostOne(CanFault)
    /\ exe \in AtMostOne(ToExecute) /\ mispredict \in BOOLEAN
    /\ Clock(dis, wb, xcpt, exe, mispredict)

(* The entries after the edge: what remains, and what is dispatched.       *)
LEMMA Entries ==
    ASSUME TypeOK, NEW dis, NEW wb, NEW xcpt, NEW exe, NEW m, Edge(dis, wb, xcpt, exe, m)
    PROVE  /\ rob_val' = Remaining \cup Dispatched(dis)
           /\ Remaining \subseteq Slots /\ Dispatched(dis) \subseteq Slots
           /\ \A s \in Dispatched(dis) : s[1] = rob_tail /\ s[2] \in Fires(dis)
           /\ \A w \in Fires(dis) : <<rob_tail, w>> \in Dispatched(dis)
           /\ \A s \in Remaining \ Dispatched(dis) :
                /\ rob_uop[s] \in RobUop
                /\ rob_uop'[s] = [rob_uop[s] EXCEPT !.br_mask = GetNewBrMask(@)]
                /\ rob_uop'[s].kind = rob_uop[s].kind
                /\ rob_uop'[s].br_tag = rob_uop[s].br_tag
                /\ rob_uop'[s].br_mask = GetNewBrMask(rob_uop[s].br_mask)
           /\ \A s \in Dispatched(dis) :
                /\ rob_uop'[s] = DisUop(dis, s[2])
                /\ dis[s[2]] \in DecUop
                /\ rob_uop'[s].kind = dis[s[2]].kind
                /\ IsBranch(dis[s[2]]) => rob_uop'[s].br_tag = br_tag(dis, s[2])
                /\ rob_uop'[s].br_mask = GetNewBrMask(curr_br_mask(dis, s[2]))
<1> USE DEF Edge, Clock, Rob, RobEntries
<1>1. rob_val' = Remaining \cup Dispatched(dis)
  BY DEF Remaining
<1>2. \A s \in Dispatched(dis) : s[1] = rob_tail /\ s[2] \in Fires(dis) /\ s \in Slots
  BY DEF Dispatched, Fires, Slots, TypeOK
<1>3. Remaining \subseteq Slots
  BY DEF Remaining, TypeOK
<1>4. \A w \in Fires(dis) : <<rob_tail, w>> \in Dispatched(dis)
  BY DEF Dispatched
<1>5. ASSUME NEW s \in Remaining \ Dispatched(dis)
      PROVE  /\ rob_uop[s] \in RobUop
             /\ rob_uop'[s] = [rob_uop[s] EXCEPT !.br_mask = GetNewBrMask(@)]
             /\ rob_uop'[s].kind = rob_uop[s].kind
             /\ rob_uop'[s].br_tag = rob_uop[s].br_tag
             /\ rob_uop'[s].br_mask = GetNewBrMask(rob_uop[s].br_mask)
  <2>1. rob_uop[s] \in RobUop
    BY DEF Remaining, TypeOK
  <2>2. s \in Slots /\ s \in rob_val'
    BY <1>1, <1>3
  <2>3. rob_uop'[s] = [rob_uop[s] EXCEPT !.br_mask = GetNewBrMask(@)]
    BY <2>2
  <2> QED
    BY <2>1, <2>3 DEF RobUop
<1>6. ASSUME NEW s \in Dispatched(dis)
      PROVE  /\ rob_uop'[s] = DisUop(dis, s[2])
             /\ dis[s[2]] \in DecUop
             /\ rob_uop'[s].kind = dis[s[2]].kind
             /\ IsBranch(dis[s[2]]) => rob_uop'[s].br_tag = br_tag(dis, s[2])
             /\ rob_uop'[s].br_mask = GetNewBrMask(curr_br_mask(dis, s[2]))
  <2>1. rob_uop'[s] = DisUop(dis, s[2])
    BY <1>2
  <2>2. dis[s[2]] \in DecUop
    BY <1>2, FromFreeList
  <2> QED
    BY <2>1, <2>2 DEF DisUop
<1> QED
  BY <1>1, <1>2, <1>3, <1>4, <1>5, <1>6

(* While nothing is unwound, what is dispatched is after everything else.  *)
LEMMA Behind ==
    ASSUME TypeOK, RowsOccupied, NotUnwinding
    PROVE  \A s \in rob_val : Dist(rob_head, s[1]) < Dist(rob_head, rob_tail) /\ s[1] # rob_tail
<1>1. Filled(rob_val, rob_head, rob_tail)
  BY RowsAre
<1>2. ASSUME NEW s \in rob_val PROVE Dist(rob_head, s[1]) < Dist(rob_head, rob_tail) /\ s[1] # rob_tail
  <2>1. s[1] \in Rows /\ rob_tail \in Rows /\ rob_head \in Rows
    BY DEF TypeOK, Slots
  <2>2. Dist(rob_head, s[1]) < Dist(rob_head, rob_tail)
    BY <1>1, <2>1 DEF Filled
  <2>3. Dist(rob_head, rob_tail) \in Int
    BY <2>1, Distances
  <2> QED
    BY <2>2, <2>3
<1> QED
  BY <1>2

(* The order after the edge.                                               *)
LEMMA OrderKept ==
    ASSUME TypeOK, RowsOccupied, NotUnwinding,
           NEW dis, NEW wb, NEW xcpt, NEW exe, NEW m, Edge(dis, wb, xcpt, exe, m), TypeOK'
    PROVE  /\ Remaining \cap Dispatched(dis) = {}
           /\ \A s, t \in Remaining : Precedes(s, t)' <=> Precedes(s, t)
           /\ \A s \in Remaining, t \in Dispatched(dis) : Precedes(s, t)' /\ ~Precedes(t, s)'
           /\ \A s, t \in Dispatched(dis) : Precedes(s, t)' <=> s[2] < t[2]
<1>1. /\ Remaining \subseteq rob_val /\ Remaining \subseteq Slots /\ Dispatched(dis) \subseteq Slots
      /\ \A s \in Dispatched(dis) : s[1] = rob_tail
  BY Entries DEF Remaining
<1>2. rob_head \in Rows /\ rob_tail \in Rows /\ rob_head' \in Rows
  BY DEF TypeOK
<1>3. \A s, t \in Slots : (Precedes(s, t) <=> Before(rob_head, s, t)) /\ (Precedes(s, t)' <=> Before(rob_head', s, t))
  <2>1. \A s, t \in Slots : Precedes(s, t) <=> Before(rob_head, s, t)
    BY PrecedesIs
  <2>2. (\A s, t \in Slots : Precedes(s, t) <=> Before(rob_head, s, t))'
    BY PrecedesIs, PTL
  <2> QED
    BY <2>1, <2>2 DEF Before
<1>4. \A s \in Remaining, t \in Dispatched(dis) : Before(rob_head, s, t)
  BY <1>1, Behind DEF Before
<1>5. \/ rob_head' = rob_head
      \/ rob_head' = WrapInc(rob_head) /\ \A s \in Remaining \cup Dispatched(dis) : s[1] # rob_head
  <2>1. CASE Committed # {} /\ Committed = {s \in rob_val : s[1] = rob_head}
    <3>1. \A s \in Remaining : s[1] # rob_head
      BY <2>1 DEF Remaining
    <3>2. rob_tail # rob_head
      BY <2>1, Behind
    <3> QED
      BY <1>1, <2>1, <3>1, <3>2 DEF Edge, Clock, Rob, RobHead
  <2>2. CASE ~(Committed # {} /\ Committed = {s \in rob_val : s[1] = rob_head})
    BY <2>2 DEF Edge, Clock, Rob, RobHead
  <2> QED
    BY <2>1, <2>2
<1>6. \A s, t \in Remaining \cup Dispatched(dis) : Before(rob_head', s, t) <=> Before(rob_head, s, t)
  BY <1>1, <1>2, <1>5, BeforeMoves
<1>7. Remaining \cap Dispatched(dis) = {}
  BY <1>1, Behind
<1>8. \A s, t \in Dispatched(dis) : Before(rob_head, s, t) <=> s[2] < t[2]
  <2>1. Dist(rob_head, rob_tail) \in Int
    BY <1>2, Distances
  <2> QED
    BY <1>1, <2>1 DEF Before
<1>9. \A s \in Remaining, t \in Dispatched(dis) : ~Before(rob_head, t, s)
  BY <1>1, <1>2, <1>4, BeforeOrder
<1> QED
  BY <1>1, <1>3, <1>4, <1>6, <1>7, <1>8, <1>9

-----------------------------------------------------------------------------
(* Kills and resolutions.                                                  *)

LEMMA KilledAre ==
    ASSUME TypeOK, InOrder, Resolving, brinfo.mispredict
    PROVE  /\ brinfo.valid /\ brinfo.rob_idx \in Unresolved
           /\ Killed = {s \in rob_val : Precedes(brinfo.rob_idx, s)}
<1>1. brinfo.valid
  <2>1. brinfo # NoBr
    BY DEF NoBr
  <2>2. brinfo \in BrInfo
    BY <2>1 DEF TypeOK
  <2> QED
    BY <2>2 DEF BrInfo
<1> DEFINE b == brinfo.rob_idx
<1>2. b \in Unresolved /\ brinfo.tag = rob_uop[b].br_tag /\ Exact
  BY <1>1 DEF Resolving, InOrder
<1>3. ASSUME NEW s \in rob_val PROVE brinfo.tag \in rob_uop[s].br_mask <=> Precedes(b, s)
  <2>1. rob_uop[s].br_mask = {rob_uop[x].br_tag : x \in {c \in Unresolved : Precedes(c, s)}}
    BY <1>2 DEF Exact
  <2>2. \A c \in Unresolved : c # b => rob_uop[c].br_tag # brinfo.tag
    BY <1>2 DEF Exact
  <2> QED
    BY <1>2, <2>1, <2>2
<1> QED
  BY <1>1, <1>2, <1>3 DEF Killed

LEMMA NothingKilled ==
    ASSUME TypeOK, ~brinfo.mispredict
    PROVE  Killed = {}
BY DEF Killed

LEMMA Unresolvedness ==
    ASSUME TypeOK, RowsOccupied, NotUnwinding,
           NEW dis, NEW wb, NEW xcpt, NEW exe, NEW m, Edge(dis, wb, xcpt, exe, m), TypeOK'
    PROVE  \A s : s \in Unresolved' <=>
             \/ s \in Remaining /\ s \in Unresolved /\ ~(brinfo.valid /\ s = brinfo.rob_idx)
             \/ s \in Dispatched(dis) /\ IsBranch(dis[s[2]])
<1> TAKE s
<1>1. Remaining \cap Dispatched(dis) = {} /\ Remaining \subseteq rob_val
  BY OrderKept DEF Remaining
<1>2. s \notin rob_val \/ s \notin Dispatched(dis)
  BY Behind, Entries
<1>3. rob_bsy' = ((rob_bsy \ (wb \cup (IF brinfo.valid THEN {brinfo.rob_idx} ELSE {}))) \cap rob_val')
                 \cup {x \in Dispatched(dis) : StartsBusy(dis[x[2]])}
  BY DEF Edge, Clock, Rob, RobEntries
<1>4. rob_val' = Remaining \cup Dispatched(dis)
  BY Entries
<1>5. CASE s \in Dispatched(dis)
  <2>1. IsBranch(rob_uop'[s]) <=> IsBranch(dis[s[2]])
    BY <1>5, Entries DEF IsBranch
  <2>2. IsBranch(dis[s[2]]) => StartsBusy(dis[s[2]])
    BY DEF IsBranch, StartsBusy
  <2>3. s \notin rob_bsy /\ s \notin Remaining
    BY <1>1, <1>2, <1>5 DEF TypeOK
  <2>4. s \in rob_bsy' <=> StartsBusy(dis[s[2]])
    BY <1>3, <1>5, <2>3
  <2> QED
    BY <1>5, <2>1, <2>2, <2>3, <2>4 DEF Unresolved
<1>6. CASE s \in Remaining
  <2>1. IsBranch(rob_uop'[s]) <=> IsBranch(rob_uop[s])
    BY <1>1, <1>6, Entries DEF IsBranch
  <2>2. s \in wb => ~IsBranch(rob_uop[s])
    BY DEF Edge, AtMostOne, CanWriteBack
  <2>3. s \in rob_bsy' <=> s \in rob_bsy /\ s \notin wb /\ ~(brinfo.valid /\ s = brinfo.rob_idx)
    BY <1>1, <1>3, <1>4, <1>6
  <2> QED
    BY <1>1, <1>6, <2>1, <2>2, <2>3 DEF Unresolved
<1>7. CASE s \notin Remaining /\ s \notin Dispatched(dis)
  BY <1>3, <1>4, <1>7 DEF Unresolved
<1> QED
  BY <1>5, <1>6, <1>7

(* Nothing that is still to be resolved commits.                           *)
LEMMA StaysIn ==
    ASSUME TypeOK, NotUnwinding, NEW s \in Unresolved, s \notin Killed
    PROVE  s \in Remaining
BY Committing DEF Remaining, RolledBack, NotUnwinding, Unresolved, TypeOK

-----------------------------------------------------------------------------
(* The rows.                                                               *)

LEMMA FilledWithin ==
    ASSUME NEW v \in SUBSET Slots, NEW h, NEW t, Filled(v, h, t)
    PROVE  Within(v, h, t)
BY DEF Filled, Within, Slots

LEMMA FilledStep ==
    ASSUME TypeOK, OrderInv, NotUnwinding,
           NEW dis, NEW wb, NEW xcpt, NEW exe, NEW m, Edge(dis, wb, xcpt, exe, m)
    PROVE  Filled(rob_val', rob_head', rob_tail')
<1> DEFINE v == rob_val  h == rob_head  t == rob_tail  c == Committed
<1>1. /\ h \in Rows /\ t \in Rows /\ v \in SUBSET Slots /\ c \in SUBSET v
      /\ \A s \in c : s[1] = h /\ s \notin rob_bsy
  BY Committing DEF TypeOK
<1>2. Filled(v, h, t)
  BY RowsAre DEF OrderInv
<1>3. rob_head' = IF c # {} /\ c = {s \in v : s[1] = h} THEN WrapInc(h) ELSE h
  BY DEF Edge, Clock, Rob, RobHead
<1>4. rob_val' = (v \ (c \cup Killed)) \cup Dispatched(dis)
  BY Entries DEF Remaining, RolledBack, NotUnwinding
<1>5. rob_tail' = IF brinfo.mispredict THEN WrapInc(brinfo.rob_idx[1])
                  ELSE IF Fires(dis) # {} THEN WrapInc(t) ELSE t
  BY DEF Edge, Clock, Rob, RobTail, NotUnwinding
<1>6. /\ Dispatched(dis) \subseteq Slots /\ \A s \in Dispatched(dis) : s[1] = t
      /\ Fires(dis) = {} <=> Dispatched(dis) = {}
  BY Entries
<1> HIDE DEF c
<1>7. CASE brinfo.mispredict
  <2> DEFINE b == brinfo.rob_idx
             w == v \ {s \in v : Before(h, b, s)}
  <2>1. Fires(dis) = {}
    BY <1>7 DEF Edge, Clock, CanDispatch
  <2>2. b \in Unresolved /\ Killed = {s \in v : Precedes(b, s)}
    BY <1>7, KilledAre DEF OrderInv
  <2>3. b \in v /\ b \in rob_bsy
    BY <2>2 DEF Unresolved, TypeOK
  <2>4. Killed = {s \in v : Before(h, b, s)}
    BY <1>1, <2>2, <2>3, PrecedesIs
  <2>5. ~Before(h, b, b)
    BY <1>1, <2>3, BeforeOrder
  <2>6. Filled(w, h, WrapInc(b[1])) /\ WrapInc(b[1]) \in Rows
    <3>1. b[1] \in Rows
      BY <1>1, <2>3 DEF Slots
    <3>2. WrapInc(b[1]) \in Rows
      BY <1>1, <3>1, Distances
    <3> QED
      BY <1>1, <1>2, <2>3, <3>2, FilledKill
  <2> HIDE DEF b
  <2>7. c \in SUBSET w
    <3> SUFFICES ASSUME NEW s \in c, Before(h, b, s) PROVE FALSE
      BY <1>1
    <3>1. s[1] = h /\ b[1] \in Rows /\ s \notin rob_bsy /\ s \in v /\ s[2] \in Int /\ b[2] \in Int
      BY <1>1, <2>3, SizeAssumption DEF Slots, Lanes
    <3>2. Dist(h, s[1]) = 0 /\ Dist(h, b[1]) \in Nat
      BY <1>1, <3>1, Distances
    <3>3. b[1] = s[1] /\ b[2] < s[2]
      BY <3>2 DEF Before
    <3>4. b \in c
      BY <2>3, <3>1, <3>3, Committing DEF c
    <3> QED
      BY <1>1, <2>3, <3>4
  <2>8. (c = {s \in v : s[1] = h}) <=> (c = {s \in w : s[1] = h})
    <3>1. CASE b[1] = h
      <4>1. b \notin c /\ b \in {s \in v : s[1] = h} /\ b \in {s \in w : s[1] = h}
        BY <1>1, <2>3, <2>5, <3>1
      <4> QED
        BY <4>1
    <3>2. CASE b[1] # h
      <4>1. \A s \in v : s[1] = h => ~Before(h, b, s)
        <5> SUFFICES ASSUME NEW s \in v, s[1] = h, Before(h, b, s) PROVE FALSE
          OBVIOUS
        <5>1. Dist(h, s[1]) = 0 /\ Dist(h, b[1]) \in Nat
          BY <1>1, <2>3, Distances DEF Slots
        <5> QED
          BY <3>2, <5>1 DEF Before
      <4> QED
        BY <4>1
    <3> QED
      BY <3>1, <3>2
  <2>9. Filled(w \ c, rob_head', WrapInc(b[1]))
    <3>1. w \in SUBSET Slots
      BY <1>1
    <3>2. rob_head' = IF c # {} /\ c = {s \in w : s[1] = h} THEN WrapInc(h) ELSE h
      BY <1>3, <2>8
    <3> HIDE DEF w
    <3> QED
      BY <1>1, <2>6, <2>7, <3>1, <3>2, FilledCommit
  <2>10. rob_val' = w \ c
    BY <1>4, <1>6, <2>1, <2>4
  <2> QED
    BY <1>5, <1>7, <2>9, <2>10 DEF b
<1>8. CASE ~brinfo.mispredict /\ Fires(dis) = {}
  <2>1. rob_val' = v \ c /\ rob_tail' = t
    BY <1>4, <1>5, <1>6, <1>8, NothingKilled
  <2> QED
    BY <1>1, <1>2, <1>3, <2>1, FilledCommit
<1>9. CASE ~brinfo.mispredict /\ Fires(dis) # {}
  <2> DEFINE d == Dispatched(dis)
             w == v \cup d
  <2>1. WrapInc(t) # h
    BY <1>9 DEF Edge, Clock, CanDispatch, rob_rdy, rob_full
  <2>2. rob_val' = (v \cup d) \ c /\ rob_tail' = WrapInc(t) /\ \A s \in v : s[1] # t
    <3>1. \A s \in v : s[1] # t
      BY Behind DEF OrderInv
    <3> QED
      BY <1>1, <1>4, <1>5, <1>6, <1>9, <3>1, NothingKilled
  <2>3. Filled(w, h, WrapInc(t)) /\ WrapInc(t) \in Rows
    BY <1>1, <1>2, <1>6, <1>9, <2>1, FilledDispatch, Distances
  <2>4. c # {} => {s \in w : s[1] = h} = {s \in v : s[1] = h}
    BY <1>1, <1>6, <2>2
  <2>5. w \in SUBSET Slots /\ c \in SUBSET w
    BY <1>1, <1>6
  <2>6. rob_head' = IF c # {} /\ c = {s \in w : s[1] = h} THEN WrapInc(h) ELSE h
    BY <1>3, <2>4
  <2>7. Filled(w \ c, rob_head', WrapInc(t))
    <3> HIDE DEF w
    <3> QED
      BY <1>1, <2>3, <2>5, <2>6, FilledCommit
  <2> QED
    BY <2>2, <2>7
<1> QED
  BY <1>7, <1>8, <1>9

(* A cycle of unwinding.                                                   *)
LEMMA UnwindingStep ==
    ASSUME TypeOK, OrderInv, ~NotUnwinding,
           NEW dis, NEW wb, NEW xcpt, NEW exe, NEW m, Edge(dis, wb, xcpt, exe, m), TypeOK'
    PROVE  OrderInv'
<1>1. rob_state = "s_rollback"
  BY DEF NotUnwinding
<1>2. Fires(dis) = {} /\ Dispatched(dis) = {}
  BY <1>1 DEF Edge, Clock, CanDispatch, rob_rdy, Dispatched
<1>3. Committed = {}
  BY <1>1, Committing
<1>4. ~exception_thrown
  BY <1>1, Throwing
<1>5. rob_head' = rob_head /\ flush_pipeline' = FALSE
  BY <1>3, <1>4 DEF Edge, Clock, Rob, RobHead, flush_val
<1>6. ~flush_pipeline => ~brinfo.valid /\ ~brinfo.mispredict /\ branch_mask = {}
  <2>1. ~brinfo.valid => brinfo = NoBr
    BY DEF TypeOK, BrInfo
  <2> QED
    BY <1>1, <2>1 DEF OrderInv, Resolving, Settled, NotUnwinding, NoBr, Unwinding
<1>7. branch_mask' = {}
  <2>1. Older(dis, Width) = {}
    BY <1>2 DEF Older
  <2>2. ~flush_pipeline => GetNewBrMask(curr_br_mask(dis, Width)) = {}
    BY <1>6, <2>1 DEF GetNewBrMask, curr_br_mask
  <2> QED
    BY <1>6, <2>2 DEF Edge, Clock, BranchMaskGenerationLogic
<1>8. brinfo' = NoBr
  <2>1. ~flush_pipeline => exe = {}
    BY <1>1 DEF Edge, AtMostOne, ToExecute, PipelineFlushed
  <2> QED
    BY <2>1 DEF Edge, Clock, BranchUnit
<1>9. rob_val' \subseteq {s \in rob_val : s[1] # rob_tail}
  BY <1>1, <1>2, Entries DEF Remaining, RolledBack
<1>10. rob_head \in Rows /\ rob_tail \in Rows /\ rob_val \subseteq Slots
  BY DEF TypeOK
<1>11. Within(rob_val, rob_head, rob_tail)
  BY <1>1, RowsAre DEF OrderInv, NotUnwinding
<1>12. Resolving' /\ Flushing' /\ Unwinding'
  BY <1>5, <1>7, <1>8 DEF Resolving, Flushing, Unwinding, NoBr
<1>13. CASE rob_tail = rob_head
  <2>1. rob_state' = "s_normal"
    BY <1>1, <1>13 DEF Edge, Clock, Rob, RobFSM
  <2>2. \A s \in rob_val : s[1] = rob_tail
    <3> SUFFICES ASSUME NEW s \in rob_val, Dist(rob_head, s[1]) < Dist(rob_head, rob_tail) PROVE FALSE
      BY <1>11 DEF Within
    <3>1. Dist(rob_head, s[1]) \in Nat /\ Dist(rob_head, rob_tail) = 0
      BY <1>10, <1>13, Distances DEF Slots
    <3> QED
      BY <3>1
  <2>3. rob_val' = {}
    BY <1>9, <2>2
  <2>4. rob_tail' = rob_tail
    <3>1. ~flush_pipeline
      BY <1>1, <1>13 DEF OrderInv, Flushing, NotUnwinding
    <3> QED
      BY <1>2, <1>6, <1>13, <3>1 DEF Edge, Clock, Rob, RobTail
  <2>5. Filled(rob_val', rob_head', rob_tail')
    <3>1. Dist(rob_head, rob_tail) = 0 /\ \A r \in Rows : Dist(rob_head, r) \in Nat
      BY <1>10, <1>13, Distances
    <3> QED
      BY <1>5, <2>3, <2>4, <3>1 DEF Filled
  <2>6. RowsOccupied'
    <3>1. (RowsOccupied <=> IF NotUnwinding THEN Filled(rob_val, rob_head, rob_tail) ELSE Within(rob_val, rob_head, rob_tail))'
      BY RowsAre, PTL
    <3> QED
      BY <2>1, <2>5, <3>1 DEF NotUnwinding, Filled, Dist
  <2>7. Unresolved' = {}
    BY <2>3 DEF Unresolved, TypeOK
  <2>8. InOrder'
    <3>1. Exact'
      BY <1>7, <2>3, <2>7 DEF Exact
    <3> QED
      BY <2>5, <3>1 DEF InOrder, Filled, Dist
  <2>9. Alone'
    BY <2>3 DEF Alone
  <2> QED
    BY <1>12, <2>6, <2>8, <2>9 DEF OrderInv
<1>14. CASE rob_tail # rob_head
  <2>1. rob_state' = "s_rollback" /\ rob_tail' = WrapDec(rob_tail)
    BY <1>1, <1>14 DEF Edge, Clock, Rob, RobFSM, RobTail
  <2>2. Dist(rob_head, WrapDec(rob_tail)) = Dist(rob_head, rob_tail) - 1 /\ WrapDec(rob_tail) \in Rows
    BY <1>10, <1>14, Distances
  <2>3. ASSUME NEW s \in rob_val'
        PROVE  s[1] = rob_tail' \/ Dist(rob_head', s[1]) < Dist(rob_head', rob_tail')
    <3>1. s[1] \in Rows /\ Dist(rob_head, s[1]) < Dist(rob_head, rob_tail)
      BY <1>9, <1>10, <1>11 DEF Within, Slots
    <3>2. Dist(rob_head, s[1]) \in Int /\ Dist(rob_head, rob_tail) \in Int
      BY <1>10, <3>1, Distances
    <3>3. Dist(rob_head, s[1]) = Dist(rob_head, WrapDec(rob_tail)) => s[1] = WrapDec(rob_tail)
      BY <1>10, <2>2, <3>1, DistInjective
    <3> HIDE DEF Dist
    <3>4. s[1] = WrapDec(rob_tail) \/ Dist(rob_head, s[1]) < Dist(rob_head, WrapDec(rob_tail))
      BY <2>2, <3>1, <3>2, <3>3
    <3> QED
      BY <1>5, <2>1, <3>4
  <2>4. RowsOccupied'
    <3>1. (RowsOccupied <=> IF NotUnwinding THEN Filled(rob_val, rob_head, rob_tail) ELSE Within(rob_val, rob_head, rob_tail))'
      BY RowsAre, PTL
    <3> QED
      BY <2>1, <2>3, <3>1 DEF NotUnwinding, Within, Dist
  <2>5. InOrder' /\ Alone'
    BY <1>5, <2>1 DEF InOrder, Settled, Alone, NotUnwinding
  <2> QED
    BY <1>12, <2>4, <2>5 DEF OrderInv
<1> QED
  BY <1>13, <1>14

-----------------------------------------------------------------------------
(* The branch masks.                                                       *)

(* The tags of the branches of one bundle are different, and new.          *)
LEMMA NewTags ==
    ASSUME TypeOK, NEW dis \in Bundles, CanDispatch(dis)
    PROVE  /\ \A w \in Branches(dis) : br_tag(dis, w) \in Tags \ branch_mask
           /\ \A w, x \in Branches(dis) : w # x => br_tag(dis, w) # br_tag(dis, x)
<1>1. \A w \in Branches(dis) : br_tag(dis, w) \in Tags \ branch_mask
  BY FromFreeList DEF Branches
<1>2. ASSUME NEW w \in Branches(dis), NEW x \in Branches(dis), w < x
      PROVE  br_tag(dis, w) # br_tag(dis, x)
  <2> DEFINE T == Tags \ branch_mask
  <2>1. Branches(dis) \subseteq Fires(dis) /\ Fires(dis) \subseteq Lanes /\ Lanes \subseteq {0, 1}
    BY SizeAssumption DEF Branches, Fires, Lanes
  <2>2. w = 0 /\ x = 1 /\ \A y \in Lanes : ~(y < w) /\ (y < x => y = w)
    <3>1. \A y, z \in {0, 1} : y < z => y = 0 /\ z = 1
      OBVIOUS
    <3>2. w = 0 /\ x = 1
      BY <1>2, <2>1, <3>1
    <3> QED
      BY <2>1, <3>1, <3>2
  <2>3. Older(dis, w) = {} /\ w \in Older(dis, x)
    BY <1>2, <2>1, <2>2 DEF Older
  <2>4. br_tag(dis, w) = First(T) /\ br_tag(dis, x) = Second(T)
    BY <1>2, <2>3 DEF br_tag
  <2>5. First(T) \in T
    BY <1>1, <2>4
  <2>6. Older(dis, x) \cap Branches(dis) = {w}
    BY <1>2, <2>1, <2>2, <2>3 DEF Older
  <2>7. curr_br_mask(dis, x) = branch_mask \cup {First(T)}
    BY <2>4, <2>6 DEF curr_br_mask
  <2>8. curr_br_mask(dis, x) # Tags
    BY <1>2, <2>1 DEF CanDispatch, Branches
  <2>9. T \ {First(T)} # {}
    <3>1. branch_mask \subseteq Tags
      BY DEF TypeOK
    <3> QED
      BY <2>5, <2>7, <2>8, <3>1
  <2>10. T \ {First(T)} \in SUBSET Nat
    BY SizeAssumption DEF Tags
  <2>11. Min(T \ {First(T)}) \in T \ {First(T)}
    BY <2>9, <2>10, MinMember
  <2> QED
    BY <2>4, <2>11 DEF First, Second
<1>3. \A w, x \in Branches(dis) : w # x => w < x \/ x < w
  BY SizeAssumption DEF Branches, Fires, Lanes
<1> QED
  BY <1>1, <1>2, <1>3

(* The mispredict of a branch leaves it, resolved, and what is before it.  *)
LEMMA ExactAfterMispredict ==
    ASSUME TypeOK, OrderInv, NotUnwinding, brinfo.mispredict,
           NEW dis, NEW wb, NEW xcpt, NEW exe, NEW m, Edge(dis, wb, xcpt, exe, m), TypeOK'
    PROVE  Exact'
<1> DEFINE b == brinfo.rob_idx
<1>1. Exact
  BY DEF OrderInv, InOrder, Settled
<1>2. /\ brinfo.valid /\ b \in Unresolved /\ Killed = {s \in rob_val : Precedes(b, s)}
      /\ brinfo.tag = rob_uop[b].br_tag /\ brinfo.exe_mask = rob_uop[b].br_mask
  BY KilledAre DEF OrderInv, Resolving
<1>3. ~flush_pipeline
  BY <1>2 DEF OrderInv, Flushing, Unresolved, TypeOK
<1>4. Dispatched(dis) = {}
  BY DEF Edge, Clock, CanDispatch, Dispatched
<1>5. /\ rob_val' = Remaining /\ Remaining \subseteq rob_val /\ Remaining \cap Killed = {}
      /\ \A s \in Remaining : /\ rob_uop'[s].br_tag = rob_uop[s].br_tag
                              /\ rob_uop'[s].br_mask = rob_uop[s].br_mask \ {brinfo.tag}
  BY <1>2, <1>4, Entries DEF Remaining, GetNewBrMask
<1>6. branch_mask' = rob_uop[b].br_mask
  BY <1>2, <1>3 DEF Edge, Clock, BranchMaskGenerationLogic
<1>7. \A s, t \in Remaining : Precedes(s, t)' <=> Precedes(s, t)
  BY OrderKept DEF OrderInv
<1>8. rob_val \subseteq Slots /\ Unresolved \subseteq rob_val
  BY DEF TypeOK, Unresolved
<1>9. /\ \A s \in rob_val : ~Precedes(s, s)
      /\ \A s, t \in rob_val : ~(Precedes(s, t) /\ Precedes(t, s))
      /\ \A s, t \in rob_val : s = t \/ Precedes(s, t) \/ Precedes(t, s)
      /\ \A s, t, u \in rob_val : Precedes(s, t) /\ Precedes(t, u) => Precedes(s, u)
  <2>1. rob_head \in Rows
    BY DEF TypeOK
  <2> QED
    BY <1>8, <2>1, PrecedesIs, BeforeOrder, BeforeTransitive
<1>10. \A s : s \in Unresolved' <=> s \in Unresolved /\ Precedes(s, b)
  <2>1. \A s : s \in Unresolved' <=> s \in Remaining /\ s \in Unresolved /\ s # b
    BY <1>2, <1>4, Unresolvedness DEF OrderInv
  <2>2. \A s \in Unresolved : s \in Remaining <=> s \notin Killed
    BY <1>5, StaysIn
  <2> QED
    BY <1>2, <1>8, <1>9, <2>1, <2>2
<1>11. Unresolved' \subseteq Remaining
  BY <1>2, <1>8, <1>9, <1>10, StaysIn
<1>12. branch_mask' = {rob_uop'[c].br_tag : c \in Unresolved'}
  <2>1. rob_uop[b].br_mask = {rob_uop[x].br_tag : x \in {c \in Unresolved : Precedes(c, b)}}
    BY <1>1, <1>2, <1>8 DEF Exact
  <2>2. Unresolved' = {c \in Unresolved : Precedes(c, b)}
    BY <1>10
  <2> QED
    BY <1>5, <1>6, <1>11, <2>1, <2>2
<1>13. ASSUME NEW s \in rob_val'
       PROVE  rob_uop'[s].br_mask = {rob_uop'[x].br_tag : x \in {c \in Unresolved' : Precedes(c, s)'}}
  <2>1. s \in Remaining /\ s \in rob_val /\ s \notin Killed
    BY <1>5
  <2>2. rob_uop[s].br_mask = {rob_uop[x].br_tag : x \in {c \in Unresolved : Precedes(c, s)}}
    BY <1>1, <2>1 DEF Exact
  <2>3. \A c \in Unresolved : c # b /\ Precedes(c, s) <=> c \in Unresolved' /\ Precedes(c, s)'
    BY <1>2, <1>7, <1>8, <1>9, <1>10, <1>11, <2>1
  <2>4. \A c \in Unresolved : c # b <=> rob_uop[c].br_tag # brinfo.tag
    BY <1>1, <1>2 DEF Exact
  <2>5. rob_uop'[s].br_mask = rob_uop[s].br_mask \ {brinfo.tag}
    BY <1>5, <2>1
  <2>6. \A c \in Unresolved' : rob_uop'[c].br_tag = rob_uop[c].br_tag /\ c \in Unresolved
    BY <1>5, <1>10, <1>11
  <2> QED
    BY <2>2, <2>3, <2>4, <2>5, <2>6
<1>14. \A c, e \in Unresolved' : c # e => rob_uop'[c].br_tag # rob_uop'[e].br_tag
  BY <1>1, <1>5, <1>10, <1>11 DEF Exact
<1> QED
  BY <1>12, <1>13, <1>14 DEF Exact

(* A cycle in which no branch is mispredicted.                             *)
LEMMA ExactAfterDispatch ==
    ASSUME TypeOK, OrderInv, NotUnwinding, ~brinfo.mispredict, ~flush_pipeline,
           NEW dis, NEW wb, NEW xcpt, NEW exe, NEW m, Edge(dis, wb, xcpt, exe, m), TypeOK'
    PROVE  Exact'
<1> DEFINE D == Dispatched(dis)
           Gone(s) == brinfo.valid /\ s = brinfo.rob_idx
           New(s) == s \in D /\ IsBranch(dis[s[2]])
<1>1. Exact
  BY DEF OrderInv, InOrder, Settled
<1>2. \A s \in Unresolved : Gone(s) <=> brinfo.valid /\ rob_uop[s].br_tag = brinfo.tag
  BY <1>1 DEF OrderInv, Resolving, Exact
<1>3. \A S, x : x \in GetNewBrMask(S) <=> x \in S /\ ~(brinfo.valid /\ x = brinfo.tag)
  BY DEF GetNewBrMask
<1>4. \A s : s \in Unresolved' <=> (s \in Unresolved /\ ~Gone(s)) \/ New(s)
  <2>1. \A s \in Unresolved : s \in Remaining
    BY StaysIn, NothingKilled
  <2> QED
    BY <2>1, Unresolvedness DEF OrderInv
<1>5. /\ rob_val' = Remaining \cup D /\ Remaining \subseteq rob_val /\ Remaining \cap D = {}
      /\ \A s \in Remaining : /\ rob_uop'[s].br_tag = rob_uop[s].br_tag
                              /\ rob_uop'[s].br_mask = GetNewBrMask(rob_uop[s].br_mask)
      /\ \A s \in D : /\ s[1] = rob_tail /\ s[2] \in Fires(dis)
                      /\ New(s) => rob_uop'[s].br_tag = br_tag(dis, s[2])
                      /\ rob_uop'[s].br_mask = GetNewBrMask(curr_br_mask(dis, s[2]))
      /\ \A w \in Fires(dis) : <<rob_tail, w>> \in D
  BY Entries, OrderKept DEF Remaining, OrderInv
<1>6. \A s \in Unresolved : s \in Remaining
  BY StaysIn, NothingKilled
<1>7. /\ \A s, t \in Remaining : Precedes(s, t)' <=> Precedes(s, t)
      /\ \A s \in Remaining, t \in D : Precedes(s, t)' /\ ~Precedes(t, s)'
      /\ \A s, t \in D : Precedes(s, t)' <=> s[2] < t[2]
  BY OrderKept DEF OrderInv
<1>8. /\ \A w \in Branches(dis) : br_tag(dis, w) \in Tags \ branch_mask
      /\ \A w, x \in Branches(dis) : w # x => br_tag(dis, w) # br_tag(dis, x)
  BY NewTags DEF Edge, Clock
<1>9. \A s \in D : New(s) <=> s[2] \in Branches(dis)
  BY <1>5 DEF Branches
<1>10. brinfo.valid => brinfo.tag \in branch_mask
  BY <1>1 DEF OrderInv, Resolving, Exact
<1>11. \A s \in D : New(s) => ~(brinfo.valid /\ br_tag(dis, s[2]) = brinfo.tag)
  BY <1>8, <1>9, <1>10
<1>12. ASSUME NEW w
       PROVE  \A x : x \in GetNewBrMask(curr_br_mask(dis, w)) <=>
                       \/ \E c \in Unresolved : ~Gone(c) /\ x = rob_uop[c].br_tag
                       \/ \E s \in D : New(s) /\ s[2] < w /\ x = br_tag(dis, s[2])
  <2> TAKE x
  <2>1. x \in curr_br_mask(dis, w) <=>
           \/ x \in branch_mask
           \/ \E y \in Older(dis, w) \cap Branches(dis) : x = br_tag(dis, y)
    BY DEF curr_br_mask
  <2>2. (\E y \in Older(dis, w) \cap Branches(dis) : x = br_tag(dis, y))
        <=> \E s \in D : New(s) /\ s[2] < w /\ x = br_tag(dis, s[2])
    <3>1. ASSUME NEW y \in Older(dis, w) \cap Branches(dis), x = br_tag(dis, y)
          PROVE  \E s \in D : New(s) /\ s[2] < w /\ x = br_tag(dis, s[2])
      <4> DEFINE s == <<rob_tail, y>>
      <4>1. s[2] = y /\ y < w /\ y \in Fires(dis)
        BY <3>1 DEF Older
      <4>2. s \in D
        BY <1>5, <4>1
      <4>3. New(s)
        BY <1>9, <3>1, <4>1, <4>2
      <4> HIDE DEF s, D, New
      <4> QED
        BY <3>1, <4>1, <4>2, <4>3
    <3>2. ASSUME NEW s \in D, New(s), s[2] < w, x = br_tag(dis, s[2])
          PROVE  \E y \in Older(dis, w) \cap Branches(dis) : x = br_tag(dis, y)
      BY <1>5, <1>9, <3>2 DEF Older
    <3> QED
      BY <3>1, <3>2
  <2>3. x \in branch_mask <=> \E c \in Unresolved : x = rob_uop[c].br_tag
    BY <1>1 DEF Exact
  <2> HIDE DEF D, New, Gone
  <2>4. x \in branch_mask /\ ~(brinfo.valid /\ x = brinfo.tag)
        <=> \E c \in Unresolved : ~Gone(c) /\ x = rob_uop[c].br_tag
    BY <1>2, <2>3
  <2> QED
    BY <1>3, <1>11, <2>1, <2>2, <2>4
<1> HIDE DEF D, New, Gone
<1>13. branch_mask' = {rob_uop'[c].br_tag : c \in Unresolved'}
  <2>1. branch_mask' = GetNewBrMask(curr_br_mask(dis, Width))
    BY DEF Edge, Clock, BranchMaskGenerationLogic
  <2>2. \A s \in D : s[2] < Width
    BY <1>5, SizeAssumption DEF Fires, Lanes
  <2>3. \A x : x \in branch_mask' <=>
                 \/ \E c \in Unresolved : ~Gone(c) /\ x = rob_uop[c].br_tag
                 \/ \E s \in D : New(s) /\ x = br_tag(dis, s[2])
    BY <1>12, <2>1, <2>2
  <2>4. \A s : New(s) => s \in D
    BY DEF New
  <2>5. \A x : x \in branch_mask' <=> \E c \in Unresolved' : x = rob_uop'[c].br_tag
    BY <1>4, <1>5, <1>6, <2>3, <2>4
  <2> QED
    BY <2>5
<1>14. ASSUME NEW s \in rob_val'
       PROVE  rob_uop'[s].br_mask = {rob_uop'[x].br_tag : x \in {c \in Unresolved' : Precedes(c, s)'}}
  <2>1. \A t : New(t) => t \in D
    BY DEF New
  <2>2. CASE s \in Remaining
    <3>1. rob_uop[s].br_mask = {rob_uop[x].br_tag : x \in {c \in Unresolved : Precedes(c, s)}}
      BY <1>1, <1>5, <2>2 DEF Exact
    <3>2. \A x : x \in rob_uop'[s].br_mask <=>
                   \E c \in Unresolved : ~Gone(c) /\ Precedes(c, s) /\ x = rob_uop[c].br_tag
      BY <1>2, <1>3, <1>5, <2>2, <3>1 DEF Gone
    <3>3. \A c : c \in Unresolved' /\ Precedes(c, s)' <=> c \in Unresolved /\ ~Gone(c) /\ Precedes(c, s)
      BY <1>4, <1>6, <1>7, <2>1, <2>2
    <3>4. \A x : x \in rob_uop'[s].br_mask <=>
                   \E c \in Unresolved' : Precedes(c, s)' /\ x = rob_uop'[c].br_tag
      BY <1>5, <1>6, <3>2, <3>3
    <3> QED
      BY <3>4
  <2>3. CASE s \in D
    <3>1. \A c : c \in Unresolved' /\ Precedes(c, s)' <=>
                   \/ c \in Unresolved /\ ~Gone(c)
                   \/ New(c) /\ c[2] < s[2]
      BY <1>4, <1>6, <1>7, <2>1, <2>3
    <3>2. \A x : x \in rob_uop'[s].br_mask <=>
                   \E c \in Unresolved' : Precedes(c, s)' /\ x = rob_uop'[c].br_tag
      BY <1>5, <1>6, <1>12, <2>1, <2>3, <3>1
    <3> QED
      BY <3>2
  <2> QED
    BY <1>5, <2>2, <2>3
<1>15. ASSUME NEW c \in Unresolved', NEW e \in Unresolved', c # e
       PROVE  rob_uop'[c].br_tag # rob_uop'[e].br_tag
  <2>1. \A s \in Unresolved : rob_uop'[s].br_tag = rob_uop[s].br_tag /\ rob_uop[s].br_tag \in branch_mask
    BY <1>1, <1>5, <1>6 DEF Exact
  <2>2. \A s : New(s) => s \in D /\ s[2] \in Branches(dis) /\ rob_uop'[s].br_tag = br_tag(dis, s[2])
    BY <1>5, <1>9 DEF New
  <2>3. \A s : New(s) => rob_uop'[s].br_tag \notin branch_mask
    BY <1>8, <2>2
  <2>4. New(c) /\ New(e) => c[2] # e[2]
    <3>1. \A s \in D : s \in Slots
      BY Entries DEF D
    <3>2. New(c) /\ New(e) => c \in Slots /\ e \in Slots /\ c[1] = e[1]
      BY <1>5, <2>2, <3>1
    <3> QED
      BY <1>15, <3>2 DEF Slots
  <2> QED
    BY <1>1, <1>4, <1>8, <1>15, <2>1, <2>2, <2>3, <2>4 DEF Exact
<1> QED
  BY <1>13, <1>14, <1>15 DEF Exact

-----------------------------------------------------------------------------
(* The other parts of the invariant.                                       *)

LEMMA ResolvingStep ==
    ASSUME TypeOK, OrderInv, NotUnwinding,
           NEW dis, NEW wb, NEW xcpt, NEW exe, NEW m, Edge(dis, wb, xcpt, exe, m), TypeOK'
    PROVE  Resolving'
<1> SUFFICES ASSUME brinfo'.valid PROVE Resolving'
  BY DEF Resolving
<1>1. BranchUnit(exe, m) /\ exe \in AtMostOne(ToExecute)
  BY DEF Edge, Clock
<1>2. ~(exe \ Killed = {} \/ flush_pipeline)
  BY <1>1 DEF BranchUnit, NoBr
<1>3. PICK s : exe = {s} /\ s \in ToExecute /\ s \notin Killed
  BY <1>1, <1>2 DEF AtMostOne
<1>4. (CHOOSE x \in exe : TRUE) = s
  BY <1>3
<1>5. brinfo' = [valid |-> TRUE, mispredict |-> m, tag |-> rob_uop[s].br_tag,
                 exe_mask |-> GetNewBrMask(rob_uop[s].br_mask), rob_idx |-> s]
  BY <1>1, <1>2, <1>4 DEF BranchUnit
<1>6. s \in Unresolved /\ ~(brinfo.valid /\ s = brinfo.rob_idx)
  BY <1>3 DEF ToExecute, PipelineFlushed, NotUnwinding
<1>7. s \in Remaining
  BY <1>3, <1>6, StaysIn
<1>8. s \in Unresolved'
  BY <1>6, <1>7, Unresolvedness DEF OrderInv
<1>9. s \notin Dispatched(dis)
  BY <1>7, OrderKept DEF OrderInv
<1>10. rob_uop'[s].br_tag = rob_uop[s].br_tag /\ rob_uop'[s].br_mask = GetNewBrMask(rob_uop[s].br_mask)
  BY <1>7, <1>9, Entries
<1>11. rob_state' = "s_rollback" => flush_pipeline'
  BY DEF Edge, Clock, Rob, RobFSM, NotUnwinding, flush_val, TypeOK
<1> QED
  BY <1>5, <1>8, <1>10, <1>11 DEF Resolving, Settled, NotUnwinding

(* An empty buffer: the head has caught up with the tail.                  *)
LEMMA EmptyIs ==
    ASSUME TypeOK, RowsOccupied, NotUnwinding
    PROVE  rob_head = rob_tail <=> rob_val = {}
<1>1. Filled(rob_val, rob_head, rob_tail) /\ rob_head \in Rows /\ rob_tail \in Rows
  BY RowsAre DEF TypeOK
<1>2. ASSUME rob_head = rob_tail, NEW s \in rob_val PROVE FALSE
  <2>1. s[1] \in Rows
    BY DEF TypeOK, Slots
  <2>2. Dist(rob_head, s[1]) < Dist(rob_head, rob_tail)
    BY <1>1, <2>1 DEF Filled
  <2>3. Dist(rob_head, s[1]) \in Nat /\ Dist(rob_head, rob_tail) = 0
    BY <1>1, <1>2, <2>1, Distances
  <2> QED
    BY <2>2, <2>3
<1>3. ASSUME rob_val = {} PROVE rob_head = rob_tail
  <2>1. ~(Dist(rob_head, rob_head) < Dist(rob_head, rob_tail))
    BY <1>1, <1>3 DEF Filled
  <2>2. Dist(rob_head, rob_head) = 0 /\ Dist(rob_head, rob_tail) \in Nat
    BY <1>1, Distances
  <2>3. Dist(rob_head, rob_tail) = 0
    BY <2>1, <2>2
  <2> QED
    BY <1>1, <2>3, Distances
<1> QED
  BY <1>2, <1>3

LEMMA AloneStep ==
    ASSUME TypeOK, OrderInv, NotUnwinding,
           NEW dis, NEW wb, NEW xcpt, NEW exe, NEW m, Edge(dis, wb, xcpt, exe, m), TypeOK'
    PROVE  Alone'
<1> SUFFICES ASSUME rob_state' # "s_rollback", NEW s \in rob_val', IsUnique(rob_uop'[s])
             PROVE  /\ rob_state' = "s_wait_till_empty"
                    /\ \A t \in rob_val' : t = s \/ Precedes(t, s)'
  BY DEF Alone, NotUnwinding
<1>1. /\ rob_val' = Remaining \cup Dispatched(dis) /\ Remaining \subseteq rob_val
      /\ Remaining \cap Dispatched(dis) = {}
      /\ \A t, u \in Remaining : Precedes(t, u)' <=> Precedes(t, u)
      /\ \A t \in Remaining, u \in Dispatched(dis) : Precedes(t, u)'
      /\ \A t, u \in Dispatched(dis) : Precedes(t, u)' <=> t[2] < u[2]
  BY Entries, OrderKept DEF Remaining, OrderInv
<1>2. ~exception_thrown
  BY DEF Edge, Clock, Rob, RobFSM, NotUnwinding, TypeOK, exception_thrown, CommitNotBlocked
<1>3. CASE s \in Remaining
  <2>1. IsUnique(rob_uop[s])
    BY <1>1, <1>3, Entries DEF IsUnique
  <2>2. /\ rob_state = "s_wait_till_empty"
        /\ \A t \in rob_val : t = s \/ Precedes(t, s)
    BY <1>1, <1>3, <2>1 DEF OrderInv, Alone
  <2>3. Dispatched(dis) = {}
    BY <2>2 DEF Edge, Clock, CanDispatch, rob_rdy, Dispatched
  <2>4. rob_head # rob_tail
    BY <1>1, <1>3, EmptyIs DEF OrderInv
  <2>5. rob_state' = "s_wait_till_empty"
    BY <1>2, <2>2, <2>4 DEF Edge, Clock, Rob, RobFSM
  <2> QED
    BY <1>1, <1>3, <2>2, <2>3, <2>5
<1>4. CASE s \in Dispatched(dis)
  <2>1. IsUnique(dis[s[2]]) /\ s[2] \in Fires(dis)
    BY <1>4, Entries DEF IsUnique
  <2>2. rob_state = "s_normal"
    BY <2>1 DEF Edge, Clock, CanDispatch, rob_rdy
  <2>3. rob_state' = "s_wait_till_empty"
    BY <1>2, <2>1, <2>2 DEF Edge, Clock, Rob, RobFSM
  <2>4. rob_val = {}
    <3>1. rob_empty
      BY <2>1 DEF Edge, Clock, CanDispatch
    <3> QED
      BY <3>1, EmptyIs DEF rob_empty, OrderInv
  <2>5. ASSUME NEW t \in rob_val' PROVE t = s \/ Precedes(t, s)'
    <3>1. t \in Dispatched(dis) /\ t \in Slots /\ s \in Slots /\ t[1] = s[1] /\ t[2] \in Fires(dis)
      BY <1>1, <1>4, <2>4, <2>5, Entries
    <3>2. ~(s[2] < t[2])
      <4> SUFFICES ASSUME s[2] < t[2] PROVE FALSE
        OBVIOUS
      <4>1. s[2] \in Older(dis, t[2])
        BY <2>1 DEF Older
      <4> QED
        BY <2>1, <3>1, <4>1 DEF Edge, Clock, CanDispatch
    <3>3. s[2] \in Int /\ t[2] \in Int
      BY <3>1, SizeAssumption DEF Slots, Lanes
    <3>4. s[2] = t[2] => s = t
      BY <3>1 DEF Slots
    <3>5. s[2] = t[2] \/ t[2] < s[2]
      BY <3>2, <3>3
    <3> QED
      BY <1>1, <1>4, <3>1, <3>4, <3>5
  <2> QED
    BY <2>3, <2>5
<1> QED
  BY <1>1, <1>3, <1>4

LEMMA FlushingStep ==
    ASSUME TypeOK, OrderInv, NotUnwinding,
           NEW dis, NEW wb, NEW xcpt, NEW exe, NEW m, Edge(dis, wb, xcpt, exe, m), TypeOK',
           Filled(rob_val', rob_head', rob_tail')
    PROVE  Flushing'
<1> SUFFICES ASSUME flush_pipeline' PROVE Flushing'
  BY DEF Flushing
<1>1. flush_val
  BY DEF Edge, Clock, Rob
<1>2. CASE exception_thrown
  <2>1. rob_state' = "s_rollback"
    BY <1>2, Throwing DEF Edge, Clock, Rob, RobFSM
  <2>2. PICK s \in rob_exception :
           s[1] = rob_head /\ \A t \in rob_val : t[1] = rob_head => t = s \/ s[2] < t[2]
    BY <1>2, Throwing
  <2>3. Committed = {} /\ rob_head' = rob_head
    BY <1>2, Throwing DEF Edge, Clock, Rob, RobHead
  <2>4. s \in rob_val /\ s \in Slots /\ rob_head \in Rows /\ rob_tail' \in Rows /\ rob_val \subseteq Slots
    BY DEF TypeOK
  <2>5. s \notin Killed
    <3> SUFFICES ASSUME s \in Killed PROVE FALSE
      OBVIOUS
    <3>1. brinfo.mispredict
      BY DEF Killed
    <3>2. brinfo.rob_idx \in rob_val /\ Precedes(brinfo.rob_idx, s)
      BY <3>1, KilledAre DEF OrderInv, Unresolved, TypeOK
    <3> DEFINE b == brinfo.rob_idx
    <3>3. Before(rob_head, b, s)
      BY <2>4, <3>2, PrecedesIs
    <3>4. b[1] \in Rows /\ b[2] \in Int /\ s[2] \in Int
      BY <2>4, <3>2, SizeAssumption DEF Slots, Lanes
    <3>5. Dist(rob_head, s[1]) = 0 /\ Dist(rob_head, b[1]) \in Nat
      BY <2>2, <2>4, <3>4, Distances
    <3>6. b[1] = s[1] /\ b[2] < s[2]
      BY <3>3, <3>5 DEF Before
    <3> QED
      BY <2>2, <3>2, <3>4, <3>6
  <2>6. s \in rob_val'
    BY <2>3, <2>4, <2>5, Entries DEF Remaining, RolledBack, NotUnwinding
  <2>7. Dist(rob_head', rob_head) < Dist(rob_head', rob_tail')
    BY <2>2, <2>4, <2>6 DEF Filled
  <2>8. rob_tail' # rob_head'
    BY <2>3, <2>4, <2>7, Distances
  <2> QED
    BY <2>1, <2>8 DEF Flushing, NotUnwinding
<1>3. CASE ~exception_thrown
  <2>1. rob_state' # "s_rollback"
    BY <1>3 DEF Edge, Clock, Rob, RobFSM, NotUnwinding, TypeOK
  <2>2. PICK s \in Committed : FlushOnCommit(rob_uop[s])
    BY <1>1, <1>3 DEF flush_val
  <2>3. s \in rob_val /\ s[1] = rob_head /\ s \in Slots /\ rob_head \in Rows /\ rob_val \subseteq Slots
    BY <2>2, Committing DEF TypeOK
  <2>4. IsUnique(rob_uop[s])
    BY <2>2 DEF FlushOnCommit, IsUnique
  <2>5. rob_state = "s_wait_till_empty" /\ \A t \in rob_val : t = s \/ Precedes(t, s)
    BY <2>3, <2>4 DEF OrderInv, Alone
  <2>6. Dispatched(dis) = {}
    BY <2>5 DEF Edge, Clock, CanDispatch, rob_rdy, Dispatched
  <2>7. ASSUME NEW t \in rob_val PROVE t \in Committed
    <3>1. CASE t = s
      BY <2>2, <3>1
    <3>2. CASE t # s
      <4>1. Before(rob_head, t, s)
        BY <2>3, <2>5, <3>2, PrecedesIs
      <4>2. Dist(rob_head, s[1]) = 0 /\ Dist(rob_head, t[1]) \in Nat
        BY <2>3, Distances DEF Slots
      <4>3. t[1] = s[1] /\ t[2] < s[2]
        BY <4>1, <4>2 DEF Before
      <4> QED
        BY <2>2, <2>3, <4>3, Committing
    <3> QED
      BY <3>1, <3>2
  <2>8. rob_val' = {}
    BY <2>6, <2>7, Entries DEF Remaining
  <2> QED
    BY <2>1, <2>8 DEF Flushing, NotUnwinding
<1> QED
  BY <1>2, <1>3

-----------------------------------------------------------------------------
LEMMA OrderStart == Init => OrderInv
<1> SUFFICES ASSUME Init PROVE OrderInv
  OBVIOUS
<1>1. rob_val = {} /\ Unresolved = {} /\ branch_mask = {}
  BY DEF Init, Unresolved
<1>2. RowsOccupied
  <2>1. rob_head = 0 /\ rob_tail = 0 /\ rob_state = "s_reset" /\ 0 \in Rows
    BY SizeAssumption DEF Init, Rows
  <2>2. \A r \in Rows : FromHead(r) = Dist(0, r)
    BY <2>1, DistIs DEF FromHead
  <2>3. Dist(0, 0) = 0 /\ \A r \in Rows : Dist(0, r) \in Nat
    BY <2>1, Distances
  <2>4. {r \in Rows : FromHead(r) < FromHead(rob_tail)} = {}
    BY <2>1, <2>2, <2>3
  <2>5. {s[1] : s \in rob_val} = {}
    BY <1>1
  <2> QED
    BY <2>1, <2>4, <2>5 DEF RowsOccupied
<1>3. InOrder
  <2>1. Exact
    BY <1>1 DEF Exact
  <2>2. rob_head = 0 /\ rob_tail = 0 /\ 0 \in Rows
    BY SizeAssumption DEF Init, Rows
  <2>3. Dist(0, 0) = 0 /\ \A r \in Rows : Dist(0, r) \in Nat
    BY <2>2, Distances
  <2> QED
    BY <1>1, <2>1, <2>2, <2>3 DEF InOrder, Filled
<1>4. Resolving /\ Alone /\ Flushing /\ Unwinding
  BY <1>1 DEF Init, Resolving, Alone, Flushing, Unwinding, Settled, NotUnwinding, NoBr
<1> QED
  BY <1>2, <1>3, <1>4 DEF OrderInv

LEMMA OrderStep == TypeInv /\ OrderInv /\ [Next]_vars => OrderInv'
<1> SUFFICES ASSUME TypeInv, OrderInv, [Next]_vars PROVE OrderInv'
  OBVIOUS
<1>1. TypeOK /\ TypeOK'
  BY TypeInvStep DEF TypeInv
<1>2. CASE UNCHANGED vars
  BY <1>2 DEF vars, renVars, robVars, OrderInv, RowsOccupied, InOrder, Exact, Filled, Dist, Resolving, Alone,
              Flushing, Unwinding, Settled, NotUnwinding, Unresolved, Precedes, FromHead
<1>3. CASE Next
  <2>1. PICK dis \in Bundles, wb \in AtMostOne(CanWriteBack), xcpt \in AtMostOne(CanFault),
             exe \in AtMostOne(ToExecute), m \in BOOLEAN : Clock(dis, wb, xcpt, exe, m)
    BY <1>3 DEF Next
  <2>2. Edge(dis, wb, xcpt, exe, m)
    BY <2>1 DEF Edge
  <2>3. CASE ~NotUnwinding
    BY <1>1, <2>2, <2>3, UnwindingStep
  <2>4. CASE NotUnwinding
    <3>1. Filled(rob_val', rob_head', rob_tail')
      BY <1>1, <2>2, <2>4, FilledStep
    <3>2. RowsOccupied'
      <4>1. (RowsOccupied <=> IF NotUnwinding THEN Filled(rob_val, rob_head, rob_tail)
                                              ELSE Within(rob_val, rob_head, rob_tail))'
        BY <1>1, RowsAre, PTL
      <4>2. rob_val' \in SUBSET Slots
        BY <1>1 DEF TypeOK
      <4>3. Within(rob_val', rob_head', rob_tail')
        BY <3>1, <4>2, FilledWithin
      <4> QED
        BY <3>1, <4>1, <4>3 DEF Filled, Within, Dist
    <3>3. Exact'
      <4>1. CASE brinfo.mispredict
        BY <1>1, <2>2, <2>4, <4>1, ExactAfterMispredict
      <4>2. CASE ~brinfo.mispredict /\ ~flush_pipeline
        BY <1>1, <2>2, <2>4, <4>2, ExactAfterDispatch
      <4>3. CASE ~brinfo.mispredict /\ flush_pipeline
        <5>1. rob_val = {}
          BY <2>4, <4>3 DEF OrderInv, Flushing
        <5>2. rob_val' = {}
          BY <1>1, <2>2, <4>3, <5>1, Entries DEF Remaining, Edge, Clock, CanDispatch, Dispatched
        <5>3. Unresolved' = {} /\ branch_mask' = {}
          BY <1>1, <2>2, <4>3, <5>2 DEF Unresolved, TypeOK, Edge, Clock, BranchMaskGenerationLogic
        <5> QED
          BY <5>2, <5>3 DEF Exact
      <4> QED
        BY <4>1, <4>2, <4>3
    <3>4. Resolving' /\ Alone' /\ Flushing'
      BY <1>1, <2>2, <2>4, <3>1, ResolvingStep, AloneStep, FlushingStep
    <3>5. Unwinding'
      <4>1. rob_state' = "s_rollback" => flush_pipeline'
        BY <1>1, <2>2, <2>4 DEF Edge, Clock, Rob, RobFSM, NotUnwinding, flush_val, TypeOK
      <4> QED
        BY <4>1 DEF Unwinding, Settled, NotUnwinding
    <3> QED
      BY <3>1, <3>2, <3>3, <3>4, <3>5 DEF OrderInv, InOrder, Filled, Dist
  <2> QED
    BY <2>3, <2>4
<1> QED
  BY <1>2, <1>3

(* The oldest entry of a set is the one every other is behind.             *)
LEMMA OldestIs ==
    ASSUME TypeOK, NEW S \in SUBSET Slots, NEW x \in S, \A t \in S : t = x \/ Before(rob_head, x, t)
    PROVE  Oldest(S) = x
<1>1. rob_head \in Rows /\ \A s, t \in Slots : Precedes(s, t) <=> Before(rob_head, s, t)
  BY PrecedesIs DEF TypeOK
<1>2. \A t \in S : t = x \/ Precedes(x, t)
  BY <1>1
<1>3. ASSUME NEW y \in S, \A t \in S : t = y \/ Precedes(y, t) PROVE y = x
  BY <1>1, <1>3, BeforeOrder
<1> QED
  BY <1>2, <1>3 DEF Oldest

LEMMA OrderGives == Spec => [](TypeInv /\ OrderInv)
<1>1. Init => TypeInv /\ OrderInv
  BY TypeInvStart, OrderStart
<1>2. TypeInv /\ OrderInv /\ [Next]_vars => (TypeInv /\ OrderInv)'
  BY TypeInvStep, OrderStep
<1> QED
  BY <1>1, <1>2, PTL DEF Spec

(***************************************************************************)
(* The rows from head to tail hold the valid entries and each of them at   *)
(* least one, for every size of the buffer (rob.scala): no mispredict,     *)
(* partial commit or unwinding leaves an empty row in front of the head,   *)
(* which would stop commit for good.                                       *)
(***************************************************************************)
THEOREM RowsKept == Spec => []RowsOccupied
<1>1. OrderInv => RowsOccupied
  BY DEF OrderInv
<1> QED
  BY <1>1, OrderGives, PTL

(***************************************************************************)
(* An instruction's branch mask names exactly the older branches whose     *)
(* outcome is not known, and decode's mask those of all branches in        *)
(* flight, for any number of tags (decode.scala's                          *)
(* BranchMaskGenerationLogic, rob.scala): a mispredict kills all younger   *)
(* instructions and nothing else, although tags are resolved out of order  *)
(* and used again.                                                         *)
(***************************************************************************)
THEOREM MasksKept == Spec => []BranchMasksExact
<1>1. OrderInv => BranchMasksExact
  BY DEF OrderInv, InOrder, Settled, NotUnwinding, Exact, BranchMasksExact
<1> QED
  BY <1>1, OrderGives, PTL

(***************************************************************************)
(* An exception is taken by the oldest instruction in flight, with every   *)
(* branch before it resolved (rob.scala, exception_thrown).                *)
(***************************************************************************)
THEOREM ExceptionsPrecise == Spec => []ExceptionPrecise
<1>1. ASSUME TypeOK, OrderInv, exception_thrown
      PROVE  LET s == Oldest(rob_val) IN s \in rob_exception /\ rob_uop[s].br_mask = {}
  <2>1. PICK x \in rob_exception :
           x[1] = rob_head /\ \A t \in rob_val : t[1] = rob_head => t = x \/ x[2] < t[2]
    BY <1>1, Throwing
  <2>2. /\ rob_val \in SUBSET Slots /\ x \in rob_val /\ rob_head \in Rows
        /\ \A s, t \in Slots : Precedes(s, t) <=> Before(rob_head, s, t)
    BY <1>1, <2>1, PrecedesIs DEF TypeOK
  <2>3. ASSUME NEW t \in rob_val, t # x PROVE Before(rob_head, x, t)
    <3>1. t[1] \in Rows
      BY <2>2 DEF Slots
    <3>2. Dist(rob_head, x[1]) = 0 /\ Dist(rob_head, t[1]) \in Nat /\ (Dist(rob_head, t[1]) = 0 => t[1] = rob_head)
      BY <2>1, <2>2, <3>1, Distances
    <3> QED
      BY <2>1, <2>3, <3>2 DEF Before
  <2>4. Oldest(rob_val) = x
    BY <1>1, <2>2, <2>3, OldestIs
  <2>5. rob_state # "s_rollback"
    BY <1>1, Throwing
  <2>6. \A c \in Unresolved : ~Precedes(c, x)
    <3>1. Unresolved \subseteq rob_val
      BY <1>1 DEF Unresolved, TypeOK
    <3> QED
      BY <2>2, <2>3, <3>1, BeforeOrder
  <2>7. rob_uop[x].br_mask = {rob_uop[b].br_tag : b \in {c \in Unresolved : Precedes(c, x)}}
    BY <1>1, <2>2, <2>5 DEF OrderInv, InOrder, Settled, NotUnwinding, Exact
  <2>8. rob_uop[x].br_mask = {}
    BY <2>6, <2>7
  <2> QED
    BY <2>1, <2>4, <2>8
<1>2. TypeInv /\ OrderInv => ExceptionPrecise
  BY <1>1 DEF TypeInv, ExceptionPrecise
<1> QED
  BY <1>2, OrderGives, PTL

-----------------------------------------------------------------------------
(* The physical registers: each has one owner, a mispredict or an          *)
(* exception restores the map as it was, and only commits change the       *)
(* committed map.                                                          *)

\* t is the next instruction after s that writes l.
NextWriter(l, s, t) ==
    /\ s \in Writers(l) /\ t \in Writers(l) /\ Precedes(s, t)
    /\ \A u \in Writers(l) : ~(Precedes(s, u) /\ Precedes(u, t))

\* What an instruction gives back when it commits is what the writer before it got.
Chained ==
    \A l \in LRegs : \A s, t \in rob_val :
        NextWriter(l, s, t) => rob_uop[t].stale_pdst = rob_uop[s].pdst

\* The map table is what the last writer has left.
Topped ==
    \A l \in LRegs : \A s \in Writers(l) :
        (\A t \in Writers(l) : t = s \/ Precedes(t, s)) => map_table[l] = rob_uop[s].pdst

\* x0 is never renamed.
ZeroKept ==
    /\ map_table[0] = 0
    /\ \A s \in rob_val : IsFix(rob_uop[s]) /\ rob_uop[s].ldst = 0 =>
           rob_uop[s].pdst = 0 /\ rob_uop[s].stale_pdst = 0

\* The map as it was before the instructions of S, the last ones, were renamed.
MapBefore(S, l) == IF Writers(l) \cap S = {} THEN map_table[l]
                   ELSE rob_uop[Oldest(Writers(l) \cap S)].stale_pdst

Younger(b) == {s \in rob_val : Precedes(b, s)}

\* What the mispredict of b would restore.
SnapshotOf(b) ==
    /\ br_copies[rob_uop[b].br_tag] = [l \in LRegs |-> MapBefore(Younger(b), l)]
    /\ allocation_lists[rob_uop[b].br_tag] = InFlightPdsts(Younger(b))

Snapshots == Settled => \A b \in Unresolved : SnapshotOf(b)

RegisterInv == Chained /\ Topped /\ ZeroKept /\ OneOwner /\ Snapshots

-----------------------------------------------------------------------------
(* Program order is total, and a set of entries has a first and a last.    *)

LEMMA TotalOrder ==
    ASSUME TypeOK
    PROVE  /\ \A s \in Slots : ~Precedes(s, s)
           /\ \A s, t \in Slots : ~(Precedes(s, t) /\ Precedes(t, s))
           /\ \A s, t \in Slots : s = t \/ Precedes(s, t) \/ Precedes(t, s)
           /\ \A s, t, u \in Slots : Precedes(s, t) /\ Precedes(t, u) => Precedes(s, u)
<1>1. rob_head \in Rows
  BY DEF TypeOK
<1> QED
  BY <1>1, PrecedesIs, BeforeOrder, BeforeTransitive

LEMMA Ends ==
    ASSUME TypeOK
    PROVE  \A S \in SUBSET Slots : S # {} =>
             /\ \E x \in S : \A t \in S : t = x \/ Precedes(x, t)
             /\ \E x \in S : \A t \in S : t = x \/ Precedes(t, x)
<1> DEFINE Key(s) == 2 * Dist(rob_head, s[1]) + s[2]
           Rev(s) == 2 * NumRows - Key(s)
<1>1. rob_head \in Rows /\ Lanes \subseteq {0, 1} /\ NumRows \in Nat
  BY SizeAssumption DEF TypeOK, Lanes
<1>2. ASSUME NEW s \in Slots, NEW t \in Slots
      PROVE  Key(s) \in Nat /\ Rev(s) \in Nat /\ (Key(s) <= Key(t) => s = t \/ Precedes(s, t))
  <2>1. s[1] \in Rows /\ t[1] \in Rows /\ s[2] \in {0, 1} /\ t[2] \in {0, 1}
    BY <1>1 DEF Slots
  <2>2. Dist(rob_head, s[1]) \in 0 .. NumRows - 1 /\ Dist(rob_head, t[1]) \in 0 .. NumRows - 1
    BY <1>1, <2>1, Distances
  <2>3. Precedes(t, s) => Key(t) < Key(s)
    <3>1. Precedes(t, s) => Before(rob_head, t, s)
      BY PrecedesIs
    <3> QED
      BY <2>1, <2>2, <3>1 DEF Before
  <2>4. Key(s) \in Nat /\ Rev(s) \in Nat /\ Key(t) \in Nat
    BY <1>1, <2>1, <2>2
  <2>5. Key(s) <= Key(t) => ~Precedes(t, s)
    BY <2>3, <2>4
  <2> QED
    BY <2>4, <2>5, TotalOrder
<1> HIDE DEF Key
<1> SUFFICES ASSUME NEW S \in SUBSET Slots, S # {}
             PROVE  /\ \E x \in S : \A t \in S : t = x \/ Precedes(x, t)
                    /\ \E x \in S : \A t \in S : t = x \/ Precedes(t, x)
  OBVIOUS
<1>3. \E x \in S : \A t \in S : Key(x) <= Key(t)
  <2>1. {Key(s) : s \in S} \in SUBSET Nat /\ {Key(s) : s \in S} # {}
    BY <1>2
  <2>2. /\ Min({Key(s) : s \in S}) \in {Key(s) : s \in S}
        /\ \A y \in {Key(s) : s \in S} : Min({Key(s) : s \in S}) <= y
    BY <2>1, MinMember
  <2> QED
    BY <2>2
<1>4. \E x \in S : \A t \in S : Rev(x) <= Rev(t)
  <2> HIDE DEF Rev
  <2>1. {Rev(s) : s \in S} \in SUBSET Nat /\ {Rev(s) : s \in S} # {}
    BY <1>2
  <2>2. /\ Min({Rev(s) : s \in S}) \in {Rev(s) : s \in S}
        /\ \A y \in {Rev(s) : s \in S} : Min({Rev(s) : s \in S}) <= y
    BY <2>1, MinMember
  <2> QED
    BY <2>2
<1>5. \A s, t \in S : Rev(s) <= Rev(t) => Key(t) <= Key(s)
  BY <1>1, <1>2
<1> HIDE DEF Rev
<1> QED
  BY <1>2, <1>3, <1>4, <1>5

LEMMA OldestUnique ==
    ASSUME TypeOK
    PROVE  \A S \in SUBSET Slots : \A x \in S : (\A t \in S : t = x \/ Precedes(x, t)) => Oldest(S) = x
<1> SUFFICES ASSUME NEW S \in SUBSET Slots, NEW x \in S, \A t \in S : t = x \/ Precedes(x, t)
             PROVE  Oldest(S) = x
  OBVIOUS
<1>1. \A t \in S : t = x \/ Before(rob_head, x, t)
  BY PrecedesIs
<1> QED
  BY <1>1, OldestIs

LEMMA YoungestUnique ==
    ASSUME TypeOK
    PROVE  \A S \in SUBSET Slots : \A x \in S : (\A t \in S : t = x \/ Precedes(t, x)) => Youngest(S) = x
<1> SUFFICES ASSUME NEW S \in SUBSET Slots, NEW x \in S, \A t \in S : t = x \/ Precedes(t, x)
             PROVE  Youngest(S) = x
  OBVIOUS
<1>1. ASSUME NEW y \in S, \A t \in S : t = y \/ Precedes(t, y) PROVE y = x
  BY <1>1, TotalOrder
<1> QED
  BY <1>1 DEF Youngest

(* The committed map and the maps to go back to, without a choice.         *)
CommittedDef ==
    \A l \in LRegs :
        /\ Writers(l) = {} => CommittedMap[l] = map_table[l]
        /\ \A x \in Writers(l) : (\A t \in Writers(l) : t = x \/ Precedes(x, t)) =>
               CommittedMap[l] = rob_uop[x].stale_pdst

LEMMA CommittedIs ==
    ASSUME TypeOK
    PROVE  CommittedDef
<1> SUFFICES ASSUME NEW l \in LRegs
             PROVE  /\ Writers(l) = {} => CommittedMap[l] = map_table[l]
                    /\ \A x \in Writers(l) : (\A t \in Writers(l) : t = x \/ Precedes(x, t)) =>
                           CommittedMap[l] = rob_uop[x].stale_pdst
  BY DEF CommittedDef
<1>1. Writers(l) \in SUBSET Slots
  BY DEF Writers, TypeOK
<1>2. CommittedMap[l] = IF Writers(l) = {} THEN map_table[l] ELSE rob_uop[Oldest(Writers(l))].stale_pdst
  BY DEF CommittedMap
<1> QED
  BY <1>1, <1>2, OldestUnique

LEMMA BeforeIs ==
    ASSUME TypeOK
    PROVE  \A S, l :
             /\ Writers(l) \cap S = {} => MapBefore(S, l) = map_table[l]
             /\ \A x \in Writers(l) \cap S : (\A t \in Writers(l) \cap S : t = x \/ Precedes(x, t)) =>
                    MapBefore(S, l) = rob_uop[x].stale_pdst
<1> SUFFICES ASSUME NEW S, NEW l
             PROVE  /\ Writers(l) \cap S = {} => MapBefore(S, l) = map_table[l]
                    /\ \A x \in Writers(l) \cap S : (\A t \in Writers(l) \cap S : t = x \/ Precedes(x, t)) =>
                           MapBefore(S, l) = rob_uop[x].stale_pdst
  OBVIOUS
<1>1. Writers(l) \cap S \in SUBSET Slots
  BY DEF Writers, TypeOK
<1> QED
  BY <1>1, OldestUnique DEF MapBefore

SnapshotDef ==
    \A b, l :
        /\ Writers(l) \cap Younger(b) = {} => MapBefore(Younger(b), l) = map_table[l]
        /\ \A x \in Writers(l) \cap Younger(b) :
             (\A t \in Writers(l) \cap Younger(b) : t = x \/ Precedes(x, t)) =>
               MapBefore(Younger(b), l) = rob_uop[x].stale_pdst

LEMMA SnapshotIs ==
    ASSUME TypeOK
    PROVE  SnapshotDef
BY BeforeIs DEF SnapshotDef

-----------------------------------------------------------------------------
(* One clock edge: it takes a first part of the entries away to commit, a  *)
(* last part to squash, and dispatches behind the others.                  *)

Squashed == RolledBack \cup Killed

LEMMA SquashedLast ==
    ASSUME TypeOK, OrderInv
    PROVE  /\ Squashed \subseteq rob_val
           /\ \A s \in Squashed, t \in rob_val : Precedes(s, t) => t \in Squashed
           /\ brinfo.mispredict => /\ Settled /\ brinfo.rob_idx \in Unresolved
                                   /\ brinfo.tag = rob_uop[brinfo.rob_idx].br_tag
                                   /\ RolledBack = {} /\ Squashed = Younger(brinfo.rob_idx)
           /\ ~brinfo.mispredict => Squashed = RolledBack
           /\ NotUnwinding => RolledBack = {}
<1>1. rob_val \subseteq Slots /\ rob_head \in Rows /\ rob_tail \in Rows
  BY DEF TypeOK
<1>2. Settled => RolledBack = {}
  <2> SUFFICES ASSUME Settled, ~NotUnwinding PROVE {s \in rob_val : s[1] = rob_tail} = {}
    BY DEF RolledBack, NotUnwinding
  <2>1. Filled(rob_val, rob_head, rob_tail)
    BY DEF OrderInv, InOrder
  <2>2. Dist(rob_head, rob_tail) \in Int
    BY <1>1, Distances
  <2> QED
    BY <1>1, <2>1, <2>2 DEF Filled
<1>3. ASSUME brinfo.mispredict
      PROVE  /\ Settled /\ brinfo.rob_idx \in Unresolved /\ brinfo.tag = rob_uop[brinfo.rob_idx].br_tag
             /\ RolledBack = {} /\ Squashed = Younger(brinfo.rob_idx)
  <2>1. brinfo.valid /\ brinfo.rob_idx \in Unresolved /\ Killed = {s \in rob_val : Precedes(brinfo.rob_idx, s)}
    BY <1>3, KilledAre DEF OrderInv
  <2>2. Settled /\ brinfo.tag = rob_uop[brinfo.rob_idx].br_tag
    BY <2>1 DEF OrderInv, Resolving
  <2> QED
    BY <1>2, <2>1, <2>2 DEF Squashed, Younger
<1>4. ~brinfo.mispredict => Squashed = RolledBack
  BY NothingKilled DEF Squashed
<1>5. Squashed \subseteq rob_val
  BY DEF Squashed, RolledBack, Killed
<1>6. ASSUME NEW s \in Squashed, NEW t \in rob_val, Precedes(s, t) PROVE t \in Squashed
  <2>1. CASE brinfo.mispredict
    <3>1. brinfo.rob_idx \in Slots
      BY <1>1, <1>3, <2>1 DEF Unresolved, TypeOK
    <3>2. Precedes(brinfo.rob_idx, s)
      BY <1>3, <2>1 DEF Younger
    <3>3. Precedes(brinfo.rob_idx, t)
      BY <1>1, <1>5, <1>6, <3>1, <3>2, TotalOrder
    <3> QED
      BY <1>3, <2>1, <3>3 DEF Younger
  <2>2. CASE ~brinfo.mispredict
    <3>1. s \in RolledBack
      BY <1>4, <2>2
    <3>2. ~NotUnwinding /\ s[1] = rob_tail
      BY <3>1 DEF RolledBack, NotUnwinding
    <3>3. Within(rob_val, rob_head, rob_tail)
      BY <3>2, RowsAre DEF OrderInv
    <3>4. Before(rob_head, s, t)
      BY <1>1, <1>5, <1>6, PrecedesIs
    <3>5. s[1] \in Rows /\ t[1] \in Rows
      BY <1>1, <1>5 DEF Slots
    <3>6. Dist(rob_head, rob_tail) \in Int /\ Dist(rob_head, t[1]) \in Int
      BY <1>1, <3>5, Distances
    <3>7. t[1] = rob_tail
      BY <3>2, <3>3, <3>4, <3>6 DEF Within, Before
    <3> QED
      BY <1>4, <2>2, <3>2, <3>7 DEF RolledBack, NotUnwinding
  <2> QED
    BY <2>1, <2>2
<1> QED
  BY <1>2, <1>3, <1>4, <1>5, <1>6 DEF Settled

LEMMA CommittedFirst ==
    ASSUME TypeOK, OrderInv
    PROVE  /\ Committed \subseteq rob_val
           /\ \A s \in Committed, t \in rob_val : Precedes(t, s) => t \in Committed
           /\ Committed \cap Squashed = {}
           /\ ~NotUnwinding => Committed = {}
<1>1. rob_val \subseteq Slots /\ rob_head \in Rows /\ Committed \subseteq rob_val
  BY Committing DEF TypeOK
<1>2. ~NotUnwinding => Committed = {}
  BY Committing DEF NotUnwinding
<1>3. ASSUME NEW s \in Committed, NEW t \in rob_val, Precedes(t, s) PROVE t \in Committed
  <2>1. Before(rob_head, t, s) /\ s[1] = rob_head /\ t[1] \in Rows
    BY <1>1, <1>3, PrecedesIs, Committing DEF Slots
  <2>2. Dist(rob_head, s[1]) = 0 /\ Dist(rob_head, t[1]) \in Nat
    BY <1>1, <2>1, Distances
  <2>3. t[1] = rob_head /\ t[2] < s[2]
    BY <2>1, <2>2 DEF Before
  <2> QED
    BY <2>3, Committing
<1>4. ASSUME NEW s \in Committed, s \in Squashed PROVE FALSE
  <2>1. NotUnwinding
    BY <1>2
  <2>2. brinfo.mispredict
    BY <1>4, <2>1, SquashedLast
  <2>3. brinfo.rob_idx \in Unresolved /\ Precedes(brinfo.rob_idx, s)
    BY <1>4, <2>2, SquashedLast DEF Younger
  <2>4. brinfo.rob_idx \in Committed
    BY <1>3, <2>3 DEF Unresolved, TypeOK
  <2> QED
    BY <2>3, <2>4, Committing DEF Unresolved
<1> QED
  BY <1>1, <1>2, <1>3, <1>4

LEMMA Shape ==
    ASSUME TypeOK, OrderInv, NEW dis, NEW wb, NEW xcpt, NEW exe, NEW m, Edge(dis, wb, xcpt, exe, m), TypeOK'
    PROVE  /\ rob_val' = Remaining \cup Dispatched(dis)
           /\ Remaining = rob_val \ (Committed \cup Squashed)
           /\ Remaining \cap Dispatched(dis) = {} /\ Dispatched(dis) \subseteq Slots
           /\ Dispatched(dis) # {} => NotUnwinding /\ ~brinfo.mispredict /\ Squashed = {}
           /\ \A s, t \in Remaining : Precedes(s, t)' <=> Precedes(s, t)
           /\ \A s \in Remaining, t \in Dispatched(dis) : Precedes(s, t)' /\ ~Precedes(t, s)'
           /\ \A s, t \in Dispatched(dis) : Precedes(s, t)' <=> s[2] < t[2]
           /\ \A s \in Remaining : /\ rob_uop'[s].kind = rob_uop[s].kind /\ rob_uop'[s].ldst = rob_uop[s].ldst
                                   /\ rob_uop'[s].pdst = rob_uop[s].pdst
                                   /\ rob_uop'[s].stale_pdst = rob_uop[s].stale_pdst
                                   /\ rob_uop'[s].br_tag = rob_uop[s].br_tag
<1>1. rob_val' = Remaining \cup Dispatched(dis) /\ Dispatched(dis) \subseteq Slots
  BY Entries
<1>2. Remaining = rob_val \ (Committed \cup Squashed)
  BY DEF Remaining, Squashed
<1>3. Dispatched(dis) # {} => NotUnwinding /\ ~brinfo.mispredict /\ Squashed = {}
  <2> SUFFICES ASSUME Dispatched(dis) # {} PROVE NotUnwinding /\ ~brinfo.mispredict /\ Squashed = {}
    OBVIOUS
  <2>1. NotUnwinding /\ ~brinfo.mispredict
    BY DEF Dispatched, Edge, Clock, CanDispatch, rob_rdy, NotUnwinding
  <2> QED
    BY <2>1, SquashedLast
<1>4. /\ Remaining \cap Dispatched(dis) = {}
      /\ \A s, t \in Remaining : Precedes(s, t)' <=> Precedes(s, t)
      /\ \A s \in Remaining, t \in Dispatched(dis) : Precedes(s, t)' /\ ~Precedes(t, s)'
      /\ \A s, t \in Dispatched(dis) : Precedes(s, t)' <=> s[2] < t[2]
  <2>1. CASE NotUnwinding
    BY <2>1, OrderKept DEF OrderInv
  <2>2. CASE ~NotUnwinding
    <3>1. Dispatched(dis) = {} /\ Committed = {}
      BY <1>3, <2>2, CommittedFirst
    <3>2. rob_head' = rob_head
      BY <3>1 DEF Edge, Clock, Rob, RobHead
    <3>3. \A s, t : Precedes(s, t)' <=> Precedes(s, t)
      BY <3>2 DEF Precedes, FromHead
    <3> QED
      BY <3>1, <3>3
  <2> QED
    BY <2>1, <2>2
<1>5. ASSUME NEW s \in Remaining
      PROVE  /\ rob_uop'[s].kind = rob_uop[s].kind /\ rob_uop'[s].ldst = rob_uop[s].ldst
             /\ rob_uop'[s].pdst = rob_uop[s].pdst
             /\ rob_uop'[s].stale_pdst = rob_uop[s].stale_pdst
             /\ rob_uop'[s].br_tag = rob_uop[s].br_tag
  <2>1. rob_uop[s] \in RobUop /\ rob_uop'[s] = [rob_uop[s] EXCEPT !.br_mask = GetNewBrMask(@)]
    BY <1>4, Entries
  <2> QED
    BY <2>1 DEF RobUop
<1> QED
  BY <1>1, <1>2, <1>3, <1>4, <1>5

-----------------------------------------------------------------------------
(* The registers a bundle gets.                                            *)

LEMMA LaneEnds ==
    ASSUME NEW S \in SUBSET Lanes, NEW x \in S
    PROVE  /\ (\A y \in S : y <= x) => Max(S) = x
           /\ (\A y \in S : x <= y) => Min(S) = x
<1>1. S \subseteq Int
  BY SizeAssumption DEF Lanes
<1>2. ASSUME \A y \in S : y <= x PROVE Max(S) = x
  <2>1. \A y \in S : (\A z \in S : y >= z) => y = x
    BY <1>1, <1>2
  <2>2. \A z \in S : x >= z
    BY <1>1, <1>2
  <2> QED
    BY <2>1, <2>2 DEF Max
<1>3. ASSUME \A y \in S : x <= y PROVE Min(S) = x
  <2>1. \A y \in S : (\A z \in S : y <= z) => y = x
    BY <1>1, <1>3
  <2> QED
    BY <1>3, <2>1 DEF Min
<1> QED
  BY <1>2, <1>3

\* The slots of a bundle that write l.
NewWriters(dis, l) == {d \in Dispatched(dis) : LdstVal(dis[d[2]]) /\ dis[d[2]].ldst = l}

LEMMA Lane ==
    ASSUME TypeOK, NEW dis, NEW wb, NEW xcpt, NEW exe, NEW m, Edge(dis, wb, xcpt, exe, m)
    PROVE  /\ \A d \in Dispatched(dis) : /\ d[1] = rob_tail /\ d[2] \in Fires(dis) /\ d[2] \in Lanes /\ d[2] \in {0, 1}
                                         /\ LdstVal(dis[d[2]]) => d[2] \in Allocs(dis)
           /\ \A w \in Fires(dis) : <<rob_tail, w>> \in Dispatched(dis) /\ <<rob_tail, w>>[2] = w
           /\ \A d, e \in Dispatched(dis) : d[2] = e[2] => d = e
<1>1. Fires(dis) \subseteq Lanes /\ Lanes \subseteq {0, 1}
  BY SizeAssumption DEF Fires, Lanes
<1>2. \A d \in Dispatched(dis) : d = <<rob_tail, d[2]>>
  BY DEF Dispatched
<1> QED
  BY <1>1, <1>2, Entries DEF Allocs

LEMMA Fresh ==
    ASSUME TypeOK, NEW dis, NEW wb, NEW xcpt, NEW exe, NEW m, Edge(dis, wb, xcpt, exe, m)
    PROVE  /\ \A d \in Dispatched(dis) :
                /\ rob_uop'[d].kind = dis[d[2]].kind /\ rob_uop'[d].ldst = dis[d[2]].ldst
                /\ rob_uop'[d].pdst = pdst(dis, d[2]) /\ rob_uop'[d].stale_pdst = stale_pdst(dis, d[2])
                /\ LdstVal(rob_uop'[d]) <=> LdstVal(dis[d[2]])
                /\ IsFix(rob_uop'[d]) <=> IsFix(dis[d[2]])
                /\ LdstVal(dis[d[2]]) => /\ rob_uop'[d].pdst = requested_preg(d[2])
                                         /\ rob_uop'[d].pdst \in free_list
           /\ \A d, e \in Dispatched(dis) :
                d # e /\ LdstVal(dis[d[2]]) /\ LdstVal(dis[e[2]]) => rob_uop'[d].pdst # rob_uop'[e].pdst
           /\ JustAllocated(dis, 0) = {rob_uop'[d].pdst : d \in {e \in Dispatched(dis) : LdstVal(dis[e[2]])}}
<1> DEFINE D == Dispatched(dis)
<1>1. dis \in Bundles /\ CanDispatch(dis)
  BY DEF Edge, Clock
<1>2. ASSUME NEW d \in D
      PROVE  /\ rob_uop'[d].kind = dis[d[2]].kind /\ rob_uop'[d].ldst = dis[d[2]].ldst
             /\ rob_uop'[d].pdst = pdst(dis, d[2]) /\ rob_uop'[d].stale_pdst = stale_pdst(dis, d[2])
             /\ LdstVal(rob_uop'[d]) <=> LdstVal(dis[d[2]])
             /\ IsFix(rob_uop'[d]) <=> IsFix(dis[d[2]])
             /\ LdstVal(dis[d[2]]) => /\ rob_uop'[d].pdst = requested_preg(d[2])
                                      /\ rob_uop'[d].pdst \in free_list
  <2>1. rob_uop'[d] = DisUop(dis, d[2])
    BY <1>2, Entries
  <2>2. /\ rob_uop'[d].kind = dis[d[2]].kind /\ rob_uop'[d].ldst = dis[d[2]].ldst
        /\ rob_uop'[d].pdst = pdst(dis, d[2]) /\ rob_uop'[d].stale_pdst = stale_pdst(dis, d[2])
    BY <2>1 DEF DisUop
  <2>3. d[2] \in Fires(dis)
    BY Lane
  <2>4. LdstVal(dis[d[2]]) => pdst(dis, d[2]) = requested_preg(d[2]) /\ requested_preg(d[2]) \in free_list
    BY <1>1, <2>3, FromFreeList DEF pdst, LdstVal
  <2> QED
    BY <2>2, <2>4 DEF LdstVal, IsFix
<1>3. ASSUME NEW d \in D, NEW e \in D, LdstVal(dis[d[2]]), LdstVal(dis[e[2]]), d[2] = 0, e[2] = 1
      PROVE  requested_preg(d[2]) # requested_preg(e[2])
  <2>1. free_list \ {First(free_list)} # {}
    <3>1. can_allocate(e[2])
      BY <1>1, <1>3, Lane DEF CanDispatch, LdstVal
    <3> QED
      BY <1>3, <3>1 DEF can_allocate
  <2>2. free_list \ {First(free_list)} \in SUBSET Nat
    <3>1. free_list \in SUBSET Nat
      BY SizeAssumption DEF TypeOK, PRegs
    <3> HIDE DEF First
    <3> QED
      BY <3>1
  <2>3. Min(free_list \ {First(free_list)}) \in free_list \ {First(free_list)}
    BY <2>1, <2>2, MinMember
  <2> QED
    BY <1>3, <2>3 DEF requested_preg, First, Second
<1>4. ASSUME NEW d \in D, NEW e \in D, d # e, LdstVal(dis[d[2]]), LdstVal(dis[e[2]])
      PROVE  rob_uop'[d].pdst # rob_uop'[e].pdst
  <2>1. d[2] # e[2] /\ d[2] \in {0, 1} /\ e[2] \in {0, 1}
    BY <1>4, Lane
  <2>2. requested_preg(d[2]) # requested_preg(e[2])
    BY <1>3, <1>4, <2>1
  <2> QED
    BY <1>2, <1>4, <2>2
<1>5. JustAllocated(dis, 0) = {rob_uop'[d].pdst : d \in {e \in D : LdstVal(dis[e[2]])}}
  <2>1. JustAllocated(dis, 0) = {requested_preg(w) : w \in Allocs(dis)}
    BY SizeAssumption DEF JustAllocated, Allocs, Fires, Lanes
  <2>2. ASSUME NEW p
        PROVE  (\E w \in Allocs(dis) : p = requested_preg(w)) <=>
               \E d \in D : LdstVal(dis[d[2]]) /\ p = rob_uop'[d].pdst
    <3>1. ASSUME NEW w \in Allocs(dis), p = requested_preg(w)
          PROVE  \E d \in D : LdstVal(dis[d[2]]) /\ p = rob_uop'[d].pdst
      <4> DEFINE d == <<rob_tail, w>>
      <4>1. w \in Fires(dis) /\ LdstVal(dis[w])
        BY DEF Allocs
      <4>2. d \in D /\ d[2] = w
        BY <4>1, Lane
      <4> HIDE DEF d
      <4> QED
        BY <1>2, <3>1, <4>1, <4>2
    <3>2. ASSUME NEW d \in D, LdstVal(dis[d[2]]), p = rob_uop'[d].pdst
          PROVE  \E w \in Allocs(dis) : p = requested_preg(w)
      BY <1>2, <3>2, Lane
    <3> QED
      BY <3>1, <3>2
  <2> QED
    BY <2>1, <2>2
<1> QED
  BY <1>2, <1>4, <1>5

(* What a bundle leaves in the map, up to a lane.                          *)
LEMMA MapAfterIs ==
    ASSUME TypeOK, NEW dis, NEW wb, NEW xcpt, NEW exe, NEW m, Edge(dis, wb, xcpt, exe, m),
           NEW l \in LRegs, NEW w \in {0, 1}
    PROVE  /\ (\A d \in NewWriters(dis, l) : w < d[2]) => MapAfter(dis, w, l) = map_table[l]
           /\ \A t \in NewWriters(dis, l) :
                t[2] <= w /\ (\A d \in NewWriters(dis, l) : d[2] <= t[2] \/ w < d[2]) =>
                  MapAfter(dis, w, l) = rob_uop'[t].pdst
<1> DEFINE writers == {x \in Allocs(dis) : x <= w /\ dis[x].ldst = l}
<1>1. writers \in SUBSET Lanes
  BY DEF Allocs, Fires
<1>2. \A x : x \in writers <=> \E d \in NewWriters(dis, l) : d[2] = x /\ x <= w
  <2>1. ASSUME NEW x \in writers PROVE \E d \in NewWriters(dis, l) : d[2] = x /\ x <= w
    <3> DEFINE d == <<rob_tail, x>>
    <3>1. x \in Fires(dis) /\ LdstVal(dis[x]) /\ x <= w /\ dis[x].ldst = l
      BY DEF Allocs
    <3>2. d \in Dispatched(dis) /\ d[2] = x
      BY <3>1, Lane
    <3> HIDE DEF d
    <3> QED
      BY <3>1, <3>2 DEF NewWriters
  <2>2. ASSUME NEW d \in NewWriters(dis, l), d[2] <= w PROVE d[2] \in writers
    BY <2>2, Lane DEF NewWriters
  <2> QED
    BY <2>1, <2>2
<1>3. MapAfter(dis, w, l) = IF writers = {} THEN map_table[l] ELSE requested_preg(Max(writers))
  BY DEF MapAfter
<1>4. \A d \in NewWriters(dis, l) : d[2] \in {0, 1} /\ rob_uop'[d].pdst = requested_preg(d[2])
  BY Lane, Fresh DEF NewWriters
<1> HIDE DEF writers
<1>5. ASSUME \A d \in NewWriters(dis, l) : w < d[2] PROVE writers = {}
  BY <1>2, <1>4, <1>5
<1>6. ASSUME NEW t \in NewWriters(dis, l), t[2] <= w, \A d \in NewWriters(dis, l) : d[2] <= t[2] \/ w < d[2]
      PROVE  MapAfter(dis, w, l) = rob_uop'[t].pdst
  <2>1. t[2] \in writers
    BY <1>2, <1>6
  <2>2. \A y \in writers : y <= t[2]
    BY <1>2, <1>4, <1>6
  <2>3. Max(writers) = t[2]
    BY <1>1, <2>1, <2>2, LaneEnds
  <2> QED
    BY <1>3, <1>4, <2>1, <2>3
<1> QED
  BY <1>3, <1>5, <1>6

(* What a writer of a bundle replaces.                                     *)
LEMMA StaleIs ==
    ASSUME TypeOK, NEW dis, NEW wb, NEW xcpt, NEW exe, NEW m, Edge(dis, wb, xcpt, exe, m),
           NEW l \in LRegs, NEW t \in NewWriters(dis, l)
    PROVE  /\ (\A d \in NewWriters(dis, l) : ~(d[2] < t[2])) => rob_uop'[t].stale_pdst = map_table[l]
           /\ \A s \in NewWriters(dis, l) : s[2] < t[2] => rob_uop'[t].stale_pdst = rob_uop'[s].pdst
<1> DEFINE matches == {x \in Allocs(dis) : x < t[2] /\ dis[x].ldst = l}
<1>1. matches \in SUBSET Lanes
  BY DEF Allocs, Fires
<1>2. \A x : x \in matches <=> \E d \in NewWriters(dis, l) : d[2] = x /\ x < t[2]
  <2>1. ASSUME NEW x \in matches PROVE \E d \in NewWriters(dis, l) : d[2] = x /\ x < t[2]
    <3> DEFINE d == <<rob_tail, x>>
    <3>1. x \in Fires(dis) /\ LdstVal(dis[x]) /\ x < t[2] /\ dis[x].ldst = l
      BY DEF Allocs
    <3>2. d \in Dispatched(dis) /\ d[2] = x
      BY <3>1, Lane
    <3> HIDE DEF d
    <3> QED
      BY <3>1, <3>2 DEF NewWriters
  <2>2. ASSUME NEW d \in NewWriters(dis, l), d[2] < t[2] PROVE d[2] \in matches
    BY <2>2, Lane DEF NewWriters
  <2> QED
    BY <2>1, <2>2
<1>3. rob_uop'[t].stale_pdst = IF matches = {} THEN map_table[l] ELSE pdst(dis, Min(matches))
  <2>1. t \in Dispatched(dis) /\ LdstVal(dis[t[2]]) /\ dis[t[2]].ldst = l
    BY DEF NewWriters
  <2>2. rob_uop'[t].stale_pdst = stale_pdst(dis, t[2])
    BY <2>1, Fresh
  <2>3. stale_pdst(dis, t[2]) = Bypassed(dis, t[2], l)
    BY <2>1 DEF stale_pdst
  <2> QED
    BY <2>2, <2>3 DEF Bypassed
<1>4. \A d \in NewWriters(dis, l) : d[2] \in {0, 1} /\ rob_uop'[d].pdst = pdst(dis, d[2])
  BY Lane, Fresh DEF NewWriters
<1> HIDE DEF matches
<1>5. ASSUME NEW s \in NewWriters(dis, l), s[2] < t[2] PROVE rob_uop'[t].stale_pdst = rob_uop'[s].pdst
  <2>1. s[2] \in matches
    BY <1>2, <1>5
  <2>2. s[2] = 0 /\ t[2] = 1 /\ \A y \in matches : y = 0
    <3>1. \A y, z \in {0, 1} : y < z => y = 0 /\ z = 1
      OBVIOUS
    <3>2. s[2] = 0 /\ t[2] = 1
      BY <1>4, <1>5, <3>1
    <3> QED
      BY <1>2, <1>4, <3>1, <3>2
  <2>3. Min(matches) = s[2]
    BY <1>1, <2>1, <2>2, LaneEnds
  <2> QED
    BY <1>3, <1>4, <2>1, <2>3
<1> QED
  BY <1>2, <1>3, <1>5

-----------------------------------------------------------------------------
(* The map table and the free list after the edge.                         *)

LEMMA WritersNext ==
    ASSUME TypeOK, OrderInv, NEW dis, NEW wb, NEW xcpt, NEW exe, NEW m, Edge(dis, wb, xcpt, exe, m), TypeOK',
           NEW l
    PROVE  Writers(l)' = (Writers(l) \cap Remaining) \cup NewWriters(dis, l)
<1>1. \A s \in Remaining : (LdstVal(rob_uop'[s]) <=> LdstVal(rob_uop[s])) /\ rob_uop'[s].ldst = rob_uop[s].ldst
  BY Shape DEF LdstVal, IsFix
<1>2. \A d \in Dispatched(dis) : (LdstVal(rob_uop'[d]) <=> LdstVal(dis[d[2]])) /\ rob_uop'[d].ldst = dis[d[2]].ldst
  BY Fresh
<1>3. rob_val' = Remaining \cup Dispatched(dis) /\ Remaining \subseteq rob_val
  BY Shape
<1> QED
  BY <1>1, <1>2, <1>3 DEF Writers, NewWriters

(* Unwinding a row undoes its writes, the oldest one of a register last.   *)
LEMMA Undone ==
    ASSUME TypeOK, OrderInv, ZeroKept, ~brinfo.mispredict, NEW l \in LRegs
    PROVE  LET undo == {w \in Lanes : <<rob_tail, w>> \in Unwound /\ rob_uop[<<rob_tail, w>>].ldst = l}
           IN  /\ undo = {} => MapBefore(Squashed, l) = map_table[l]
               /\ undo # {} => rob_uop[<<rob_tail, Min(undo)>>].stale_pdst = MapBefore(Squashed, l)
<1> DEFINE undo == {w \in Lanes : <<rob_tail, w>> \in Unwound /\ rob_uop[<<rob_tail, w>>].ldst = l}
<1>1. Squashed = RolledBack /\ Squashed \subseteq rob_val
  BY SquashedLast
<1>2. \A s \in RolledBack : s[1] = rob_tail /\ s = <<rob_tail, s[2]>> /\ s[2] \in Lanes /\ s \in Slots
  BY DEF RolledBack, TypeOK, Slots
<1>3. Unwound = {s \in RolledBack : IsFix(rob_uop[s])}
  BY DEF Unwound
<1>4. CASE l = 0
  <2>1. Writers(l) = {}
    BY <1>4 DEF Writers, LdstVal
  <2>2. MapBefore(Squashed, l) = map_table[l] /\ map_table[l] = 0
    BY <1>4, <2>1 DEF MapBefore, ZeroKept
  <2>3. ASSUME undo # {} PROVE rob_uop[<<rob_tail, Min(undo)>>].stale_pdst = 0
    <3>1. undo \in SUBSET Lanes
      OBVIOUS
    <3>2. Min(undo) \in undo
      BY <2>3, <3>1, LaneMember
    <3>3. <<rob_tail, Min(undo)>> \in Unwound /\ rob_uop[<<rob_tail, Min(undo)>>].ldst = 0
      BY <1>4, <3>2
    <3> QED
      BY <1>1, <1>3, <3>3 DEF ZeroKept
  <2> QED
    BY <2>2, <2>3
<1>5. CASE l # 0
  <2>1. \A s : s \in Writers(l) \cap Squashed <=> s \in Unwound /\ rob_uop[s].ldst = l
    BY <1>1, <1>3, <1>5 DEF Writers, LdstVal
  <2>2. \A w \in undo : <<rob_tail, w>> \in Writers(l) \cap Squashed
    BY <2>1
  <2>3. \A s \in Writers(l) \cap Squashed : s[2] \in undo /\ s = <<rob_tail, s[2]>> /\ s \in Slots
    <3> SUFFICES ASSUME NEW s \in Writers(l) \cap Squashed PROVE s[2] \in undo /\ s = <<rob_tail, s[2]>> /\ s \in Slots
      OBVIOUS
    <3>1. s \in Unwound /\ rob_uop[s].ldst = l
      BY <2>1
    <3>2. s = <<rob_tail, s[2]>> /\ s[2] \in Lanes /\ s \in Slots
      BY <1>2, <1>3, <3>1
    <3>3. <<rob_tail, s[2]>> \in Unwound /\ rob_uop[<<rob_tail, s[2]>>].ldst = l
      BY <3>1, <3>2
    <3> QED
      BY <3>2, <3>3
  <2>4. undo = {} => MapBefore(Squashed, l) = map_table[l]
    <3>1. undo = {} => Writers(l) \cap Squashed = {}
      BY <2>3
    <3> HIDE DEF undo
    <3> QED
      BY <3>1 DEF MapBefore
  <2>5. ASSUME undo # {} PROVE rob_uop[<<rob_tail, Min(undo)>>].stale_pdst = MapBefore(Squashed, l)
    <3> DEFINE x == <<rob_tail, Min(undo)>>
    <3>1. undo \in SUBSET Nat /\ undo \subseteq Lanes
      BY SizeAssumption DEF Lanes
    <3>2. Min(undo) \in undo /\ \A y \in undo : Min(undo) <= y
      BY <2>5, <3>1, MinMember
    <3>3. x \in Writers(l) \cap Squashed /\ x[1] = rob_tail /\ x[2] = Min(undo)
      BY <2>2, <3>2
    <3>4. ASSUME NEW t \in Writers(l) \cap Squashed, t # x PROVE Precedes(x, t)
      <4>1. t[2] \in undo /\ t = <<rob_tail, t[2]>> /\ t \in Slots /\ x \in Slots
        BY <2>3, <3>3
      <4>2. t[2] # Min(undo)
        BY <3>4, <4>1
      <4>3. Min(undo) < t[2]
        <5>1. \A a, b \in Nat : a <= b /\ b # a => a < b
          OBVIOUS
        <5>2. Min(undo) \in Nat /\ t[2] \in Nat /\ Min(undo) <= t[2]
          BY <3>1, <3>2, <4>1
        <5> HIDE DEF undo
        <5> QED
          BY <4>2, <5>1, <5>2
      <4>4. t[1] = rob_tail
        BY <4>1
      <4>5. x[2] < t[2] /\ x[1] = t[1]
        BY <3>3, <4>3, <4>4
      <4> HIDE DEF x
      <4> QED
        BY <4>5 DEF Precedes
    <3> HIDE DEF x
    <3>5. MapBefore(Squashed, l) = rob_uop[x].stale_pdst
      BY <3>3, <3>4, BeforeIs
    <3> QED
      BY <3>5 DEF x
  <2> QED
    BY <2>4, <2>5
<1> QED
  BY <1>4, <1>5

LEMMA MapNext ==
    ASSUME TypeOK, OrderInv, RegisterInv, NEW dis, NEW wb, NEW xcpt, NEW exe, NEW m,
           Edge(dis, wb, xcpt, exe, m), TypeOK', NEW l \in LRegs
    PROVE  /\ NewWriters(dis, l) = {} => map_table'[l] = MapBefore(Squashed, l)
           /\ \A t \in NewWriters(dis, l) :
                (\A d \in NewWriters(dis, l) : d[2] <= t[2]) => map_table'[l] = rob_uop'[t].pdst
<1> DEFINE undo == {w \in Lanes : <<rob_tail, w>> \in Unwound /\ rob_uop[<<rob_tail, w>>].ldst = l}
<1>1. map_table'[l] = IF brinfo.mispredict THEN br_copies[brinfo.tag][l]
                      ELSE IF undo # {} THEN rob_uop[<<rob_tail, Min(undo)>>].stale_pdst
                      ELSE MapAfter(dis, Width - 1, l)
  BY DEF Edge, Clock, RenameMapTable
<1>2. NewWriters(dis, l) # {} => ~brinfo.mispredict /\ Squashed = {}
  BY Shape DEF NewWriters
<1>3. CASE brinfo.mispredict
  <2>1. /\ Settled /\ brinfo.rob_idx \in Unresolved /\ brinfo.tag = rob_uop[brinfo.rob_idx].br_tag
        /\ Squashed = Younger(brinfo.rob_idx)
    BY <1>3, SquashedLast
  <2>2. br_copies[brinfo.tag] = [k \in LRegs |-> MapBefore(Squashed, k)]
    BY <2>1 DEF RegisterInv, Snapshots, SnapshotOf
  <2> QED
    BY <1>1, <1>2, <1>3, <2>2
<1>4. CASE ~brinfo.mispredict
  <2>1. /\ undo = {} => MapBefore(Squashed, l) = map_table[l]
        /\ undo # {} => rob_uop[<<rob_tail, Min(undo)>>].stale_pdst = MapBefore(Squashed, l)
    BY <1>4, Undone DEF RegisterInv
  <2>2. Squashed = {} => undo = {}
    BY DEF Unwound, Squashed
  <2> HIDE DEF undo
  <2>3. Width - 1 \in {0, 1} /\ \A d \in NewWriters(dis, l) : d[2] <= Width - 1 /\ d[2] \in {0, 1}
    BY Lane, SizeAssumption DEF NewWriters, Lanes
  <2>4. /\ NewWriters(dis, l) = {} => MapAfter(dis, Width - 1, l) = map_table[l]
        /\ \A t \in NewWriters(dis, l) :
             (\A d \in NewWriters(dis, l) : d[2] <= t[2]) => MapAfter(dis, Width - 1, l) = rob_uop'[t].pdst
    BY <2>3, MapAfterIs
  <2> QED
    BY <1>1, <1>2, <1>4, <2>1, <2>2, <2>4
<1> QED
  BY <1>3, <1>4

\* What commits gives back.
Returned == {rob_uop[s].stale_pdst : s \in {c \in Committed : LdstVal(rob_uop[c])}} \ {0}

LEMMA FreeNext ==
    ASSUME TypeOK, OrderInv, RegisterInv, NEW dis, NEW wb, NEW xcpt, NEW exe, NEW m,
           Edge(dis, wb, xcpt, exe, m), TypeOK'
    PROVE  free_list' = (free_list \ JustAllocated(dis, 0)) \cup InFlightPdsts(Squashed) \cup Returned
<1>1. ASSUME NEW S \in SUBSET rob_val
      PROVE  /\ {rob_uop[s].stale_pdst : s \in {c \in S : IsFix(rob_uop[c])}} \ {0} =
                {rob_uop[s].stale_pdst : s \in {c \in S : LdstVal(rob_uop[c])}} \ {0}
             /\ {rob_uop[s].pdst : s \in {c \in S : IsFix(rob_uop[c])}} \ {0} = InFlightPdsts(S)
  <2>1. \A s \in S : LdstVal(rob_uop[s]) => IsFix(rob_uop[s]) /\ rob_uop[s].pdst # 0
    BY DEF LdstVal, RegisterInv, OneOwner, InFlightPdsts
  <2>2. \A s \in S : IsFix(rob_uop[s]) /\ ~LdstVal(rob_uop[s]) => rob_uop[s].pdst = 0 /\ rob_uop[s].stale_pdst = 0
    BY DEF LdstVal, RegisterInv, ZeroKept
  <2> QED
    BY <2>1, <2>2 DEF InFlightPdsts
<1>2. Committed \in SUBSET rob_val /\ RolledBack \in SUBSET rob_val
  BY CommittedFirst DEF RolledBack
<1>3. Enqueued = Returned \cup InFlightPdsts(RolledBack)
  <2>1. Enqueued = ({rob_uop[s].stale_pdst : s \in {c \in Committed : IsFix(rob_uop[c])}} \ {0})
                   \cup ({rob_uop[s].pdst : s \in {c \in RolledBack : IsFix(rob_uop[c])}} \ {0})
    BY DEF Enqueued, Unwound
  <2> QED
    BY <1>1, <1>2, <2>1 DEF Returned
<1>4. CASE brinfo.mispredict
  <2>1. /\ Settled /\ brinfo.rob_idx \in Unresolved /\ brinfo.tag = rob_uop[brinfo.rob_idx].br_tag
        /\ RolledBack = {} /\ Squashed = Younger(brinfo.rob_idx)
    BY <1>4, SquashedLast
  <2>2. allocation_lists[brinfo.tag] = InFlightPdsts(Squashed)
    BY <2>1 DEF RegisterInv, Snapshots, SnapshotOf
  <2>3. JustAllocated(dis, 0) = {} /\ InFlightPdsts(RolledBack) = {}
    BY <1>4, <2>1 DEF Edge, Clock, CanDispatch, JustAllocated, Allocs, InFlightPdsts
  <2>4. free_list' = free_list \cup allocation_lists[brinfo.tag] \cup Enqueued
    BY <1>4 DEF Edge, Clock, RenameFreeList
  <2> QED
    BY <1>3, <2>2, <2>3, <2>4
<1>5. CASE ~brinfo.mispredict
  <2>1. free_list' = (free_list \ JustAllocated(dis, 0)) \cup Enqueued /\ Squashed = RolledBack
    BY <1>5, SquashedLast DEF Edge, Clock, RenameFreeList
  <2> QED
    BY <1>3, <2>1
<1> QED
  BY <1>4, <1>5

-----------------------------------------------------------------------------
(* The writers of a register stay a chain that ends in the map table.      *)

LEMMA ChainStep ==
    ASSUME TypeOK, OrderInv, RegisterInv, NEW dis, NEW wb, NEW xcpt, NEW exe, NEW m,
           Edge(dis, wb, xcpt, exe, m), TypeOK'
    PROVE  Chained' /\ Topped'
<1> DEFINE R == Remaining  D == Dispatched(dis)  C == Committed  X == Squashed
<1>1. /\ R = rob_val \ (C \cup X) /\ R \cap D = {} /\ rob_val \subseteq Slots /\ C \subseteq rob_val
      /\ D # {} => X = {}
      /\ \A s, t \in R : Precedes(s, t)' <=> Precedes(s, t)
      /\ \A s \in R, t \in D : Precedes(s, t)' /\ ~Precedes(t, s)'
      /\ \A s, t \in D : Precedes(s, t)' <=> s[2] < t[2]
      /\ \A s \in R : rob_uop'[s].pdst = rob_uop[s].pdst /\ rob_uop'[s].stale_pdst = rob_uop[s].stale_pdst
  BY Shape, CommittedFirst DEF TypeOK
<1>2. /\ \A s \in X, t \in rob_val : Precedes(s, t) => t \in X
      /\ \A s \in C, t \in rob_val : Precedes(t, s) => t \in C
      /\ X \subseteq rob_val /\ C \cap X = {}
  BY SquashedLast, CommittedFirst
<1>3. /\ \A s \in Slots : ~Precedes(s, s)
      /\ \A s, t \in Slots : ~(Precedes(s, t) /\ Precedes(t, s))
      /\ \A s, t \in Slots : s = t \/ Precedes(s, t) \/ Precedes(t, s)
      /\ \A s, t, u \in Slots : Precedes(s, t) /\ Precedes(t, u) => Precedes(s, u)
  BY TotalOrder
<1>4. \A l : Writers(l) \subseteq rob_val /\ Writers(l)' = (Writers(l) \cap R) \cup NewWriters(dis, l)
             /\ NewWriters(dis, l) \subseteq D
  BY WritersNext DEF Writers, NewWriters
<1> HIDE DEF R, D, C, X
<1>5. ASSUME NEW l \in LRegs, NEW s, NEW t, NextWriter(l, s, t)'
      PROVE  rob_uop'[t].stale_pdst = rob_uop'[s].pdst
  <2> DEFINE W == Writers(l)  N == NewWriters(dis, l)
  <2>1. /\ s \in (W \cap R) \cup N /\ t \in (W \cap R) \cup N /\ Precedes(s, t)'
        /\ \A u \in (W \cap R) \cup N : ~(Precedes(s, u)' /\ Precedes(u, t)')
    BY <1>4, <1>5 DEF NextWriter
  <2>2. W \subseteq rob_val /\ N \subseteq D
    BY <1>4
  <2> HIDE DEF W, N
  <2>3. CASE s \in W \cap R /\ t \in W \cap R
    <3>1. Precedes(s, t)
      BY <1>1, <2>1, <2>3
    <3>2. ASSUME NEW u \in W, Precedes(s, u), Precedes(u, t) PROVE FALSE
      <4>1. u \in R
        BY <1>1, <1>2, <2>2, <2>3, <3>2
      <4> QED
        BY <1>1, <2>1, <2>3, <3>2, <4>1
    <3>3. NextWriter(l, s, t)
      BY <2>3, <3>1, <3>2 DEF NextWriter, W
    <3>4. rob_uop[t].stale_pdst = rob_uop[s].pdst
      BY <2>2, <2>3, <3>3 DEF RegisterInv, Chained
    <3> QED
      BY <1>1, <2>3, <3>4
  <2>4. CASE s \in W \cap R /\ t \in N
    <3>1. X = {} /\ t \in D
      BY <1>1, <2>2, <2>4
    <3>2. \A d \in N : ~(d[2] < t[2])
      BY <1>1, <2>1, <2>2, <2>4
    <3>3. rob_uop'[t].stale_pdst = map_table[l]
      BY <2>4, <3>2, StaleIs DEF N
    <3>4. ASSUME NEW u \in W PROVE u = s \/ Precedes(u, s)
      <4>1. CASE u \in R
        <5>1. ~Precedes(s, u)
          BY <1>1, <2>1, <2>4, <3>1, <4>1
        <5> QED
          BY <1>1, <1>3, <2>2, <2>4, <4>1, <5>1
      <4>2. CASE u \in C
        <5>1. ~Precedes(s, u)
          BY <1>1, <1>2, <2>2, <2>4, <4>2
        <5> QED
          BY <1>1, <1>3, <2>2, <2>4, <5>1
      <4> QED
        BY <1>1, <2>2, <3>1, <4>1, <4>2
    <3>5. map_table[l] = rob_uop[s].pdst
      BY <2>4, <3>4 DEF RegisterInv, Topped, W
    <3> QED
      BY <1>1, <2>4, <3>3, <3>5
  <2>5. CASE s \in N /\ t \in N
    <3>1. s[2] < t[2]
      BY <1>1, <2>1, <2>2, <2>5
    <3> QED
      BY <2>5, <3>1, StaleIs DEF N
  <2>6. ~(s \in N /\ t \in W \cap R)
    BY <1>1, <2>1, <2>2
  <2> QED
    BY <2>1, <2>3, <2>4, <2>5, <2>6
<1>6. ASSUME NEW l \in LRegs, NEW s \in Writers(l)', \A t \in Writers(l)' : t = s \/ Precedes(t, s)'
      PROVE  map_table'[l] = rob_uop'[s].pdst
  <2> DEFINE W == Writers(l)  N == NewWriters(dis, l)
  <2>1. /\ s \in (W \cap R) \cup N /\ \A u \in (W \cap R) \cup N : u = s \/ Precedes(u, s)'
    BY <1>4, <1>6
  <2>2. W \subseteq rob_val /\ N \subseteq D
    BY <1>4
  <2>3. /\ N = {} => map_table'[l] = MapBefore(X, l)
        /\ \A t \in N : (\A d \in N : d[2] <= t[2]) => map_table'[l] = rob_uop'[t].pdst
    BY MapNext DEF X
  <2>4. \A d \in N : d[2] \in {0, 1}
    BY Lane DEF N, NewWriters
  <2>5. /\ W \cap X = {} => MapBefore(X, l) = map_table[l]
        /\ \A x \in W \cap X : (\A t \in W \cap X : t = x \/ Precedes(x, t)) =>
             MapBefore(X, l) = rob_uop[x].stale_pdst
    BY BeforeIs
  <2> HIDE DEF W, N
  <2>6. CASE s \in N
    <3>1. \A d \in N : d = s \/ d[2] < s[2]
      BY <1>1, <2>1, <2>2, <2>6
    <3>2. \A d \in N : d[2] <= s[2]
      BY <2>4, <2>6, <3>1
    <3> QED
      BY <2>3, <2>6, <3>2
  <2>7. CASE s \in W \cap R
    <3>1. N = {}
      BY <1>1, <2>1, <2>2, <2>7
    <3>2. ASSUME NEW u \in W, u \notin X PROVE u = s \/ Precedes(u, s)
      <4>1. CASE u \in R
        BY <1>1, <2>1, <2>7, <4>1
      <4>2. CASE u \in C
        <5>1. ~Precedes(s, u)
          BY <1>1, <1>2, <2>2, <2>7, <4>2
        <5> QED
          BY <1>1, <1>3, <2>2, <2>7, <5>1
      <4> QED
        BY <1>1, <2>2, <3>2, <4>1, <4>2
    <3>3. CASE W \cap X = {}
      <4>1. map_table[l] = rob_uop[s].pdst
        BY <2>7, <3>2, <3>3 DEF RegisterInv, Topped, W
      <4> QED
        BY <1>1, <2>3, <2>5, <2>7, <3>1, <3>3, <4>1
    <3>4. CASE W \cap X # {}
      <4>1. W \cap X \in SUBSET Slots
        BY <1>1, <2>2
      <4>2. PICK x \in W \cap X : \A t \in W \cap X : t = x \/ Precedes(x, t)
        BY <3>4, <4>1, Ends
      <4>3. MapBefore(X, l) = rob_uop[x].stale_pdst
        BY <2>5, <4>2
      <4>4. Precedes(s, x)
        BY <1>1, <1>2, <1>3, <2>2, <2>7, <4>2
      <4>5. ASSUME NEW u \in W, Precedes(s, u), Precedes(u, x) PROVE FALSE
        <5>1. u \in X \/ u = s \/ Precedes(u, s)
          BY <3>2
        <5> QED
          BY <1>1, <1>3, <2>2, <2>7, <4>2, <4>5, <5>1
      <4>6. NextWriter(l, s, x)
        BY <2>7, <4>2, <4>4, <4>5 DEF NextWriter, W
      <4>7. rob_uop[x].stale_pdst = rob_uop[s].pdst
        BY <2>2, <2>7, <4>2, <4>6 DEF RegisterInv, Chained
      <4> QED
        BY <1>1, <2>3, <2>7, <3>1, <4>3, <4>7
    <3> QED
      BY <3>3, <3>4
  <2> QED
    BY <2>1, <2>6, <2>7
<1> QED
  BY <1>5, <1>6 DEF Chained, Topped

-----------------------------------------------------------------------------
(* Only a commit changes the committed map, to the last register committed. *)

LEMMA CommittedNext ==
    ASSUME TypeOK, OrderInv, RegisterInv, NEW dis, NEW wb, NEW xcpt, NEW exe, NEW m,
           Edge(dis, wb, xcpt, exe, m), TypeOK', NEW l \in LRegs
    PROVE  /\ Writers(l) \cap Committed = {} => CommittedMap'[l] = CommittedMap[l]
           /\ \A y \in Writers(l) \cap Committed :
                (\A t \in Writers(l) \cap Committed : t = y \/ Precedes(t, y)) => CommittedMap'[l] = rob_uop[y].pdst
<1> DEFINE R == Remaining  D == Dispatched(dis)  C == Committed  X == Squashed
           W == Writers(l)  N == NewWriters(dis, l)
<1>1. /\ R = rob_val \ (C \cup X) /\ R \cap D = {} /\ rob_val \subseteq Slots /\ C \subseteq rob_val
      /\ D # {} => X = {}
      /\ \A s, t \in R : Precedes(s, t)' <=> Precedes(s, t)
      /\ \A s \in R, t \in D : Precedes(s, t)' /\ ~Precedes(t, s)'
      /\ \A s, t \in D : Precedes(s, t)' <=> s[2] < t[2]
      /\ \A s \in R : rob_uop'[s].pdst = rob_uop[s].pdst /\ rob_uop'[s].stale_pdst = rob_uop[s].stale_pdst
  BY Shape, CommittedFirst DEF TypeOK
<1>2. /\ \A s \in X, t \in rob_val : Precedes(s, t) => t \in X
      /\ \A s \in C, t \in rob_val : Precedes(t, s) => t \in C
      /\ X \subseteq rob_val /\ C \cap X = {}
  BY SquashedLast, CommittedFirst
<1>3. /\ \A s \in Slots : ~Precedes(s, s)
      /\ \A s, t \in Slots : ~(Precedes(s, t) /\ Precedes(t, s))
      /\ \A s, t \in Slots : s = t \/ Precedes(s, t) \/ Precedes(t, s)
      /\ \A s, t, u \in Slots : Precedes(s, t) /\ Precedes(t, u) => Precedes(s, u)
  BY TotalOrder
<1>4. W \subseteq rob_val /\ N \subseteq D /\ Writers(l)' = (W \cap R) \cup N
  BY WritersNext DEF Writers, NewWriters
<1>5. /\ W = {} => CommittedMap[l] = map_table[l]
      /\ \A x \in W : (\A t \in W : t = x \/ Precedes(x, t)) => CommittedMap[l] = rob_uop[x].stale_pdst
  BY CommittedIs DEF CommittedDef
<1>6. /\ (W \cap R) \cup N = {} => CommittedMap'[l] = map_table'[l]
      /\ \A x \in (W \cap R) \cup N : (\A t \in (W \cap R) \cup N : t = x \/ Precedes(x, t)') =>
             CommittedMap'[l] = rob_uop'[x].stale_pdst
  <2>1. CommittedDef'
    BY CommittedIs, PTL
  <2> QED
    BY <1>4, <2>1 DEF CommittedDef
<1>7. /\ N = {} => map_table'[l] = MapBefore(X, l)
      /\ \A t \in N : (\A d \in N : ~(d[2] < t[2])) => rob_uop'[t].stale_pdst = map_table[l]
  BY MapNext, StaleIs
<1>8. /\ W \cap X = {} => MapBefore(X, l) = map_table[l]
      /\ \A x \in W \cap X : (\A t \in W \cap X : t = x \/ Precedes(x, t)) =>
             MapBefore(X, l) = rob_uop[x].stale_pdst
  BY BeforeIs
<1>9. \A d \in N : d[2] \in {0, 1}
  BY Lane DEF NewWriters
<1>10. /\ \A s \in W, t \in W : NextWriter(l, s, t) => rob_uop[t].stale_pdst = rob_uop[s].pdst
       /\ \A s \in W : (\A t \in W : t = s \/ Precedes(t, s)) => map_table[l] = rob_uop[s].pdst
       /\ \A s \in W, t \in W : NextWriter(l, s, t) <=> Precedes(s, t) /\ \A u \in W : ~(Precedes(s, u) /\ Precedes(u, t))
  BY <1>4 DEF RegisterInv, Chained, Topped, NextWriter
<1>11. \A d, e \in D : d[2] = e[2] => d = e
  BY Lane
<1> HIDE DEF R, D, C, X, W, N
\* What the first writer that does not commit replaces.
<1>12. /\ W \ C = {} => CommittedMap'[l] = map_table[l]
       /\ \A o \in W \ C : (\A t \in W \ C : t = o \/ Precedes(o, t)) => CommittedMap'[l] = rob_uop[o].stale_pdst
  <2>1. ASSUME NEW o \in W \ C, \A t \in W \ C : t = o \/ Precedes(o, t), W \cap R # {}
        PROVE  CommittedMap'[l] = rob_uop[o].stale_pdst
    <3>1. o \in R
      <4>1. PICK r \in W \cap R : TRUE
        BY <2>1
      <4>2. r \notin C /\ r \notin X
        BY <1>1, <4>1
      <4>3. r = o \/ Precedes(o, r)
        BY <2>1, <4>1, <4>2
      <4>4. o \notin X
        BY <1>1, <1>2, <4>1, <4>2, <4>3
      <4> QED
        BY <1>1, <1>4, <2>1, <4>4
    <3>2. \A t \in (W \cap R) \cup N : t = o \/ Precedes(o, t)'
      BY <1>1, <1>4, <2>1, <3>1
    <3>3. CommittedMap'[l] = rob_uop'[o].stale_pdst
      BY <1>6, <2>1, <3>1, <3>2
    <3> QED
      BY <1>1, <3>1, <3>3
  <2>2. CASE W \cap R # {}
    BY <1>1, <1>4, <2>1, <2>2
  <2>3. CASE W \cap R = {} /\ N # {}
    <3>1. X = {} /\ W \ C = {}
      BY <1>1, <1>4, <2>3
    <3>2. PICK n \in N : \A d \in N : n[2] <= d[2]
      BY <1>9, <2>3
    <3>3. \A d \in N : ~(d[2] < n[2])
      BY <1>9, <3>2
    <3>4. \A d \in N : d = n \/ n[2] < d[2]
      BY <1>4, <1>9, <1>11, <3>2
    <3>5. \A d \in (W \cap R) \cup N : d = n \/ Precedes(n, d)'
      BY <1>1, <1>4, <2>3, <3>4
    <3>6. CommittedMap'[l] = rob_uop'[n].stale_pdst
      BY <1>6, <3>5
    <3> QED
      BY <1>7, <3>1, <3>3, <3>6
  <2>4. CASE W \cap R = {} /\ N = {}
    <3>1. W \ C = W \cap X
      BY <1>1, <1>2, <1>4, <2>4
    <3>2. CommittedMap'[l] = MapBefore(X, l)
      BY <1>6, <1>7, <2>4
    <3> QED
      BY <1>8, <3>1, <3>2
  <2> QED
    BY <2>2, <2>3, <2>4
<1>13. ASSUME W \ C # {}
       PROVE  \E o \in W \ C : /\ \A t \in W \ C : t = o \/ Precedes(o, t)
                               /\ CommittedMap'[l] = rob_uop[o].stale_pdst
  <2>1. W \ C \in SUBSET Slots
    BY <1>1, <1>4
  <2>2. \E x \in W \ C : \A t \in W \ C : t = x \/ Precedes(x, t)
    BY <1>13, <2>1, Ends
  <2> QED
    BY <1>12, <1>13, <2>2
<1>14. ASSUME W \cap C = {} PROVE CommittedMap'[l] = CommittedMap[l]
  <2>1. W \ C = W
    BY <1>14
  <2>2. CASE W = {}
    BY <1>5, <1>12, <2>2
  <2>3. CASE W # {}
    BY <1>5, <1>13, <2>1, <2>3
  <2> QED
    BY <2>2, <2>3
<1>15. ASSUME NEW y \in W \cap C, \A t \in W \cap C : t = y \/ Precedes(t, y)
       PROVE  CommittedMap'[l] = rob_uop[y].pdst
  <2>1. CASE W \ C = {}
    <3>1. \A t \in W : t = y \/ Precedes(t, y)
      BY <1>15, <2>1
    <3> QED
      BY <1>10, <1>12, <2>1, <3>1
  <2>2. CASE W \ C # {}
    <3>1. PICK o \in W \ C : /\ \A t \in W \ C : t = o \/ Precedes(o, t)
                             /\ CommittedMap'[l] = rob_uop[o].stale_pdst
      BY <1>13, <2>2
    <3>2. Precedes(y, o)
      BY <1>1, <1>2, <1>3, <1>4, <3>1
    <3>3. ASSUME NEW u \in W, Precedes(y, u), Precedes(u, o) PROVE FALSE
      BY <1>1, <1>3, <1>4, <1>15, <3>1, <3>3
    <3>4. NextWriter(l, y, o)
      BY <1>10, <3>1, <3>2, <3>3
    <3> QED
      BY <1>10, <3>1, <3>4
  <2> QED
    BY <2>1, <2>2
<1> QED
  BY <1>14, <1>15 DEF W, C

-----------------------------------------------------------------------------
(* x0 stays out of it.                                                     *)

LEMMA ZeroStep ==
    ASSUME TypeOK, OrderInv, RegisterInv, NEW dis, NEW wb, NEW xcpt, NEW exe, NEW m,
           Edge(dis, wb, xcpt, exe, m), TypeOK'
    PROVE  ZeroKept'
<1>1. 0 \in LRegs
  BY SizeAssumption DEF LRegs
<1>2. map_table[0] = 0
  BY DEF RegisterInv, ZeroKept
<1>3. map_table'[0] = 0
  <2>1. NewWriters(dis, 0) = {} /\ Writers(0) = {}
    BY DEF NewWriters, Writers, LdstVal
  <2>2. MapBefore(Squashed, 0) = map_table[0]
    BY <2>1 DEF MapBefore
  <2> QED
    BY <1>1, <1>2, <2>1, <2>2, MapNext
<1>4. ASSUME NEW s \in Remaining, IsFix(rob_uop'[s]), rob_uop'[s].ldst = 0
      PROVE  rob_uop'[s].pdst = 0 /\ rob_uop'[s].stale_pdst = 0
  <2>1. s \in rob_val /\ IsFix(rob_uop[s]) /\ rob_uop[s].ldst = 0
    BY <1>4, Shape DEF IsFix
  <2>2. rob_uop[s].pdst = 0 /\ rob_uop[s].stale_pdst = 0
    BY <2>1 DEF RegisterInv, ZeroKept
  <2> QED
    BY <2>2, Shape
<1>5. ASSUME NEW d \in Dispatched(dis), rob_uop'[d].ldst = 0
      PROVE  rob_uop'[d].pdst = 0 /\ rob_uop'[d].stale_pdst = 0
  <2>1. /\ dis[d[2]].ldst = 0 /\ rob_uop'[d].pdst = pdst(dis, d[2])
        /\ rob_uop'[d].stale_pdst = stale_pdst(dis, d[2])
    BY <1>5, Fresh
  <2> QED
    BY <1>2, <2>1 DEF pdst, stale_pdst, LdstVal
<1>6. rob_val' = Remaining \cup Dispatched(dis)
  BY Shape
<1> QED
  BY <1>3, <1>4, <1>5, <1>6 DEF ZeroKept

-----------------------------------------------------------------------------
(* What commits replaces what was committed before, link by link.          *)

LEMMA Links ==
    ASSUME TypeOK, OrderInv, RegisterInv, NEW dis, NEW wb, NEW xcpt, NEW exe, NEW m,
           Edge(dis, wb, xcpt, exe, m), TypeOK', NEW l \in LRegs
    PROVE  LET ws == Writers(l) \cap Committed
           IN  /\ ws = {} => CommittedMap'[l] = CommittedMap[l]
               /\ ws # {} => \E y \in ws : /\ CommittedMap'[l] = rob_uop[y].pdst
                                           /\ \A t \in ws : ~Precedes(y, t)
               /\ ws # {} => \E s \in ws : rob_uop[s].stale_pdst = CommittedMap[l]
               /\ \A s \in ws : \/ rob_uop[s].stale_pdst = CommittedMap[l]
                                \/ \E p \in ws : rob_uop[s].stale_pdst = rob_uop[p].pdst /\ Precedes(p, s)
               /\ \A p \in ws : \/ CommittedMap'[l] = rob_uop[p].pdst
                                \/ \E s \in ws : rob_uop[s].stale_pdst = rob_uop[p].pdst
<1> DEFINE C == Committed  W == Writers(l)
<1>1. /\ \A s \in C, t \in rob_val : Precedes(t, s) => t \in C
      /\ rob_val \subseteq Slots /\ W \subseteq rob_val
  BY CommittedFirst DEF TypeOK, Writers
<1>2. /\ \A s \in Slots : ~Precedes(s, s)
      /\ \A s, t \in Slots : ~(Precedes(s, t) /\ Precedes(t, s))
      /\ \A s, t \in Slots : s = t \/ Precedes(s, t) \/ Precedes(t, s)
      /\ \A s, t, u \in Slots : Precedes(s, t) /\ Precedes(t, u) => Precedes(s, u)
  BY TotalOrder
<1>3. \A x \in W : (\A t \in W : t = x \/ Precedes(x, t)) => CommittedMap[l] = rob_uop[x].stale_pdst
  BY CommittedIs DEF CommittedDef
<1>4. /\ W \cap C = {} => CommittedMap'[l] = CommittedMap[l]
      /\ \A y \in W \cap C : (\A t \in W \cap C : t = y \/ Precedes(t, y)) => CommittedMap'[l] = rob_uop[y].pdst
  BY CommittedNext
<1>5. \A s \in W, t \in W : Precedes(s, t) /\ (\A u \in W : ~(Precedes(s, u) /\ Precedes(u, t))) =>
          rob_uop[t].stale_pdst = rob_uop[s].pdst
  BY <1>1 DEF RegisterInv, Chained, NextWriter
<1> HIDE DEF C, W
<1>6. ASSUME NEW S, S \subseteq W, S # {}
      PROVE  /\ \E x \in S : \A t \in S : t = x \/ Precedes(x, t)
             /\ \E x \in S : \A t \in S : t = x \/ Precedes(t, x)
  <2>1. S \in SUBSET Slots
    BY <1>1, <1>6
  <2> QED
    BY <1>6, <2>1, Ends
<1>7. ASSUME W \cap C # {}
      PROVE  \E y \in W \cap C : CommittedMap'[l] = rob_uop[y].pdst /\ \A t \in W \cap C : ~Precedes(y, t)
  <2>1. PICK y \in W \cap C : \A t \in W \cap C : t = y \/ Precedes(t, y)
    BY <1>6, <1>7
  <2> QED
    BY <1>1, <1>2, <1>4, <2>1
<1>8. ASSUME W \cap C # {} PROVE \E s \in W \cap C : rob_uop[s].stale_pdst = CommittedMap[l]
  <2>1. PICK y \in W \cap C : TRUE
    BY <1>8
  <2>2. PICK x \in W : \A t \in W : t = x \/ Precedes(x, t)
    BY <1>6, <1>8
  <2>3. x \in C
    BY <1>1, <2>1, <2>2
  <2> QED
    BY <1>3, <2>2, <2>3
<1>9. ASSUME NEW s \in W \cap C
      PROVE  \/ rob_uop[s].stale_pdst = CommittedMap[l]
             \/ \E p \in W \cap C : rob_uop[s].stale_pdst = rob_uop[p].pdst /\ Precedes(p, s)
  <2> DEFINE S == {t \in W : Precedes(t, s)}
  <2>1. CASE S = {}
    <3>1. \A t \in W : t = s \/ Precedes(s, t)
      BY <1>1, <1>2, <2>1
    <3> QED
      BY <1>3, <3>1
  <2>2. CASE S # {}
    <3>1. PICK p \in S : \A t \in S : t = p \/ Precedes(t, p)
      BY <1>6, <2>2
    <3>2. \A u \in W : ~(Precedes(p, u) /\ Precedes(u, s))
      BY <1>1, <1>2, <3>1
    <3>3. rob_uop[s].stale_pdst = rob_uop[p].pdst
      BY <1>5, <3>1, <3>2
    <3>4. p \in C
      BY <1>1, <3>1
    <3> QED
      BY <3>1, <3>3, <3>4
  <2> QED
    BY <2>1, <2>2
<1>10. ASSUME NEW p \in W \cap C
       PROVE  CommittedMap'[l] = rob_uop[p].pdst \/ \E s \in W \cap C : rob_uop[s].stale_pdst = rob_uop[p].pdst
  <2> DEFINE S == {t \in W \cap C : Precedes(p, t)}
  <2>1. CASE S = {}
    <3>1. \A t \in W \cap C : t = p \/ Precedes(t, p)
      BY <1>1, <1>2, <2>1
    <3> QED
      BY <1>4, <3>1
  <2>2. CASE S # {}
    <3>1. PICK s \in S : \A t \in S : t = s \/ Precedes(s, t)
      BY <1>6, <2>2
    <3>2. \A u \in W : ~(Precedes(p, u) /\ Precedes(u, s))
      <4> SUFFICES ASSUME NEW u \in W, Precedes(p, u), Precedes(u, s) PROVE FALSE
        OBVIOUS
      <4>1. u \in S
        BY <1>1, <3>1
      <4> QED
        BY <1>1, <1>2, <3>1, <4>1
    <3>3. rob_uop[s].stale_pdst = rob_uop[p].pdst
      BY <1>5, <3>1, <3>2
    <3> QED
      BY <3>1, <3>3
  <2> QED
    BY <2>1, <2>2
<1> QED
  BY <1>4, <1>7, <1>8, <1>9, <1>10 DEF C, W

-----------------------------------------------------------------------------
(* Every register keeps exactly one owner.                                 *)

LEMMA OwnerStep ==
    ASSUME TypeOK, OrderInv, RegisterInv, NEW dis, NEW wb, NEW xcpt, NEW exe, NEW m,
           Edge(dis, wb, xcpt, exe, m), TypeOK'
    PROVE  OneOwner'
<1> DEFINE R == Remaining  D == Dispatched(dis)  C == Committed  X == Squashed
           A == {s \in rob_val : LdstVal(rob_uop[s])}
           N == {d \in D : LdstVal(dis[d[2]])}
           pd(s) == rob_uop[s].pdst
           pn(s) == rob_uop'[s].pdst
           st(s) == rob_uop[s].stale_pdst
           ldst(s) == rob_uop[s].ldst
           old(l) == CommittedMap[l]
           new(l) == CommittedMap'[l]
           ws(l) == {s \in A \cap C : ldst(s) = l}
           U == PRegs \ {0}
<1>1. /\ \A p \in free_list : p \in U
      /\ \A s \in A : pd(s) \in U /\ pd(s) \notin free_list
      /\ \A l \in LRegs : old(l) # 0 => old(l) \in U /\ old(l) \notin free_list
      /\ \A l \in LRegs, s \in A : old(l) # pd(s)
      /\ \A s, t \in A : s # t => pd(s) # pd(t)
      /\ \A l, k \in LRegs : l # k /\ old(l) # 0 => old(l) # old(k)
      /\ \A p \in U : \/ p \in free_list \/ (\E l \in LRegs : p = old(l)) \/ (\E s \in A : p = pd(s))
  <2> DEFINE committed == {CommittedMap[l] : l \in LRegs} \ {0}
             inflight == {rob_uop[s].pdst : s \in {t \in rob_val : LdstVal(rob_uop[t])}}
  <2>1. /\ free_list \cup committed \cup inflight = PRegs \ {0}
        /\ free_list \cap (committed \cup inflight) = {}
        /\ committed \cap inflight = {}
        /\ \A s, t \in rob_val : /\ s # t /\ LdstVal(rob_uop[s]) /\ LdstVal(rob_uop[t])
                                  => rob_uop[s].pdst # rob_uop[t].pdst
        /\ \A l, k \in LRegs : l # k /\ CommittedMap[l] # 0 => CommittedMap[l] # CommittedMap[k]
    BY DEF RegisterInv, OneOwner, InFlightPdsts
  <2>2. \A p : p \in committed <=> p # 0 /\ \E l \in LRegs : p = old(l)
    OBVIOUS
  <2>3. \A p : p \in inflight <=> \E s \in A : p = pd(s)
    OBVIOUS
  <2> HIDE DEF committed, inflight
  <2>4. /\ \A p \in free_list : p \in U
        /\ \A p \in committed : p \in U /\ p \notin free_list /\ p \notin inflight
        /\ \A p \in inflight : p \in U /\ p \notin free_list
        /\ \A p \in U : p \in free_list \/ p \in committed \/ p \in inflight
    BY <2>1
  <2>5. \A s, t \in A : s # t => pd(s) # pd(t)
    BY <2>1
  <2>6. \A l, k \in LRegs : l # k /\ old(l) # 0 => old(l) # old(k)
    BY <2>1
  <2>7. 0 \notin U
    OBVIOUS
  <2> HIDE DEF A, U, pd, old
  <2>8. \A s \in A : pd(s) \in U /\ pd(s) \notin free_list
    BY <2>3, <2>4
  <2>9. \A l \in LRegs : old(l) # 0 => old(l) \in U /\ old(l) \notin free_list
    BY <2>2, <2>4
  <2>10. \A l \in LRegs, s \in A : old(l) # pd(s)
    BY <2>2, <2>3, <2>4, <2>7, <2>8
  <2>11. \A p \in U : \/ p \in free_list \/ (\E l \in LRegs : p = old(l)) \/ (\E s \in A : p = pd(s))
    BY <2>2, <2>3, <2>4
  <2> QED
    BY <2>4, <2>5, <2>6, <2>8, <2>9, <2>10, <2>11
<1>2. /\ rob_val' = R \cup D /\ R \cap D = {} /\ \A s \in A : s \in R \/ s \in C \/ s \in X
      /\ R \cap C = {} /\ R \cap X = {} /\ C \cap X = {}
      /\ \A s \in R : pn(s) = pd(s)
  BY Shape, CommittedFirst
<1>3. /\ \A s \in R : LdstVal(rob_uop'[s]) <=> s \in A
      /\ \A d \in D : LdstVal(rob_uop'[d]) <=> d \in N
  <2>1. \A s \in R : s \in rob_val /\ (LdstVal(rob_uop'[s]) <=> LdstVal(rob_uop[s]))
    BY Shape DEF LdstVal, IsFix
  <2>2. \A d \in D : LdstVal(rob_uop'[d]) <=> LdstVal(dis[d[2]])
    BY Fresh
  <2> QED
    BY <2>1, <2>2
<1>4. /\ \A d \in N : pn(d) \in free_list
      /\ \A d, e \in N : d # e => pn(d) # pn(e)
      /\ \A p : p \in JustAllocated(dis, 0) <=> \E d \in N : p = pn(d)
  <2>1. JustAllocated(dis, 0) = {rob_uop'[d].pdst : d \in N}
    BY Fresh
  <2> QED
    BY <2>1, Fresh
<1>5. \A p : p \in free_list' <=> \/ p \in free_list /\ ~\E d \in N : p = pn(d)
                                  \/ \E s \in A \cap X : p = pd(s)
                                  \/ p # 0 /\ \E s \in A \cap C : p = st(s)
  <2>1. free_list' = (free_list \ JustAllocated(dis, 0)) \cup InFlightPdsts(X) \cup Returned
    BY FreeNext
  <2>2. \A p : p \in InFlightPdsts(X) <=> \E s \in A \cap X : p = pd(s)
    BY SquashedLast DEF InFlightPdsts
  <2>3. \A p : p \in Returned <=> p # 0 /\ \E s \in A \cap C : p = st(s)
    BY CommittedFirst DEF Returned
  <2> HIDE DEF A, N, X, C, pd, pn, st
  <2> QED
    BY <1>4, <2>1, <2>2, <2>3
<1>6. \A s \in A : ldst(s) \in LRegs
  BY DEF TypeOK, RobUop
<1>7. ASSUME NEW l \in LRegs
      PROVE  /\ ws(l) = {} => new(l) = old(l)
             /\ ws(l) # {} => \E y \in ws(l) : new(l) = pd(y) /\ \A t \in ws(l) : ~Precedes(y, t)
             /\ ws(l) # {} => \E s \in ws(l) : st(s) = old(l)
             /\ \A s \in ws(l) : st(s) = old(l) \/ \E p \in ws(l) : st(s) = pd(p) /\ Precedes(p, s)
             /\ \A p \in ws(l) : new(l) = pd(p) \/ \E s \in ws(l) : st(s) = pd(p)
  <2>1. ws(l) = Writers(l) \cap C
    BY DEF Writers
  <2> QED
    BY <2>1, Links
<1>8. \A l : ws(l) \subseteq A \cap C /\ \A s \in ws(l) : ldst(s) = l
  OBVIOUS
<1>9. \A s \in A \cap C : s \in ws(ldst(s))
  OBVIOUS
<1>10. U = PRegs \ {0} /\ 0 \notin U
  OBVIOUS
<1> HIDE DEF R, D, C, X, A, N, pd, pn, st, ldst, old, new, ws, U
<1>11. \A l \in LRegs : \/ ws(l) = {} /\ new(l) = old(l)
                        \/ \E y \in ws(l) : new(l) = pd(y) /\ y \in A \cap C /\ ldst(y) = l /\ \A t \in ws(l) : ~Precedes(y, t)
  BY <1>7, <1>8
<1>12. \A l, k \in LRegs : l # k /\ new(l) # 0 => new(l) # new(k)
  BY <1>1, <1>11
<1> DEFINE inf(p) == (\E s \in A \cap R : p = pd(s)) \/ (\E d \in N : p = pn(d))
           com(p) == p # 0 /\ \E l \in LRegs : p = new(l)
<1>13. ASSUME NEW p, com(p) PROVE ~inf(p) /\ p \in U
  <2>1. PICK l \in LRegs : p = new(l)
    BY <1>13
  <2>2. CASE p = old(l)
    BY <1>1, <1>4, <1>13, <2>2
  <2>3. CASE \E y \in A \cap C : p = pd(y)
    BY <1>1, <1>2, <1>4, <2>3
  <2> QED
    BY <1>11, <2>1, <2>2, <2>3
<1>14. ASSUME NEW p \in free_list' PROVE p \in U /\ ~inf(p) /\ ~com(p)
  <2>1. CASE p \in free_list /\ ~\E d \in N : p = pn(d)
    BY <1>1, <1>11, <2>1
  <2>2. CASE \E s \in A \cap X : p = pd(s)
    BY <1>1, <1>2, <1>4, <1>11, <2>2
  <2>3. ASSUME NEW s \in A \cap C, p = st(s), p # 0 PROVE p \in U /\ ~inf(p) /\ ~com(p)
    <3>1. ldst(s) \in LRegs /\ s \in ws(ldst(s))
      BY <1>6, <1>9
    <3>2. CASE p = old(ldst(s))
      <4>1. p \in U /\ ~inf(p)
        BY <1>1, <1>4, <2>3, <3>1, <3>2
      <4>2. \A l \in LRegs : p # new(l)
        BY <1>1, <1>11, <2>3, <3>1, <3>2
      <4> QED
        BY <4>1, <4>2
    <3>3. ASSUME NEW q \in ws(ldst(s)), p = pd(q), Precedes(q, s) PROVE p \in U /\ ~inf(p) /\ ~com(p)
      <4>1. q \in A \cap C /\ ldst(q) = ldst(s)
        BY <1>8, <3>3
      <4>2. p \in U /\ ~inf(p)
        BY <1>1, <1>2, <1>4, <3>3, <4>1
      <4>3. ASSUME NEW l \in LRegs, p = new(l) PROVE FALSE
        <5>1. PICK y \in ws(l) : new(l) = pd(y) /\ y \in A \cap C /\ ldst(y) = l /\ \A t \in ws(l) : ~Precedes(y, t)
          BY <1>1, <1>11, <3>3, <4>1, <4>3
        <5>2. y = q
          BY <1>1, <3>3, <4>1, <4>3, <5>1
        <5> QED
          BY <3>1, <3>3, <4>1, <5>1, <5>2
      <4> QED
        BY <4>2, <4>3
    <3> QED
      BY <1>7, <2>3, <3>1, <3>2, <3>3
  <2> QED
    BY <1>5, <2>1, <2>2, <2>3
<1>15. ASSUME NEW p \in U PROVE p \in free_list' \/ inf(p) \/ com(p)
  <2>1. CASE p \in free_list
    BY <1>5, <2>1
  <2>2. ASSUME NEW l \in LRegs, p = old(l) PROVE p \in free_list' \/ com(p)
    <3>1. CASE ws(l) = {}
      BY <1>7, <1>10, <2>2, <3>1
    <3>2. CASE ws(l) # {}
      BY <1>5, <1>7, <1>8, <1>10, <2>2, <3>2
    <3> QED
      BY <3>1, <3>2
  <2>3. ASSUME NEW s \in A, p = pd(s) PROVE p \in free_list' \/ inf(p) \/ com(p)
    <3>1. CASE s \in R
      BY <2>3, <3>1
    <3>2. CASE s \in X
      BY <1>5, <2>3, <3>2
    <3>3. CASE s \in C
      <4>1. ldst(s) \in LRegs /\ s \in ws(ldst(s))
        BY <1>6, <1>9, <3>3
      <4>2. new(ldst(s)) = pd(s) \/ \E t \in ws(ldst(s)) : st(t) = pd(s)
        BY <1>7, <4>1
      <4> QED
        BY <1>5, <1>8, <1>10, <2>3, <4>1, <4>2
    <3> QED
      BY <1>2, <3>1, <3>2, <3>3
  <2> QED
    BY <1>1, <2>1, <2>2, <2>3
<1>16. ASSUME NEW s \in rob_val', NEW t \in rob_val', s # t, LdstVal(rob_uop'[s]), LdstVal(rob_uop'[t])
       PROVE  pn(s) # pn(t)
  <2>1. (s \in A \cap R \/ s \in N) /\ (t \in A \cap R \/ t \in N)
    BY <1>2, <1>3, <1>16
  <2> QED
    BY <1>1, <1>2, <1>4, <1>16, <2>1
<1> DEFINE committed == {CommittedMap'[l] : l \in LRegs} \ {0}
           inflight == {rob_uop'[s].pdst : s \in {t \in rob_val' : LdstVal(rob_uop'[t])}}
<1>17. \A p : p \in inflight <=> inf(p)
  <2>1. \A s : s \in rob_val' /\ LdstVal(rob_uop'[s]) <=> s \in A \cap R \/ s \in N
    BY <1>2, <1>3 DEF N
  <2>2. \A s \in A \cap R : pd(s) = pn(s)
    BY <1>2
  <2>3. \A p : p \in inflight <=> \E s \in rob_val' : LdstVal(rob_uop'[s]) /\ p = pn(s)
    BY DEF pn
  <2> HIDE DEF inflight
  <2> QED
    BY <2>1, <2>2, <2>3
<1>18. \A p : p \in committed <=> com(p)
  BY DEF new
<1> HIDE DEF inf, com, committed, inflight
<1>19. /\ free_list' \cup committed \cup inflight = PRegs \ {0}
       /\ free_list' \cap (committed \cup inflight) = {}
       /\ committed \cap inflight = {}
  <2>1. ASSUME NEW p, inf(p) PROVE p \in U
    BY <1>1, <1>4, <2>1 DEF inf
  <2> QED
    BY <1>10, <1>13, <1>14, <1>15, <1>17, <1>18, <2>1
<1>20. \A l, k \in LRegs : l # k /\ CommittedMap'[l] # 0 => CommittedMap'[l] # CommittedMap'[k]
  BY <1>12 DEF new
<1>21. \A s, t \in rob_val' : s # t /\ LdstVal(rob_uop'[s]) /\ LdstVal(rob_uop'[t]) => rob_uop'[s].pdst # rob_uop'[t].pdst
  BY <1>16 DEF pn
<1> QED
  BY <1>19, <1>20, <1>21 DEF OneOwner, InFlightPdsts, committed, inflight

-----------------------------------------------------------------------------
(* The snapshots: a branch that stays in flight, and one just dispatched.  *)

LEMMA OldSnapshot ==
    ASSUME TypeOK, OrderInv, RegisterInv, NotUnwinding, NEW dis, NEW wb, NEW xcpt, NEW exe, NEW m,
           Edge(dis, wb, xcpt, exe, m), TypeOK',
           NEW b \in Unresolved, b \in Remaining, ~(brinfo.valid /\ b = brinfo.rob_idx)
    PROVE  SnapshotOf(b)'
<1> DEFINE R == Remaining  D == Dispatched(dis)  C == Committed  X == Squashed
           Y == Younger(b)  tag == rob_uop[b].br_tag
<1>1. /\ rob_val' = R \cup D
      /\ R = rob_val \ (C \cup X) /\ R \cap D = {} /\ rob_val \subseteq Slots /\ C \subseteq rob_val
      /\ D # {} => X = {}
      /\ \A s, t \in R : Precedes(s, t)' <=> Precedes(s, t)
      /\ \A s \in R, t \in D : Precedes(s, t)' /\ ~Precedes(t, s)'
      /\ \A s, t \in D : Precedes(s, t)' <=> s[2] < t[2]
      /\ \A s \in R : rob_uop'[s].pdst = rob_uop[s].pdst /\ rob_uop'[s].stale_pdst = rob_uop[s].stale_pdst
  BY Shape, CommittedFirst DEF TypeOK
<1>2. /\ \A s \in X, t \in rob_val : Precedes(s, t) => t \in X
      /\ \A s \in C, t \in rob_val : Precedes(t, s) => t \in C
      /\ X \subseteq rob_val /\ C \cap X = {}
  BY SquashedLast, CommittedFirst
<1>3. /\ \A s \in Slots : ~Precedes(s, s)
      /\ \A s, t \in Slots : s = t \/ Precedes(s, t) \/ Precedes(t, s)
      /\ \A s, t, u \in Slots : Precedes(s, t) /\ Precedes(t, u) => Precedes(s, u)
  BY TotalOrder
<1>4. b \in rob_val /\ \A s : s \in Y <=> s \in rob_val /\ Precedes(b, s)
  BY DEF Unresolved, TypeOK, Younger
<1>5. Y \cap C = {}
  BY <1>1, <1>2, <1>4
<1>6. X \subseteq Y
  <2>1. CASE ~brinfo.mispredict
    <3>1. X = {}
      BY <2>1, SquashedLast
    <3> QED
      BY <3>1
  <2>2. CASE brinfo.mispredict
    <3> DEFINE i == brinfo.rob_idx
    <3>1. i \in Unresolved /\ brinfo.valid /\ X = Younger(i)
      BY <2>2, SquashedLast, KilledAre DEF OrderInv
    <3>2. i \in rob_val /\ \A s : s \in X <=> s \in rob_val /\ Precedes(i, s)
      BY <3>1 DEF Unresolved, TypeOK, Younger
    <3>3. Precedes(b, i)
      BY <1>1, <1>3, <1>4, <3>1, <3>2
    <3> QED
      BY <1>1, <1>3, <1>4, <3>2, <3>3
  <2> QED
    BY <2>1, <2>2
<1>7. \A s : s \in Younger(b)' <=> s \in Y \cap R \/ s \in D
  BY <1>1, <1>4 DEF Younger
<1>8. /\ br_copies[tag] = [l \in LRegs |-> MapBefore(Y, l)] /\ allocation_lists[tag] = InFlightPdsts(Y)
      /\ tag \in Tags /\ rob_uop'[b].br_tag = tag
  BY <1>4, Shape DEF RegisterInv, Snapshots, SnapshotOf, Settled, TypeOK, RobUop
<1>9. {w \in Branches(dis) : br_tag(dis, w) = tag} = {}
  <2>1. tag \in branch_mask
    BY DEF OrderInv, InOrder, Settled, Exact
  <2>2. dis \in Bundles /\ CanDispatch(dis)
    BY DEF Edge, Clock
  <2> QED
    BY <2>1, <2>2, NewTags
<1>10. br_copies'[tag] = br_copies[tag]
  BY <1>8, <1>9 DEF Edge, Clock, RenameMapTable
<1> HIDE DEF R, D, C, X, Y, tag
<1>11. ASSUME NEW l \in LRegs PROVE MapBefore(Younger(b), l)' = MapBefore(Y, l)
  <2> DEFINE W == Writers(l)  N == NewWriters(dis, l)
  <2>1. W \subseteq rob_val /\ N \subseteq D /\ \A s : s \in Writers(l)' <=> s \in W \cap R \/ s \in N
    BY WritersNext DEF Writers, NewWriters, R, D
  <2>2. /\ W \cap Y = {} => MapBefore(Y, l) = map_table[l]
        /\ \A x \in W \cap Y : (\A t \in W \cap Y : t = x \/ Precedes(x, t)) => MapBefore(Y, l) = rob_uop[x].stale_pdst
    BY BeforeIs
  <2>3. \A s : s \in Writers(l)' \cap Younger(b)' <=> s \in W \cap R \cap Y \/ s \in N
    BY <1>1, <1>7, <2>1
  <2>4. /\ Writers(l)' \cap Younger(b)' = {} => MapBefore(Younger(b), l)' = map_table'[l]
        /\ \A x \in Writers(l)' \cap Younger(b)' :
             (\A t \in Writers(l)' \cap Younger(b)' : t = x \/ Precedes(x, t)') =>
               MapBefore(Younger(b), l)' = rob_uop'[x].stale_pdst
    <3>1. SnapshotDef'
      BY SnapshotIs, PTL
    <3> QED
      BY <3>1 DEF SnapshotDef
  <2>5. /\ N = {} => map_table'[l] = MapBefore(X, l)
        /\ \A t \in N : (\A d \in N : ~(d[2] < t[2])) => rob_uop'[t].stale_pdst = map_table[l]
    BY MapNext, StaleIs DEF X
  <2>6. \A d \in N : d[2] \in {0, 1}
    BY Lane DEF NewWriters
  <2>7. \A d, e \in D : d[2] = e[2] => d = e
    BY Lane DEF D
  <2>8. W \cap X = W \cap Y => MapBefore(X, l) = MapBefore(Y, l)
    BY DEF MapBefore
  <2> HIDE DEF W, N
  <2>9. CASE W \cap R \cap Y # {}
    <3>1. W \cap Y \in SUBSET Slots /\ W \cap Y # {}
      BY <1>1, <2>1, <2>9
    <3>2. PICK o \in W \cap Y : \A t \in W \cap Y : t = o \/ Precedes(o, t)
      BY <3>1, Ends
    <3>3. o \in R
      <4>1. PICK r \in W \cap R \cap Y : TRUE
        BY <2>9
      <4>2. o \notin X
        BY <1>1, <1>2, <2>1, <3>2, <4>1
      <4> QED
        BY <1>1, <1>5, <2>1, <3>2, <4>2
    <3>4. \A t \in Writers(l)' \cap Younger(b)' : t = o \/ Precedes(o, t)'
      BY <1>1, <2>1, <2>3, <3>2, <3>3
    <3>5. MapBefore(Younger(b), l)' = rob_uop'[o].stale_pdst
      BY <2>3, <2>4, <3>2, <3>3, <3>4
    <3> QED
      BY <1>1, <2>2, <3>2, <3>3, <3>5
  <2>10. CASE W \cap R \cap Y = {} /\ N # {}
    <3>1. X = {} /\ W \cap Y = {}
      BY <1>1, <1>5, <2>1, <2>10
    <3>2. PICK n \in N : \A d \in N : n[2] <= d[2]
      BY <2>6, <2>10
    <3>3. \A d \in N : ~(d[2] < n[2])
      BY <2>6, <3>2
    <3>4. \A d \in N : d = n \/ n[2] < d[2]
      BY <2>1, <2>6, <2>7, <3>2
    <3>5. \A t \in Writers(l)' \cap Younger(b)' : t = n \/ Precedes(n, t)'
      BY <1>1, <2>1, <2>3, <2>10, <3>4
    <3>6. MapBefore(Younger(b), l)' = rob_uop'[n].stale_pdst
      BY <2>3, <2>4, <3>2, <3>5
    <3> QED
      BY <2>2, <2>5, <3>1, <3>3, <3>6
  <2>11. CASE W \cap R \cap Y = {} /\ N = {}
    <3>1. W \cap Y = W \cap X
      BY <1>1, <1>5, <1>6, <2>1, <2>11
    <3>2. Writers(l)' \cap Younger(b)' = {}
      BY <2>3, <2>11
    <3> QED
      BY <2>4, <2>5, <2>8, <2>11, <3>1, <3>2
  <2> QED
    BY <2>9, <2>10, <2>11
<1>12. br_copies'[rob_uop'[b].br_tag] = [l \in LRegs |-> MapBefore(Younger(b), l)']
  BY <1>8, <1>10, <1>11
<1> DEFINE A == {s \in rob_val : LdstVal(rob_uop[s])}
           F == {d \in D : LdstVal(dis[d[2]])}
<1>13. InFlightPdsts(Y) = {rob_uop[s].pdst : s \in A \cap Y} /\ InFlightPdsts(X) = {rob_uop[s].pdst : s \in A \cap X}
  BY <1>2, <1>4 DEF InFlightPdsts
<1>14. \A p : p \in InFlightPdsts(Younger(b))' <=> (\E s \in A \cap Y \cap R : p = rob_uop[s].pdst) \/ \E d \in F : p = rob_uop'[d].pdst
  <2>1. \A s \in R : LdstVal(rob_uop'[s]) <=> s \in A
    BY <1>1, Shape DEF LdstVal, IsFix, R
  <2>2. \A d \in D : LdstVal(rob_uop'[d]) <=> d \in F
    BY Fresh DEF D
  <2>3. \A p : p \in InFlightPdsts(Younger(b))' <=> \E s \in Younger(b)' : LdstVal(rob_uop'[s]) /\ p = rob_uop'[s].pdst
    BY DEF InFlightPdsts
  <2>4. F \subseteq D
    OBVIOUS
  <2> HIDE DEF A, F
  <2> QED
    BY <1>1, <1>7, <2>1, <2>2, <2>3, <2>4
<1>15. InFlightPdsts(Y) # {Undef}
  <2>1. \A s \in A \cap Y : rob_uop[s].pdst # Undef
    BY SizeAssumption DEF TypeOK, RobUop, PRegs, Undef
  <2> QED
    BY <1>13, <2>1
<1>16. CASE brinfo.mispredict
  <2>1. allocation_lists'[tag] = InFlightPdsts(Y) \ InFlightPdsts(X)
    <3>1. X = Younger(brinfo.rob_idx) /\ brinfo.rob_idx \in Unresolved /\ brinfo.tag = rob_uop[brinfo.rob_idx].br_tag
      BY <1>16, SquashedLast DEF X
    <3>2. allocation_lists[brinfo.tag] = InFlightPdsts(X)
      BY <3>1 DEF RegisterInv, Snapshots, SnapshotOf, Settled
    <3>3. allocation_lists'[tag] = IF allocation_lists[tag] = {Undef} THEN {Undef}
                                   ELSE allocation_lists[tag] \ allocation_lists[brinfo.tag]
      BY <1>8, <1>16 DEF Edge, Clock, RenameFreeList
    <3> QED
      BY <1>8, <1>15, <3>2, <3>3
  <2>2. D = {}
    BY <1>16, Shape DEF D
  <2>3. \A s, t \in A : rob_uop[s].pdst = rob_uop[t].pdst => s = t
    BY DEF RegisterInv, OneOwner
  <2>4. A \subseteq rob_val /\ F = {}
    BY <2>2
  <2> HIDE DEF A, F
  <2>5. \A p : p \in InFlightPdsts(Y) /\ p \notin InFlightPdsts(X) <=> \E s \in A \cap Y \cap R : p = rob_uop[s].pdst
    BY <1>1, <1>5, <1>13, <2>3, <2>4
  <2>6. allocation_lists'[tag] = InFlightPdsts(Younger(b))'
    BY <1>14, <2>1, <2>4, <2>5
  <2> QED
    BY <1>8, <1>12, <2>6 DEF SnapshotOf
<1>17. CASE ~brinfo.mispredict
  <2>1. allocation_lists'[tag] = InFlightPdsts(Y) \cup JustAllocated(dis, 0)
    <3> DEFINE brs(t) == {w \in Branches(dis) : br_tag(dis, w) = t}
               list(t) == IF brs(t) # {} THEN JustAllocated(dis, Max(brs(t)) + 1)
                          ELSE IF allocation_lists[t] = {Undef} THEN {Undef}
                          ELSE allocation_lists[t] \cup JustAllocated(dis, 0)
    <3>1. allocation_lists' = [t \in Tags |-> list(t)]
      BY <1>17 DEF Edge, Clock, RenameFreeList
    <3>2. list(tag) = allocation_lists[tag] \cup JustAllocated(dis, 0)
      BY <1>8, <1>9, <1>15
    <3> HIDE DEF list
    <3> QED
      BY <1>8, <3>1, <3>2
  <2>2. X = {}
    BY <1>17, SquashedLast DEF X
  <2>3. JustAllocated(dis, 0) = {rob_uop'[d].pdst : d \in F}
    BY Fresh DEF D
  <2>4. A \subseteq rob_val
    OBVIOUS
  <2> HIDE DEF A, F
  <2>5. A \cap Y \cap R = A \cap Y
    BY <1>1, <1>5, <2>2, <2>4
  <2>6. allocation_lists'[tag] = InFlightPdsts(Younger(b))'
    BY <1>13, <1>14, <2>1, <2>3, <2>5
  <2> QED
    BY <1>8, <1>12, <2>6 DEF SnapshotOf
<1> QED
  BY <1>16, <1>17

LEMMA NewSnapshot ==
    ASSUME TypeOK, OrderInv, RegisterInv, NEW dis, NEW wb, NEW xcpt, NEW exe, NEW m,
           Edge(dis, wb, xcpt, exe, m), TypeOK',
           NEW b \in Dispatched(dis), IsBranch(dis[b[2]])
    PROVE  SnapshotOf(b)'
<1> DEFINE R == Remaining  D == Dispatched(dis)
           w == b[2]  tag == br_tag(dis, b[2])
<1>1. /\ rob_val' = R \cup D /\ R \cap D = {} /\ Squashed = {} /\ ~brinfo.mispredict
      /\ \A s \in R, t \in D : Precedes(s, t)' /\ ~Precedes(t, s)'
      /\ \A s, t \in D : Precedes(s, t)' <=> s[2] < t[2]
  BY Shape
<1>2. /\ \A d \in D : d[2] \in Fires(dis) /\ d[2] \in Lanes /\ d[2] \in {0, 1}
      /\ \A d, e \in D : d[2] = e[2] => d = e
  BY Lane
<1>3. \A s : s \in Younger(b)' <=> s \in D /\ w < s[2]
  BY <1>1 DEF Younger
<1>4. w \in Branches(dis) /\ tag \in Tags /\ rob_uop'[b].br_tag = tag
  <2>1. w \in Branches(dis)
    BY <1>2 DEF Branches
  <2>2. dis \in Bundles /\ CanDispatch(dis)
    BY DEF Edge, Clock
  <2> QED
    BY <2>1, <2>2, NewTags, Entries
<1>5. {x \in Branches(dis) : br_tag(dis, x) = tag} = {w}
  <2>1. dis \in Bundles /\ CanDispatch(dis)
    BY DEF Edge, Clock
  <2> QED
    BY <1>4, <2>1, NewTags
<1>6. Max({w}) = w
  <2>1. {w} \in SUBSET Lanes /\ w \in {w} /\ w <= w
    BY <1>2
  <2> HIDE DEF w
  <2> QED
    BY <2>1, LaneEnds
<1>7. br_copies'[tag] = [l \in LRegs |-> MapAfter(dis, w, l)]
  <2> DEFINE brs(t) == {x \in Branches(dis) : br_tag(dis, x) = t}
             copy(t) == IF brs(t) = {} THEN br_copies[t] ELSE [l \in LRegs |-> MapAfter(dis, Max(brs(t)), l)]
  <2>1. br_copies' = [t \in Tags |-> copy(t)]
    BY DEF Edge, Clock, RenameMapTable
  <2>2. copy(tag) = [l \in LRegs |-> MapAfter(dis, w, l)]
    BY <1>5, <1>6
  <2> HIDE DEF copy, tag
  <2> QED
    BY <1>4, <2>1, <2>2
<1>8. allocation_lists'[tag] = JustAllocated(dis, w + 1)
  <2> DEFINE brs(t) == {x \in Branches(dis) : br_tag(dis, x) = t}
             list(t) == IF brs(t) # {} THEN JustAllocated(dis, Max(brs(t)) + 1)
                        ELSE IF allocation_lists[t] = {Undef} THEN {Undef}
                        ELSE allocation_lists[t] \cup JustAllocated(dis, 0)
  <2>1. allocation_lists' = [t \in Tags |-> list(t)]
    BY <1>1 DEF Edge, Clock, RenameFreeList
  <2>2. list(tag) = JustAllocated(dis, w + 1)
    BY <1>5, <1>6
  <2> HIDE DEF list, tag
  <2> QED
    BY <1>4, <2>1, <2>2
<1> HIDE DEF R, D, tag
<1>9. ASSUME NEW l \in LRegs PROVE MapBefore(Younger(b), l)' = MapAfter(dis, w, l)
  <2> DEFINE N == NewWriters(dis, l)
  <2>1. /\ N \subseteq D /\ \A d \in N : d[2] \in {0, 1}
        /\ \A s : s \in Writers(l)' \cap Younger(b)' <=> s \in N /\ w < s[2]
    <3>1. Writers(l)' = (Writers(l) \cap R) \cup N
      BY WritersNext DEF R
    <3>2. N \subseteq D
      BY DEF NewWriters, D
    <3> HIDE DEF N
    <3> QED
      BY <1>1, <1>2, <1>3, <3>1, <3>2
  <2>2. /\ Writers(l)' \cap Younger(b)' = {} => MapBefore(Younger(b), l)' = map_table'[l]
        /\ \A x \in Writers(l)' \cap Younger(b)' :
             (\A t \in Writers(l)' \cap Younger(b)' : t = x \/ Precedes(x, t)') =>
               MapBefore(Younger(b), l)' = rob_uop'[x].stale_pdst
    <3>1. SnapshotDef'
      BY SnapshotIs, PTL
    <3> QED
      BY <3>1 DEF SnapshotDef
  <2>3. /\ N = {} => map_table'[l] = map_table[l]
        /\ \A t \in N : (\A d \in N : d[2] <= t[2]) => map_table'[l] = rob_uop'[t].pdst
    <3>1. Squashed = {} => MapBefore(Squashed, l) = map_table[l]
      BY DEF MapBefore
    <3> QED
      BY <1>1, <3>1, MapNext
  <2>4. w \in {0, 1}
    BY <1>2 DEF D
  <2>5. /\ (\A d \in N : w < d[2]) => MapAfter(dis, w, l) = map_table[l]
        /\ \A t \in N : t[2] <= w /\ (\A d \in N : d[2] <= t[2] \/ w < d[2]) => MapAfter(dis, w, l) = rob_uop'[t].pdst
    BY <2>4, MapAfterIs
  <2>6. \A t \in N : /\ (\A d \in N : ~(d[2] < t[2])) => rob_uop'[t].stale_pdst = map_table[l]
                     /\ \A s \in N : s[2] < t[2] => rob_uop'[t].stale_pdst = rob_uop'[s].pdst
    BY StaleIs
  <2> HIDE DEF N, w
  <2>7. CASE \E e \in N : w < e[2]
    <3>0. \A y, z \in {0, 1} : y < z <=> y = 0 /\ z = 1
      OBVIOUS
    <3>1. PICK e \in N : w < e[2]
      BY <2>7
    <3>2. w = 0 /\ e[2] = 1
      BY <2>1, <2>4, <3>0, <3>1
    <3>3. \A d \in N : d[2] = 1 => d = e
      BY <1>2, <2>1, <3>2
    <3>4. \A s \in Writers(l)' \cap Younger(b)' : s = e
      BY <2>1, <3>0, <3>2, <3>3
    <3>5. MapBefore(Younger(b), l)' = rob_uop'[e].stale_pdst
      BY <2>1, <2>2, <3>1, <3>4
    <3>6. CASE \E s \in N : s[2] = 0
      <4>1. PICK s \in N : s[2] = 0
        BY <3>6
      <4>2. rob_uop'[e].stale_pdst = rob_uop'[s].pdst
        BY <2>6, <3>2, <4>1
      <4>3. \A d \in N : d[2] <= s[2] \/ w < d[2]
        BY <2>1, <3>2, <4>1
      <4>4. s[2] <= w
        BY <3>2, <4>1
      <4> QED
        BY <2>5, <3>5, <4>1, <4>2, <4>3, <4>4
    <3>7. CASE ~\E s \in N : s[2] = 0
      <4>1. \A d \in N : d[2] = 1
        BY <2>1, <3>7
      <4>2. \A d \in N : w < d[2] /\ ~(d[2] < e[2])
        BY <3>2, <4>1
      <4> QED
        BY <2>5, <2>6, <3>1, <3>5, <4>2
    <3> QED
      BY <3>6, <3>7
  <2>8. CASE ~\E e \in N : w < e[2]
    <3>1. MapBefore(Younger(b), l)' = map_table'[l]
      BY <2>1, <2>2, <2>8
    <3>2. CASE N = {}
      BY <2>3, <2>5, <3>1, <3>2
    <3>3. CASE N # {}
      <4>1. PICK t \in N : \A d \in N : d[2] <= t[2]
        BY <2>1, <3>3
      <4>2. t[2] <= w
        BY <2>1, <2>4, <2>8, <4>1
      <4> QED
        BY <2>3, <2>5, <3>1, <4>1, <4>2
    <3> QED
      BY <3>2, <3>3
  <2> QED
    BY <2>7, <2>8
<1>10. JustAllocated(dis, w + 1) = InFlightPdsts(Younger(b))'
  <2>1. \A p : p \in InFlightPdsts(Younger(b))' <=> \E s \in Younger(b)' : LdstVal(rob_uop'[s]) /\ p = rob_uop'[s].pdst
    BY DEF InFlightPdsts
  <2>2. \A d \in D : /\ LdstVal(rob_uop'[d]) <=> LdstVal(dis[d[2]])
                     /\ LdstVal(dis[d[2]]) => rob_uop'[d].pdst = requested_preg(d[2])
    BY Fresh DEF D
  <2>3. \A p : p \in JustAllocated(dis, w + 1) <=> \E x \in Allocs(dis) : w + 1 <= x /\ p = requested_preg(x)
    BY DEF JustAllocated
  <2>4. \A x : x \in Allocs(dis) <=> \E d \in D : d[2] = x /\ LdstVal(dis[x])
    <3>1. ASSUME NEW x \in Allocs(dis) PROVE \E d \in D : d[2] = x /\ LdstVal(dis[x])
      <4>1. x \in Fires(dis) /\ LdstVal(dis[x])
        BY DEF Allocs
      <4> QED
        BY <4>1, Lane DEF D
    <3>2. ASSUME NEW d \in D, LdstVal(dis[d[2]]) PROVE d[2] \in Allocs(dis)
      BY <1>2, <3>2 DEF Allocs
    <3> QED
      BY <3>1, <3>2
  <2>5. \A d \in D : w + 1 <= d[2] <=> w < d[2]
    <3>1. w \in {0, 1}
      BY <1>2 DEF D
    <3>2. \A y, z \in {0, 1} : y + 1 <= z <=> y < z
      OBVIOUS
    <3> HIDE DEF w
    <3> QED
      BY <1>2, <3>1, <3>2
  <2> HIDE DEF w
  <2> QED
    <3>1. \A p : p \in JustAllocated(dis, w + 1) <=> \E d \in D : w < d[2] /\ LdstVal(dis[d[2]]) /\ p = requested_preg(d[2])
      BY <2>3, <2>4, <2>5
    <3>2. \A p : p \in InFlightPdsts(Younger(b))' <=> \E d \in D : w < d[2] /\ LdstVal(dis[d[2]]) /\ p = requested_preg(d[2])
      BY <1>3, <2>1, <2>2
    <3> QED
      BY <3>1, <3>2
<1> QED
  BY <1>4, <1>7, <1>8, <1>9, <1>10 DEF SnapshotOf

LEMMA SnapshotStep ==
    ASSUME TypeOK, OrderInv, RegisterInv, NEW dis, NEW wb, NEW xcpt, NEW exe, NEW m,
           Edge(dis, wb, xcpt, exe, m), TypeOK'
    PROVE  Snapshots'
<1>1. CASE NotUnwinding
  <2>1. ASSUME NEW b \in Unresolved' PROVE SnapshotOf(b)'
    <3>1. \/ b \in Remaining /\ b \in Unresolved /\ ~(brinfo.valid /\ b = brinfo.rob_idx)
          \/ b \in Dispatched(dis) /\ IsBranch(dis[b[2]])
      BY <1>1, <2>1, Unresolvedness DEF OrderInv
    <3>2. CASE b \in Remaining /\ b \in Unresolved /\ ~(brinfo.valid /\ b = brinfo.rob_idx)
      BY <1>1, <3>2, OldSnapshot
    <3>3. CASE b \in Dispatched(dis) /\ IsBranch(dis[b[2]])
      BY <3>3, NewSnapshot
    <3> QED
      BY <3>1, <3>2, <3>3
  <2> QED
    BY <2>1 DEF Snapshots, SnapshotOf
<1>2. CASE ~NotUnwinding
  <2>1. rob_state = "s_rollback" /\ Committed = {} /\ ~exception_thrown
    BY <1>2, Committing, Throwing DEF NotUnwinding
  <2>2. ~flush_pipeline'
    BY <2>1 DEF Edge, Clock, Rob, flush_val
  <2>3. CASE rob_tail # rob_head
    <3>1. rob_state' = "s_rollback"
      BY <2>1, <2>3 DEF Edge, Clock, Rob, RobFSM
    <3> QED
      BY <2>2, <3>1 DEF Snapshots, SnapshotOf, Settled, NotUnwinding
  <2>4. CASE rob_tail = rob_head
    <3>1. Within(rob_val, rob_head, rob_tail)
      BY <1>2, RowsAre DEF OrderInv
    <3>2. rob_head \in Rows /\ rob_val \subseteq Slots
      BY DEF TypeOK
    <3>3. \A s \in rob_val : s[1] = rob_tail
      <4> SUFFICES ASSUME NEW s \in rob_val, Dist(rob_head, s[1]) < Dist(rob_head, rob_tail) PROVE FALSE
        BY <3>1 DEF Within
      <4>1. Dist(rob_head, s[1]) \in Nat /\ Dist(rob_head, rob_tail) = 0
        BY <2>4, <3>2, Distances DEF Slots
      <4> QED
        BY <4>1
    <3>4. rob_val' = {}
      <4>1. Remaining = {}
        BY <2>1, <3>3 DEF Remaining, RolledBack
      <4>2. Dispatched(dis) = {}
        BY <1>2, Shape
      <4> QED
        BY <4>1, <4>2, Entries
    <3> QED
      BY <3>4 DEF Snapshots, SnapshotOf, Unresolved, TypeOK
  <2> QED
    BY <2>3, <2>4
<1> QED
  BY <1>1, <1>2

-----------------------------------------------------------------------------
(* The invariant holds.                                                    *)

LEMMA RegisterStart == Init => RegisterInv
<1> SUFFICES ASSUME Init PROVE RegisterInv
  OBVIOUS
<1>1. rob_val = {} /\ rob_bsy = {} /\ map_table = [l \in LRegs |-> 0] /\ free_list = PRegs \ {0}
  BY DEF Init
<1>2. 0 \in LRegs
  BY SizeAssumption DEF LRegs
<1>3. Chained /\ Topped /\ ZeroKept /\ Snapshots
  BY <1>1, <1>2 DEF Chained, Topped, Writers, ZeroKept, Snapshots, SnapshotOf, Unresolved
<1>4. \A l \in LRegs : CommittedMap[l] = 0
  BY <1>1 DEF CommittedMap, Writers
<1>5. {CommittedMap[l] : l \in LRegs} \ {0} = {} /\ InFlightPdsts(rob_val) = {}
  BY <1>1, <1>4 DEF InFlightPdsts
<1>6. OneOwner
  BY <1>1, <1>4, <1>5 DEF OneOwner
<1> QED
  BY <1>3, <1>6 DEF RegisterInv

LEMMA Unchanged ==
    ASSUME UNCHANGED vars
    PROVE  /\ \A s, t : Precedes(s, t)' <=> Precedes(s, t)
           /\ \A l : Writers(l)' = Writers(l)
           /\ CommittedMap' = CommittedMap
<1> USE DEF vars, renVars, robVars
<1>1. \A s, t : Precedes(s, t)' <=> Precedes(s, t)
  BY DEF Precedes, FromHead
<1>2. \A l : Writers(l)' = Writers(l)
  BY DEF Writers
<1>3. CommittedMap' = CommittedMap
  BY DEF CommittedMap, Writers, Oldest, Precedes, FromHead
<1> QED
  BY <1>1, <1>2, <1>3

LEMMA RegisterStep == TypeInv /\ OrderInv /\ RegisterInv /\ [Next]_vars => RegisterInv'
<1> SUFFICES ASSUME TypeInv, OrderInv, RegisterInv, [Next]_vars PROVE RegisterInv'
  OBVIOUS
<1>1. TypeOK /\ TypeOK'
  BY TypeInvStep DEF TypeInv
<1>2. CASE UNCHANGED vars
  <2> USE <1>2 DEF vars, renVars, robVars
  <2>1. Chained' /\ Topped' /\ ZeroKept'
    BY Unchanged DEF RegisterInv, Chained, Topped, ZeroKept, NextWriter
  <2>2. OneOwner'
    BY Unchanged DEF RegisterInv, OneOwner, InFlightPdsts
  <2>3. Snapshots'
    <3>1. (Settled' <=> Settled) /\ Unresolved' = Unresolved
      BY DEF Settled, NotUnwinding, Unresolved
    <3>2. ASSUME NEW b PROVE SnapshotOf(b)' <=> SnapshotOf(b)
      <4>1. Younger(b)' = Younger(b)
        BY Unchanged DEF Younger
      <4>2. ASSUME NEW l PROVE MapBefore(Younger(b), l)' = MapBefore(Younger(b), l)
        BY DEF MapBefore, Younger, Oldest, Writers, Precedes, FromHead
      <4>3. InFlightPdsts(Younger(b))' = InFlightPdsts(Younger(b))
        BY <4>1 DEF InFlightPdsts
      <4> QED
        BY <4>2, <4>3 DEF SnapshotOf
    <3> QED
      BY <3>1, <3>2 DEF RegisterInv, Snapshots
  <2> QED
    BY <2>1, <2>2, <2>3 DEF RegisterInv
<1>3. CASE Next
  <2>1. PICK dis \in Bundles, wb \in AtMostOne(CanWriteBack), xcpt \in AtMostOne(CanFault),
             exe \in AtMostOne(ToExecute), m \in BOOLEAN : Clock(dis, wb, xcpt, exe, m)
    BY <1>3 DEF Next
  <2>2. Edge(dis, wb, xcpt, exe, m)
    BY <2>1 DEF Edge
  <2> QED
    BY <1>1, <2>2, ChainStep, ZeroStep, OwnerStep, SnapshotStep DEF RegisterInv
<1> QED
  BY <1>2, <1>3

LEMMA RegisterGives == Spec => [](TypeInv /\ OrderInv /\ RegisterInv)
<1>1. Init => TypeInv /\ OrderInv /\ RegisterInv
  BY TypeInvStart, OrderStart, RegisterStart
<1>2. TypeInv /\ OrderInv /\ RegisterInv /\ [Next]_vars => (TypeInv /\ OrderInv /\ RegisterInv)'
  BY TypeInvStep, OrderStep, RegisterStep
<1> QED
  BY <1>1, <1>2, PTL DEF Spec

(***************************************************************************)
(* No physical register leaks and none is handed out twice, for any number *)
(* of registers, branch tags and rows (rename.scala, RenameFreeList): each *)
(* one but P0 is on the free list, or the destination of one instruction   *)
(* in flight, or in the committed map, however mispredicts, commits and    *)
(* unwinding meet in a cycle.                                              *)
(***************************************************************************)
THEOREM OwnersKept == Spec => []OneOwner
<1>1. RegisterInv => OneOwner
  BY DEF RegisterInv
<1> QED
  BY <1>1, RegisterGives, PTL

(***************************************************************************)
(* What the mispredict of any branch in flight would restore is right: the *)
(* copy of the map is the map as of the branch, and its allocation list    *)
(* holds exactly the registers of the younger instructions (rename.scala,  *)
(* RenameMapTableElement's br_copies and RenameFreeList's                  *)
(* allocation_lists), although older instructions commit, other branches   *)
(* resolve and tags are used again in between.                             *)
(***************************************************************************)
THEOREM SnapshotsKept == Spec => []SnapshotsExact
<1>1. RegisterInv => SnapshotsExact
  BY DEF RegisterInv, Snapshots, SnapshotOf, Settled, NotUnwinding, SnapshotsExact, MapBefore, Younger
<1> QED
  BY <1>1, RegisterGives, PTL

(***************************************************************************)
(* Only committing instructions change the committed register map, each to *)
(* make its own destination current; dispatch, a mispredict and unwinding  *)
(* never do (rob.scala, "Commit or Rollback"; rename.scala).               *)
(***************************************************************************)
THEOREM StatePrecise == Spec => PreciseState
<1> DEFINE Step ==
             \A l \in LRegs :
               LET ws == Writers(l) \cap Committed
               IN  CommittedMap'[l] = IF ws = {} THEN CommittedMap[l] ELSE rob_uop[Youngest(ws)].pdst
<1>1. ASSUME TypeInv, OrderInv, RegisterInv, Next PROVE Step
  <2>1. TypeOK /\ TypeOK'
    BY <1>1, TypeInvStep DEF TypeInv
  <2>2. PICK dis \in Bundles, wb \in AtMostOne(CanWriteBack), xcpt \in AtMostOne(CanFault),
             exe \in AtMostOne(ToExecute), m \in BOOLEAN : Clock(dis, wb, xcpt, exe, m)
    BY <1>1 DEF Next
  <2>3. Edge(dis, wb, xcpt, exe, m)
    BY <2>2 DEF Edge
  <2>4. ASSUME NEW l \in LRegs
        PROVE  LET ws == Writers(l) \cap Committed
               IN  CommittedMap'[l] = IF ws = {} THEN CommittedMap[l] ELSE rob_uop[Youngest(ws)].pdst
    <3> DEFINE ws == Writers(l) \cap Committed
    <3>1. /\ ws = {} => CommittedMap'[l] = CommittedMap[l]
          /\ \A y \in ws : (\A t \in ws : t = y \/ Precedes(t, y)) => CommittedMap'[l] = rob_uop[y].pdst
      BY <1>1, <2>1, <2>3, CommittedNext
    <3>2. ws \in SUBSET Slots
      BY <2>1 DEF Writers, TypeOK
    <3> HIDE DEF ws
    <3>3. ASSUME ws # {} PROVE CommittedMap'[l] = rob_uop[Youngest(ws)].pdst
      <4>1. PICK y \in ws : \A t \in ws : t = y \/ Precedes(t, y)
        BY <2>1, <3>2, <3>3, Ends
      <4>2. Youngest(ws) = y
        BY <2>1, <3>2, <4>1, YoungestUnique
      <4> QED
        BY <3>1, <4>1, <4>2
    <3> QED
      BY <3>1, <3>3 DEF ws
  <2> QED
    BY <2>4
<1>2. TypeInv /\ OrderInv /\ RegisterInv /\ [Next]_vars => [Step]_vars
  BY <1>1
<1>3. PreciseState <=> [][Step]_vars
  BY DEF PreciseState
<1> HIDE DEF Step
<1> QED
  BY <1>2, <1>3, RegisterGives, PTL DEF Spec
=============================================================================
