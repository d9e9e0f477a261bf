---------------------------- MODULE IssueProofs -----------------------------
(***************************************************************************)
(* The issue window, for windows, register files and reorder buffers of    *)
(* every size: every uop is in one place, ready bits and busy bits are     *)
(* exact, and operands are what their producers wrote.                     *)
(***************************************************************************)
EXTENDS IssueWindow, IntegerLemmas, FiniteSetTheorems, SequenceTheorems, TLAPS

-----------------------------------------------------------------------------
(* The invariant.                                                          *)

\* Nothing has been squashed that is still in the window, but for what the
\* flush takes away in this cycle.
Working == ~unwinding \/ flush_pipeline

Types ==
    /\ rob \in Seq(Row) /\ committed \in [LRegs -> PRegs]
    /\ unwinding \in BOOLEAN /\ flush_pipeline \in BOOLEAN
    /\ brinfo \in [valid : BOOLEAN, mispredict : BOOLEAN, tag : 0 .. MaxBr]
    /\ table_bsy \subseteq PRegs \ {0} /\ regfile \subseteq PRegs
    /\ \A i \in Slots : slots[i] \subseteq [uop : MicroOp, p1 : BOOLEAN, p2 : BOOLEAN]
    /\ exe_reg \subseteq MicroOp /\ alu_reg \subseteq MicroOp
    /\ muldiv \subseteq [uop : MicroOp, done : BOOLEAN] /\ loads \subseteq MicroOp

\* The rows: each is one instruction, with its own register and branch tag, and
\* waits for the branches before it that are not resolved.
Distinct ==
    \A i, j \in DOMAIN rob : i # j =>
        /\ rob[i].row # rob[j].row
        /\ rob[i].br_tag # 0 => rob[i].br_tag # rob[j].br_tag
        /\ rob[i].pdst # 0 => rob[i].pdst # rob[j].pdst
Masks ==
    \A j \in DOMAIN rob, t \in Tags : t \in rob[j].br_mask <=> \E i \in DOMAIN rob : i < j /\ rob[i].br_tag = t
Destinations == 
    \A j \in DOMAIN rob : /\ rob[j].ldst = 0 <=> rob[j].pdst = 0
                          /\ rob[j].pdst # 0 => \E part \in Parts \ {"sta", "std"} : rob[j].busy \subseteq {part}
Committed ==
    /\ 0 \in regfile
    /\ \A l \in LRegs : /\ committed[l] \in regfile /\ committed[l] \notin table_bsy
                        /\ \A j \in DOMAIN rob : rob[j].pdst # 0 => rob[j].pdst # committed[l]
RobInv == Distinct /\ Masks /\ Destinations /\ Committed /\ (flush_pipeline => unwinding)

\* Row j is what the uop u is a part of.
PartOf(u, j) ==
    /\ rob[j].row = u.row /\ u.part \in rob[j].busy /\ rob[j].br_mask = u.br_mask /\ rob[j].pdst = u.pdst
    /\ u.part = "bru" => u.br_tag # 0 /\ rob[j].br_tag = u.br_tag
Owned ==
    /\ \A h \in Held : \E j \in DOMAIN rob : PartOf(h[3], j)
    /\ \A g, h \in Held : g[3].row = h[3].row /\ g[3].part = h[3].part => g = h
    /\ \A j \in DOMAIN rob : \A part \in rob[j].busy : \E h \in Held : h[3].row = rob[j].row /\ h[3].part = part
Units ==
    /\ \A i \in Slots : \A s, t \in slots[i] : s = t
    /\ \A u, v \in exe_reg : u = v
    /\ (\E u \in exe_reg : u.part = "muld") => muldiv = {}
    /\ (\A u, v \in alu_reg : u = v) /\ (\A m, k \in muldiv : m = k)
    /\ \A u \in alu_reg : u.part \in {"alu", "bru"}
    /\ \A m \in muldiv : m.uop.part = "muld"
    /\ \A u \in loads : u.part = "ld"
Branches ==
    /\ \A u \in alu_reg : u.part = "bru" => brinfo.valid /\ brinfo.tag = u.br_tag
    /\ brinfo.valid => \E u \in alu_reg : u.part = "bru"
    /\ \A j \in DOMAIN rob : rob[j].br_tag # 0 => "bru" \in rob[j].busy
UopInv == Owned /\ Units /\ Branches

\* p is the register of l as row j sees it.
MapAt(j, l, p) ==
    \/ (\A i \in DOMAIN rob : i < j => rob[i].ldst # l) /\ p = committed[l]
    \/ \E i \in DOMAIN rob : /\ i < j /\ rob[i].ldst = l /\ rob[i].pdst = p
                             /\ \A k \in DOMAIN rob : i < k /\ k < j => rob[k].ldst # l
Operand(p, row) ==
    p = 0 \/ \E j \in DOMAIN rob, l \in LRegs \ {0} : rob[j].row = row /\ MapAt(j, l, p)
SlotsRight ==
    \A i \in Slots : \A s \in slots[i] :
         /\ s.uop.part # "std" => Operand(s.uop.pop1, s.uop.row) /\ s.p1 = ~Coming(s.uop.pop1)
         /\ s.uop.part # "sta" => Operand(s.uop.pop2, s.uop.row) /\ s.p2 = ~Coming(s.uop.pop2)
TableRight == \A p \in PRegs \ FreeRegs : p \in table_bsy <=> Coming(p)
ValuesThere == \A j \in DOMAIN rob : rob[j].busy = {} => rob[j].pdst \in regfile
ReadyInv == SlotsRight /\ TableRight /\ ValuesThere

IssueInv == Types /\ RobInv /\ (Working => UopInv /\ ReadyInv) /\ (~Working => Held = {})

-----------------------------------------------------------------------------
(* Dispatch.                                                               *)

(* The sets that the priority encoders of dispatch look at are sets of     *)
(* naturals.                                                               *)
LEMMA Indices ==
    /\ Rows \subseteq Nat \ {0} /\ PRegs \subseteq Nat /\ Slots \subseteq Nat /\ Tags \subseteq Nat \ {0}
    /\ 0 \in PRegs /\ 0 \in LRegs /\ Tags = (0 .. MaxBr) \ {0} /\ 0 \in 0 .. MaxBr
BY WindowAssumption DEF Rows, PRegs, LRegs, Slots, Tags

(* An instruction has one part, but for a store, which has two, and no     *)
(* register goes to a store or a branch without a link.                    *)
LEMMA InstFields ==
    ASSUME NEW d \in Insts
    PROVE  /\ d.ldst \in LRegs /\ d.lrs1 \in LRegs /\ d.lrs2 \in LRegs
           /\ PartsOf(d.kind) \subseteq Parts /\ PartsOf(d.kind) # {}
           /\ IsBranch(d) <=> PartsOf(d.kind) = {"bru"}
           /\ "bru" \in PartsOf(d.kind) => IsBranch(d)
           /\ IsFix(d) => \E part \in Parts \ {"sta", "std"} : PartsOf(d.kind) = {part}
           /\ "std" \in PartsOf(d.kind) => PartsOf(d.kind) = {"sta", "std"}
           /\ "std" \notin PartsOf(d.kind) => \E part \in Parts : PartsOf(d.kind) = {part}
BY WindowAssumption DEF Inst, PartsOf, Parts, IsBranch, IsFix

(* The fields of the rows have their types.                                *)
LEMMA RowTypes ==
    ASSUME Types
    PROVE  /\ rob \in Seq(Row) /\ DOMAIN rob = 1 .. Len(rob) /\ Len(rob) \in Nat
           /\ \A j \in DOMAIN rob : /\ rob[j] \in Row /\ rob[j].row \in Rows /\ rob[j].ldst \in LRegs /\ rob[j].pdst \in PRegs
                                    /\ rob[j].busy \subseteq Parts /\ rob[j].br_tag \in 0 .. MaxBr /\ rob[j].br_mask \subseteq Tags
<1>1. rob \in Seq(Row) /\ DOMAIN rob = 1 .. Len(rob) /\ Len(rob) \in Nat
  BY DEF Types
<1>2. ASSUME NEW j \in DOMAIN rob PROVE rob[j] \in Row
  BY <1>1
<1> QED
  BY <1>1, <1>2 DEF Row

(* What an instruction gets when it is dispatched is free.                 *)
LEMMA NewIsFree ==
    ASSUME Types, NEW d \in Insts, CanDispatch(d)
    PROVE  /\ Min(FreeRows) \in Rows /\ \A j \in DOMAIN rob : rob[j].row # Min(FreeRows)
           /\ Pdst(d) \in PRegs /\ (Pdst(d) = 0 <=> ~(IsFix(d) /\ d.ldst # 0))
           /\ Pdst(d) # 0 => Pdst(d) \in FreeRegs
           /\ BrTag(d) \in 0 .. MaxBr /\ (BrTag(d) # 0 <=> IsBranch(d))
           /\ BrTag(d) # 0 => \A j \in DOMAIN rob : rob[j].br_tag # BrTag(d)
<1>1. Min(FreeRows) \in FreeRows
  <2>1. FreeRows \in SUBSET Nat /\ FreeRows # {}
    BY Indices DEF FreeRows, CanDispatch
  <2> QED
    BY <2>1, MinMember
<1>2. ASSUME IsFix(d) PROVE Min(FreeRegs) \in FreeRegs
  <2>1. FreeRegs \in SUBSET Nat /\ FreeRegs # {}
    BY <1>2, Indices DEF FreeRegs, CanDispatch
  <2> QED
    BY <2>1, MinMember
<1>3. ASSUME IsBranch(d) PROVE Min(Tags \ BrTags) \in Tags \ BrTags
  <2>1. BrTags \subseteq Tags
    BY RowTypes, Indices DEF BrTags
  <2>2. Tags \ BrTags \in SUBSET Nat /\ Tags \ BrTags # {}
    BY <1>3, <2>1, Indices DEF CanDispatch
  <2> QED
    BY <2>2, MinMember
<1>4. \A p \in FreeRegs : p # 0 /\ p \in PRegs
  BY DEF FreeRegs
<1>5. Pdst(d) \in PRegs /\ (Pdst(d) = 0 <=> ~(IsFix(d) /\ d.ldst # 0)) /\ (Pdst(d) # 0 => Pdst(d) \in FreeRegs)
  BY <1>2, <1>4, Indices DEF Pdst
<1>6. \A t \in Tags \ BrTags : t # 0 /\ t \in 0 .. MaxBr /\ \A j \in DOMAIN rob : rob[j].br_tag # t
  BY Indices DEF BrTags
<1>7. /\ BrTag(d) \in 0 .. MaxBr /\ (BrTag(d) # 0 <=> IsBranch(d))
      /\ BrTag(d) # 0 => \A j \in DOMAIN rob : rob[j].br_tag # BrTag(d)
  BY <1>3, <1>6, Indices DEF BrTag
<1> QED
  BY <1>1, <1>5, <1>7 DEF FreeRows

(* A store's halves go into two slots, both of them free.                  *)
LEMMA Entries ==
    ASSUME Types, NEW d \in Insts, CanDispatch(d)
    PROVE  Entry1 \in FreeSlots /\ Entry2 \in FreeSlots /\ Entry1 # Entry2
<1>1. FreeSlots \in SUBSET Nat /\ Cardinality(FreeSlots) >= 2 /\ IsFiniteSet(FreeSlots)
  <2>1. IsFiniteSet(Slots) /\ FreeSlots \subseteq Slots
    BY WindowAssumption, FS_Interval DEF Slots, FreeSlots
  <2> QED
    BY <2>1, Indices, FS_Subset DEF CanDispatch
<1>2. FreeSlots # {}
  BY <1>1, FS_EmptySet
<1>3. Entry1 \in FreeSlots
  BY <1>1, <1>2, MinMember DEF Entry1
<1>4. Cardinality(FreeSlots \ {Entry1}) = Cardinality(FreeSlots) - 1
  BY <1>1, <1>3, FS_RemoveElement
<1>5. Cardinality(FreeSlots) \in Nat /\ Cardinality(FreeSlots \ {Entry1}) # 0
  BY <1>1, <1>4, FS_CardinalityType
<1>6. FreeSlots \ {Entry1} # {}
  BY <1>5, FS_EmptySet
<1>7. Entry2 \in FreeSlots \ {Entry1}
  BY <1>1, <1>6, MinMember DEF Entry2
<1> QED
  BY <1>3, <1>7

(* The map table is the map as an instruction dispatched now sees it.      *)
LEMMA MappedAt ==
    ASSUME Types, NEW l \in LRegs
    PROVE  /\ Mapped(l) \in PRegs /\ (l = 0 => Mapped(l) = 0)
           /\ l # 0 => MapAt(Len(rob) + 1, l, Mapped(l))
<1> DEFINE ws == {j \in DOMAIN rob : rob[j].ldst = l}
<1>1. CASE l = 0
  BY <1>1, Indices DEF Mapped
<1>2. CASE l # 0 /\ ws = {}
  <2>1. Mapped(l) = committed[l]
    BY <1>2 DEF Mapped
  <2> QED
    BY <1>2, <2>1 DEF MapAt, Types
<1>3. CASE l # 0 /\ ws # {}
  <2>1. ws \in SUBSET (0 .. Len(rob)) /\ Len(rob) \in Nat
    BY RowTypes
  <2>2. PICK i : i = Max(ws)
    OBVIOUS
  <2>3. i \in ws /\ \A y \in ws : y <= i
    BY <1>3, <2>1, <2>2, MaxMember
  <2>4. Mapped(l) = rob[i].pdst
    BY <1>3, <2>2 DEF Mapped
  <2>5. \A k \in DOMAIN rob : i < k => rob[k].ldst # l
    BY <2>3, RowTypes
  <2>6. i \in DOMAIN rob /\ i < Len(rob) + 1 /\ rob[i].ldst = l
    BY <2>3, RowTypes
  <2> QED
    BY <1>3, <2>4, <2>5, <2>6, RowTypes DEF MapAt
<1> QED
  BY <1>1, <1>2, <1>3

-----------------------------------------------------------------------------
(* The rows after the edge.                                                *)

Edge(dis, mem, faults, finishes, mispredict) ==
    /\ dis \in OneOf(Insts) /\ mem \in OneOf(loads) /\ faults \in OneOf(MayFault)
    /\ finishes \in BOOLEAN /\ mispredict \in BOOLEAN
    /\ Clock(dis, mem, faults, finishes, mispredict)

(* A mispredict kills the youngest rows.                                   *)
LEMMA KillsLast ==
    ASSUME Types, Masks, NEW i \in DOMAIN rob, NEW j \in DOMAIN rob, i < j, IsKilledByBranch(rob[i])
    PROVE  IsKilledByBranch(rob[j])
<1>1. brinfo.tag \in rob[i].br_mask /\ brinfo.tag \in Tags
  BY RowTypes DEF IsKilledByBranch
<1>2. PICK k \in DOMAIN rob : k < i /\ rob[k].br_tag = brinfo.tag
  BY <1>1 DEF Masks
<1>3. k < j
  BY <1>2, RowTypes
<1> QED
  BY <1>1, <1>2, <1>3 DEF Masks, IsKilledByBranch

(* The rows up to the last one left are the rows that are not killed.      *)
LEMMA LastLeftIs ==
    ASSUME Types, Masks
    PROVE  LastLeft \in 0 .. Len(rob) /\ \A j \in DOMAIN rob : j <= LastLeft <=> ~IsKilledByBranch(rob[j])
<1> DEFINE S == {0} \cup {j \in DOMAIN rob : ~IsKilledByBranch(rob[j])}
<1>1. S \in SUBSET (0 .. Len(rob)) /\ S # {} /\ Len(rob) \in Nat
  BY RowTypes
<1>2. PICK m : m = Max(S)
  OBVIOUS
<1>3. m \in S /\ \A y \in S : y <= m
  BY <1>1, <1>2, MaxMember
<1>4. ASSUME NEW j \in DOMAIN rob, j <= m, IsKilledByBranch(rob[j]) PROVE FALSE
  <2>1. j # m /\ m \in DOMAIN rob /\ j < m
    BY <1>3, <1>4, RowTypes
  <2>2. ~IsKilledByBranch(rob[m])
    BY <1>3, <2>1, RowTypes
  <2>3. \A k \in DOMAIN rob : j < k => IsKilledByBranch(rob[k])
    BY <1>4, KillsLast
  <2> QED
    BY <2>1, <2>2, <2>3
<1>5. LastLeft = m
  BY <1>2 DEF LastLeft
<1> QED
  BY <1>1, <1>3, <1>4, <1>5

(* n rows stay behind the c committed ones, and the new one follows them.  *)
RowsMove(c, n, dis, mem, faults) ==
    /\ c \in {0, 1} /\ n \in Nat /\ (c = 1 <=> will_commit)
    /\ \A k \in 1 .. n : /\ k + c \in DOMAIN rob /\ ~IsKilledByBranch(rob[k + c])
                         /\ rob'[k] = RowAfter(rob[k + c], mem, faults)
    /\ dis = {} => DOMAIN rob' = 1 .. n
    /\ \A d \in dis : dis = {d} /\ d \in Insts /\ CanDispatch(d) /\ DOMAIN rob' = 1 .. n + 1 /\ rob'[n + 1] = NewRow(d)
    /\ \A j \in DOMAIN rob : ~unwinding /\ j > c /\ ~IsKilledByBranch(rob[j]) => j - c \in 1 .. n

(* A row keeps its type at the edge.                                       *)
LEMMA RowAfterType ==
    ASSUME NEW r \in Row, NEW mem, NEW faults
    PROVE  RowAfter(r, mem, faults) \in Row
<1>1. GetNewBrMask(r.br_mask) \in SUBSET Tags
  BY DEF Row, GetNewBrMask
<1> QED
  BY <1>1, Indices DEF RowAfter, Row

(* A new row has its type.                                                 *)
LEMMA NewRowType ==
    ASSUME Types, NEW d \in Insts, CanDispatch(d)
    PROVE  NewRow(d) \in Row
<1>1. GetNewBrMask(BrTags) \in SUBSET Tags
  BY RowTypes, Indices DEF GetNewBrMask, BrTags
<1> QED
  BY <1>1, NewIsFree, InstFields, Indices DEF NewRow, Row

(* Nothing is dispatched in a cycle of unwinding, flush or mispredict.     *)
LEMMA CanDispatchWhen == ASSUME NEW d, CanDispatch(d) PROVE ~unwinding /\ ~flush_pipeline /\ ~brinfo.mispredict
BY DEF CanDispatch

(* The edge moves the rows as RowsMove says (rob.scala, the tail and the   *)
(* head pointers).                                                         *)
LEMMA RowsStep ==
    ASSUME Types, RobInv, NEW dis, NEW mem, NEW faults, NEW finishes, NEW mispredict, Edge(dis, mem, faults, finishes, mispredict)
    PROVE  rob' \in Seq(Row) /\ \E c, n : RowsMove(c, n, dis, mem, faults)
<1> DEFINE first == IF will_commit THEN 2 ELSE 1
           last  == IF unwinding THEN Min({LastLeft, Len(rob) - 1}) ELSE LastLeft
           S == SubSeq(rob, first, last)
           A == [j \in DOMAIN S |-> RowAfter(S[j], mem, faults)]
           B == [j \in 1 .. Cardinality(dis) |-> NewRow(CHOOSE d \in dis : TRUE)]
<1>1. rob' = A \o B /\ \A d \in dis : CanDispatch(d)
  BY DEF Edge, Clock, Staying
<1>2. LastLeft \in 0 .. Len(rob) /\ \A j \in DOMAIN rob : j <= LastLeft <=> ~IsKilledByBranch(rob[j])
  BY LastLeftIs DEF RobInv
<1>3. PICK L \in 0 .. Len(rob) : L = LastLeft
  BY <1>2
<1>4. Len(rob) \in Nat /\ DOMAIN rob = 1 .. Len(rob) /\ \A j \in DOMAIN rob : rob[j] \in Row
  BY RowTypes
<1>5. /\ last \in Int /\ last <= L /\ (unwinding => last <= Len(rob) - 1) /\ (~unwinding => last = L)
  <2>1. CASE unwinding
    <3>1. Min({L, Len(rob) - 1}) = IF L <= Len(rob) - 1 THEN L ELSE Len(rob) - 1
      <4>0. L \in Int /\ Len(rob) - 1 \in Int
        BY <1>4
      <4>1. PICK x \in Int, y \in Int : x = L /\ y = Len(rob) - 1
        BY <4>0
      <4>2. Min({x, y}) = IF x <= y THEN x ELSE y
        BY DEF Min
      <4> QED
        BY <4>1, <4>2
    <3> QED
      BY <1>3, <1>4, <2>1, <3>1
  <2> QED
    BY <1>3, <2>1
<1>6. will_commit => /\ ~unwinding /\ L >= 1
  <2> SUFFICES ASSUME will_commit PROVE ~unwinding /\ L >= 1
    OBVIOUS
  <2>1. 1 \in DOMAIN rob
    BY <1>4, RowTypes DEF will_commit
  <2>2. ~IsKilledByBranch(rob[1])
    <3>1. rob[1].br_mask = {}
      BY <2>1, RowTypes DEF RobInv, Masks
    <3> QED
      BY <3>1 DEF IsKilledByBranch
  <2> QED
    BY <1>2, <1>3, <2>1, <2>2 DEF will_commit
<1>7. first \in {1, 2} /\ (first = 2 <=> will_commit) /\ first - 1 \in {0, 1}
  OBVIOUS
<1>8. \A i \in first .. last : i \in DOMAIN rob /\ rob[i] \in Row
  BY <1>4, <1>5, <1>7
<1> HIDE DEF first, last
<1>9. /\ S \in Seq(Row) /\ Len(S) = (IF first <= last THEN last - first + 1 ELSE 0)
      /\ \A i \in 1 .. last - first + 1 : S[i] = rob[first + i - 1]
  BY <1>5, <1>7, <1>8, SubSeqProperties
<1> DEFINE n == IF first <= last THEN last - first + 1 ELSE 0
<1>10. n \in Nat /\ DOMAIN S = 1 .. n /\ \A i \in 1 .. n : S[i] = rob[first + i - 1] /\ first + i - 1 \in first .. last
  BY <1>5, <1>7, <1>9
<1> HIDE DEF S, n
<1>11. A \in Seq(Row) /\ Len(A) = n /\ \A k \in 1 .. n : A[k] = RowAfter(rob[first + k - 1], mem, faults)
  <2>1. \A k \in 1 .. n : A[k] = RowAfter(rob[first + k - 1], mem, faults) /\ A[k] \in Row
    BY <1>8, <1>10, RowAfterType
  <2>2. A \in [1 .. n -> Row]
    BY <1>10, <2>1
  <2> QED
    BY <1>10, <2>1, <2>2
<1> HIDE DEF A
<1>12. \A k \in 1 .. n : first + k - 1 \in DOMAIN rob /\ ~IsKilledByBranch(rob[first + k - 1])
  <2> TAKE k \in 1 .. n
  <2>1. PICK i : i = first + k - 1
    OBVIOUS
  <2>2. i \in first .. last /\ i \in DOMAIN rob
    BY <1>8, <1>10, <2>1
  <2>3. i <= L
    BY <1>4, <1>5, <1>7, <2>2
  <2> QED
    BY <1>2, <1>3, <2>1, <2>2, <2>3
<1>13. \A j \in DOMAIN rob : ~unwinding /\ j > first - 1 /\ ~IsKilledByBranch(rob[j]) => j - (first - 1) \in 1 .. n
  <2> SUFFICES ASSUME NEW j \in DOMAIN rob, ~unwinding, j > first - 1, ~IsKilledByBranch(rob[j])
               PROVE  j - (first - 1) \in 1 .. n
    OBVIOUS
  <2>1. j <= L /\ last = L
    BY <1>2, <1>3, <1>5
  <2> QED
    BY <1>4, <1>7, <2>1 DEF n
<1>14. CASE dis = {}
  <2>1. B = << >>
    BY <1>14, FS_EmptySet
  <2> HIDE DEF B
  <2>2. rob' = A
    BY <1>1, <1>11, <2>1, ConcatEmptySeq
  <2>3. RowsMove(first - 1, n, dis, mem, faults)
    <3>1. \A k \in 1 .. n : k + (first - 1) = first + k - 1
      BY <1>7, <1>10
    <3>2. \A k \in 1 .. n : /\ k + (first - 1) \in DOMAIN rob /\ ~IsKilledByBranch(rob[k + (first - 1)])
                            /\ rob'[k] = RowAfter(rob[k + (first - 1)], mem, faults)
      BY <1>12, <1>11, <3>1, <2>2
    <3> QED
      BY <1>7, <1>10, <1>13, <3>2, <1>11, <1>14, <2>2 DEF RowsMove
  <2> QED
    BY <1>11, <2>2, <2>3
<1>15. ASSUME NEW d \in Insts, dis = {d}
       PROVE  rob' \in Seq(Row) /\ \E c, m : RowsMove(c, m, dis, mem, faults)
  <2>1. Cardinality(dis) = 1 /\ (CHOOSE e \in dis : TRUE) = d
    BY <1>15, FS_Singleton
  <2>2. B = << NewRow(d) >>
    <3>1. PICK r : r = NewRow(d)
      OBVIOUS
    <3>2. PICK x : x = Cardinality(dis)
      OBVIOUS
    <3>3. PICK e : e = CHOOSE y \in dis : TRUE
      OBVIOUS
    <3>4. x = 1 /\ e = d
      BY <2>1, <3>2, <3>3
    <3>5. B = [j \in 1 .. x |-> NewRow(e)]
      BY ONLY <3>2, <3>3
    <3>6. B = [j \in 1 .. 1 |-> r]
      BY ONLY <3>1, <3>4, <3>5
    <3>7. [j \in 1 .. 1 |-> r] = << r >>
      OBVIOUS
    <3> QED
      BY <3>1, <3>6, <3>7
  <2>3. NewRow(d) \in Row /\ ~unwinding /\ ~brinfo.mispredict
    BY <1>1, <1>15, NewRowType, CanDispatchWhen
  <2> HIDE DEF B
  <2>4. /\ rob' \in Seq(Row) /\ Len(rob') = n + 1
        /\ \A i \in 1 .. n + 1 : rob'[i] = IF i <= n THEN A[i] ELSE B[i - n]
    BY <1>1, <1>10, <1>11, <2>2, <2>3, ConcatProperties
  <2>5. rob'[n + 1] = NewRow(d) /\ DOMAIN rob' = 1 .. n + 1 /\ \A k \in 1 .. n : rob'[k] = A[k]
    BY <1>10, <2>2, <2>4
  <2>6. RowsMove(first - 1, n, dis, mem, faults)
    <3>1. \A k \in 1 .. n : k + (first - 1) = first + k - 1
      BY <1>7, <1>10
    <3>2. \A k \in 1 .. n : /\ k + (first - 1) \in DOMAIN rob /\ ~IsKilledByBranch(rob[k + (first - 1)])
                            /\ rob'[k] = RowAfter(rob[k + (first - 1)], mem, faults)
      BY <1>12, <1>11, <3>1, <2>5
    <3> QED
      <4>1. n + 1 \in 1 .. n + 1 /\ CanDispatch(d)
        BY <1>1, <1>10, <1>15
      <4>2. \A e \in dis : dis = {e} /\ e \in Insts /\ CanDispatch(e) /\ DOMAIN rob' = 1 .. n + 1 /\ rob'[n + 1] = NewRow(e)
        <5> TAKE e \in dis
        <5>1. e = d
          BY <1>15
        <5> QED
          BY ONLY <1>15, <2>5, <4>1, <5>1
      <4>3. dis # {}
        BY <1>15
      <4> QED
        BY <1>7, <1>10, <1>13, <3>2, <4>2, <4>3 DEF RowsMove
  <2> QED
    BY <2>4, <2>6
<1> QED
  BY <1>14, <1>15 DEF Edge, OneOf

\* What a row's tag becomes, and the parts of a row that finish.
NewTag(t) == IF brinfo.valid /\ t = brinfo.tag THEN 0 ELSE t
DoneParts(row, mem) == {u.part : u \in {v \in Finished(mem) : v.row = row}}

(* The fields of a row that stays.                                         *)
LEMMA AfterFields ==
    ASSUME NEW r \in Row, NEW mem, NEW faults
    PROVE  LET a == RowAfter(r, mem, faults)
           IN  /\ a.row = r.row /\ a.ldst = r.ldst /\ a.pdst = r.pdst
               /\ a.busy = r.busy \ DoneParts(r.row, mem)
               /\ a.br_tag = NewTag(r.br_tag) /\ a.br_mask = GetNewBrMask(r.br_mask)
BY DEF RowAfter, Row, NewTag, DoneParts

(* The row that is after the edge in place k, when it was there before.    *)
Stays(k, j, mem) ==
    /\ k \in DOMAIN rob' /\ j \in DOMAIN rob /\ ~IsKilledByBranch(rob[j])
    /\ rob'[k].row = rob[j].row /\ rob'[k].ldst = rob[j].ldst /\ rob'[k].pdst = rob[j].pdst
    /\ rob'[k].busy = rob[j].busy \ DoneParts(rob[j].row, mem)
    /\ rob'[k].br_tag = NewTag(rob[j].br_tag) /\ rob'[k].br_mask = GetNewBrMask(rob[j].br_mask)

(* The row of the instruction that is dispatched.                          *)
Joins(k, d) ==
    /\ d \in Insts /\ CanDispatch(d) /\ k \in DOMAIN rob'
    /\ rob'[k].row = Min(FreeRows) /\ rob'[k].pdst = Pdst(d) /\ rob'[k].busy = PartsOf(d.kind)
    /\ rob'[k].ldst = (IF IsFix(d) THEN d.ldst ELSE 0)
    /\ rob'[k].br_tag = BrTag(d) /\ rob'[k].br_mask = GetNewBrMask(BrTags)

(* The rows after the edge, by their fields.                               *)
RowsAre(c, n, dis, mem) ==
    /\ c \in {0, 1} /\ n \in Nat /\ (c = 1 <=> will_commit)
    /\ \A k \in 1 .. n : Stays(k, k + c, mem)
    /\ dis = {} => DOMAIN rob' = 1 .. n
    /\ \A d \in dis : /\ dis = {d} /\ d \in Insts /\ CanDispatch(d)
                      /\ DOMAIN rob' = 1 .. n + 1 /\ Joins(n + 1, d)
    /\ \A j \in DOMAIN rob : ~unwinding /\ j > c /\ ~IsKilledByBranch(rob[j]) => j - c \in 1 .. n

(* The same by the fields of the rows.                                     *)
LEMMA RowFields ==
    ASSUME Types, NEW c, NEW n, NEW dis, NEW mem, NEW faults, RowsMove(c, n, dis, mem, faults)
    PROVE  RowsAre(c, n, dis, mem)
<1>1. c \in {0, 1} /\ n \in Nat
  BY DEF RowsMove
<1>2. \A k \in 1 .. n : k \in DOMAIN rob'
  <2>1. CASE dis = {}
    BY <2>1 DEF RowsMove
  <2>2. ASSUME NEW d \in dis PROVE \A k \in 1 .. n : k \in DOMAIN rob'
    BY <1>1, <2>2 DEF RowsMove
  <2> QED
    BY <2>1, <2>2
<1>3. ASSUME NEW k \in 1 .. n PROVE Stays(k, k + c, mem)
  <2>1. PICK j : j = k + c
    OBVIOUS
  <2>2. j \in DOMAIN rob /\ ~IsKilledByBranch(rob[j]) /\ rob'[k] = RowAfter(rob[j], mem, faults)
    BY <2>1 DEF RowsMove
  <2>3. PICK r \in Row : r = rob[j]
    BY <2>2, RowTypes
  <2>4. PICK a : a = RowAfter(r, mem, faults)
    OBVIOUS
  <2>5. /\ a.row = r.row /\ a.ldst = r.ldst /\ a.pdst = r.pdst
        /\ a.busy = r.busy \ DoneParts(r.row, mem)
        /\ a.br_tag = NewTag(r.br_tag) /\ a.br_mask = GetNewBrMask(r.br_mask)
    BY <2>4, AfterFields
  <2>6. rob'[k] = a
    BY <2>2, <2>3, <2>4
  <2> QED
    BY <1>2, <2>1, <2>2, <2>3, <2>5, <2>6 DEF Stays
<1>4. ASSUME NEW d \in dis PROVE Joins(n + 1, d) /\ DOMAIN rob' = 1 .. n + 1
  <2>1. d \in Insts /\ CanDispatch(d) /\ DOMAIN rob' = 1 .. n + 1 /\ rob'[n + 1] = NewRow(d)
    BY DEF RowsMove
  <2> QED
    BY <1>1, <2>1 DEF Joins, NewRow
<1> QED
  BY <1>1, <1>3, <1>4 DEF RowsMove, RowsAre

(* Every row after the edge is one that stays or the new one.              *)
LEMMA RowCases ==
    ASSUME NEW c, NEW n, NEW dis, NEW mem, RowsAre(c, n, dis, mem), NEW k \in DOMAIN rob'
    PROVE  k \in 1 .. n \/ (k = n + 1 /\ \E d \in dis : Joins(k, d))
<1>1. CASE dis = {}
  BY <1>1 DEF RowsAre
<1>2. ASSUME NEW d \in dis PROVE k \in 1 .. n \/ (k = n + 1 /\ Joins(k, d))
  BY <1>2 DEF RowsAre
<1> QED
  BY <1>1, <1>2

(* Dispatch is not for a cycle in which rows are removed from the tail.    *)
LEMMA JoinsBehindAll ==
    ASSUME Types, NEW c, NEW n, NEW dis, NEW mem, RowsAre(c, n, dis, mem), dis # {}
    PROVE  ~unwinding /\ ~flush_pipeline /\ n = Len(rob) - c /\ \A j \in DOMAIN rob : ~IsKilledByBranch(rob[j])
<1>1. PICK d \in dis : CanDispatch(d)
  BY DEF RowsAre
<1>2. ~unwinding /\ ~flush_pipeline /\ ~brinfo.mispredict
  BY <1>1, CanDispatchWhen
<1>3. \A j \in DOMAIN rob : ~IsKilledByBranch(rob[j])
  BY <1>2 DEF IsKilledByBranch
<1>4. c \in {0, 1} /\ n \in Nat /\ (c = 1 => Len(rob) >= 1) /\ Len(rob) \in Nat /\ DOMAIN rob = 1 .. Len(rob)
  <2>1. c \in {0, 1} /\ n \in Nat /\ (c = 1 => will_commit)
    BY DEF RowsAre
  <2>2. Len(rob) \in Nat /\ DOMAIN rob = 1 .. Len(rob)
    BY RowTypes
  <2>3. will_commit => Len(rob) >= 1
    BY <2>2, RowTypes DEF will_commit
  <2> QED
    BY <2>1, <2>2, <2>3
<1>5. n <= Len(rob) - c
  <2>1. CASE n = 0
    BY <1>4, <2>1
  <2>2. CASE n # 0
    <3>1. n \in 1 .. n
      BY <1>4, <2>2
    <3>2. Stays(n, n + c, mem)
      BY <3>1 DEF RowsAre
    <3> QED
      BY <1>4, <3>2 DEF Stays
  <2> QED
    BY <2>1, <2>2
<1>6. n >= Len(rob) - c
  <2>1. CASE Len(rob) > c
    <3>1. Len(rob) \in DOMAIN rob
      BY <1>4, <2>1
    <3>2. Len(rob) - c \in 1 .. n
      BY <1>2, <1>3, <2>1, <3>1, SMTT(20) DEF RowsAre
    <3> QED
      BY <1>4, <3>2
  <2> QED
    BY <1>4, <2>1
<1>7. n = Len(rob) - c
  <2>1. PICK x \in Nat : x = Len(rob)
    BY <1>4
  <2>2. n \in Nat /\ c \in Int
    BY <1>4
  <2>3. n <= x - c /\ n >= x - c
    BY ONLY <1>5, <1>6, <2>1
  <2> QED
    BY ONLY <2>1, <2>2, <2>3
<1> QED
  BY <1>2, <1>3, <1>7

-----------------------------------------------------------------------------
(* The rows stay in order.                                                 *)

(* A tag stays what it is or is given back.                                *)
LEMMA NewTagIs == \A t : (NewTag(t) # 0 => NewTag(t) = t) /\ (NewTag(t) = 0 => t = 0 \/ (brinfo.valid /\ t = brinfo.tag))
BY DEF NewTag

(* Rows stay distinct in entry, register and branch tag.                   *)
LEMMA DistinctStep ==
    ASSUME Types, Distinct, NEW c, NEW n, NEW dis, NEW mem, RowsAre(c, n, dis, mem)
    PROVE  Distinct'
<1>1. c \in {0, 1} /\ n \in Nat
  BY DEF RowsAre
<1>2. ASSUME NEW i \in 1 .. n, NEW j \in 1 .. n, i # j
      PROVE  /\ rob'[i].row # rob'[j].row
             /\ rob'[i].br_tag # 0 => rob'[i].br_tag # rob'[j].br_tag
             /\ rob'[i].pdst # 0 => rob'[i].pdst # rob'[j].pdst
  <2>1. PICK x \in DOMAIN rob : x = i + c /\ Stays(i, x, mem)
    BY DEF RowsAre, Stays
  <2>2. PICK y \in DOMAIN rob : y = j + c /\ Stays(j, y, mem)
    BY DEF RowsAre, Stays
  <2>3. x # y
    BY <1>1, <1>2, <2>1, <2>2
  <2>4. rob'[i].br_tag # 0 => rob'[i].br_tag # rob'[j].br_tag
    <3>1. rob[x].br_tag # 0 => rob[x].br_tag # rob[y].br_tag
      BY <2>3 DEF Distinct
    <3> QED
      BY <2>1, <2>2, <3>1, NewTagIs DEF Stays
  <2> QED
    BY <2>1, <2>2, <2>3, <2>4 DEF Stays, Distinct
<1>3. ASSUME NEW i \in 1 .. n, NEW j, NEW d \in dis, Joins(j, d)
      PROVE  /\ rob'[i].row # rob'[j].row
             /\ rob'[i].br_tag # 0 \/ rob'[j].br_tag # 0 => rob'[i].br_tag # rob'[j].br_tag
             /\ rob'[i].pdst # 0 \/ rob'[j].pdst # 0 => rob'[i].pdst # rob'[j].pdst
  <2>1. PICK x \in DOMAIN rob : Stays(i, x, mem)
    BY DEF RowsAre, Stays
  <2>2. d \in Insts /\ CanDispatch(d)
    BY <1>3 DEF Joins
  <2>3. rob[x].row # Min(FreeRows)
    BY <2>2, NewIsFree
  <2>4. Pdst(d) # 0 => rob[x].pdst # Pdst(d)
    BY <2>2, NewIsFree DEF FreeRegs
  <2>5. BrTag(d) # 0 => rob[x].br_tag # BrTag(d)
    BY <2>2, NewIsFree
  <2> QED
    BY <1>3, <2>1, <2>3, <2>4, <2>5, NewTagIs DEF Stays, Joins
<1>4. ASSUME NEW i \in DOMAIN rob', NEW j \in DOMAIN rob', i # j
      PROVE  /\ rob'[i].row # rob'[j].row
             /\ rob'[i].br_tag # 0 => rob'[i].br_tag # rob'[j].br_tag
             /\ rob'[i].pdst # 0 => rob'[i].pdst # rob'[j].pdst
  <2>1. i \in 1 .. n \/ (i = n + 1 /\ \E d \in dis : Joins(i, d))
    BY RowCases
  <2>2. j \in 1 .. n \/ (j = n + 1 /\ \E d \in dis : Joins(j, d))
    BY RowCases
  <2>3. CASE i \in 1 .. n /\ j \in 1 .. n
    BY <1>2, <1>4, <2>3
  <2>4. CASE i \in 1 .. n /\ \E d \in dis : Joins(j, d)
    BY <1>3, <2>4
  <2>5. CASE j \in 1 .. n /\ \E d \in dis : Joins(i, d)
    <3>1. /\ rob'[j].row # rob'[i].row
          /\ rob'[i].br_tag # 0 => rob'[j].br_tag # rob'[i].br_tag
          /\ rob'[i].pdst # 0 => rob'[j].pdst # rob'[i].pdst
      BY <1>3, <2>5
    <3> QED
      BY <3>1
  <2> QED
    BY <1>4, <2>1, <2>2, <2>3, <2>4, <2>5
<1> QED
  BY <1>4 DEF Distinct

(* The head that commits has no branch tag: its branch is resolved.        *)
LEMMA CommitsResolved ==
    ASSUME IssueInv, will_commit
    PROVE  ~unwinding /\ Working /\ 1 \in DOMAIN rob /\ rob[1].busy = {} /\ rob[1].br_tag = 0 /\ rob[1] = Head(rob)
<1>1. rob # << >> /\ ~unwinding /\ Head(rob).busy = {}
  BY DEF will_commit
<1>2. 1 \in DOMAIN rob /\ rob[1] = Head(rob)
  BY <1>1, RowTypes DEF IssueInv
<1>3. Branches /\ Working
  BY <1>1 DEF IssueInv, Working, UopInv
<1> QED
  BY <1>1, <1>2, <1>3 DEF Branches

(* A branch mask loses the tag that is resolved and nothing else.          *)
LEMMA MaskIs == \A m, t : t \in GetNewBrMask(m) <=> t \in m /\ ~(brinfo.valid /\ t = brinfo.tag)
BY DEF GetNewBrMask

(* A row goes on to wait for exactly the unresolved branches before it,    *)
(* through kills, resolutions, commit and dispatch.                        *)
LEMMA MasksStep ==
    ASSUME IssueInv, NEW c, NEW n, NEW dis, NEW mem, RowsAre(c, n, dis, mem)
    PROVE  Masks'
<1> USE DEF IssueInv
<1>1. c \in {0, 1} /\ n \in Nat /\ (c = 1 => will_commit) /\ Len(rob) \in Nat /\ DOMAIN rob = 1 .. Len(rob)
  BY RowTypes DEF RowsAre
<1>2. Masks
  BY DEF RobInv
<1>3. \A i \in 1 .. n : i + c \in DOMAIN rob /\ rob'[i].br_tag = NewTag(rob[i + c].br_tag) /\ i \in DOMAIN rob'
  BY DEF RowsAre, Stays
<1>4. \A i \in DOMAIN rob : i <= c => rob[i].br_tag = 0
  BY <1>1, CommitsResolved
<1>5. \A t \in Tags : t # 0
  BY Indices
<1>6. ASSUME NEW j \in 1 .. n, NEW t \in Tags
      PROVE  t \in rob'[j].br_mask <=> \E i \in DOMAIN rob' : i < j /\ rob'[i].br_tag = t
  <2>1. PICK y \in DOMAIN rob : y = j + c /\ Stays(j, y, mem)
    BY DEF RowsAre, Stays
  <2>2. t \in rob'[j].br_mask <=> t \in rob[y].br_mask /\ ~(brinfo.valid /\ t = brinfo.tag)
    BY <2>1, MaskIs DEF Stays
  <2>3. t \in rob[y].br_mask <=> \E i \in DOMAIN rob : i < y /\ rob[i].br_tag = t
    BY <1>2 DEF Masks
  <2>4. ASSUME t \in rob'[j].br_mask PROVE \E i \in DOMAIN rob' : i < j /\ rob'[i].br_tag = t
    <3>1. PICK i \in DOMAIN rob : i < y /\ rob[i].br_tag = t
      BY <2>2, <2>3, <2>4
    <3>2. i > c
      BY <1>1, <1>4, <1>5, <3>1
    <3>3. PICK k : k = i - c
      OBVIOUS
    <3>4. k \in 1 .. n /\ k < j /\ k + c = i
      BY <1>1, <2>1, <3>1, <3>2, <3>3
    <3>5. rob'[k].br_tag = NewTag(t)
      BY <1>3, <3>1, <3>4
    <3>6. NewTag(t) = t
      BY <2>2, <2>4 DEF NewTag
    <3> QED
      BY <1>3, <3>4, <3>5, <3>6
  <2>5. ASSUME NEW i \in DOMAIN rob', i < j, rob'[i].br_tag = t PROVE t \in rob'[j].br_mask
    <3>1. i \in 1 .. n
      BY <1>1, <2>5, RowCases
    <3>2. PICK x : x = i + c
      OBVIOUS
    <3>3. x \in DOMAIN rob /\ NewTag(rob[x].br_tag) = t
      BY <1>3, <2>5, <3>1, <3>2
    <3>4. x < y
      BY <1>1, <2>1, <2>5, <3>1, <3>2
    <3>5. rob[x].br_tag = t /\ ~(brinfo.valid /\ t = brinfo.tag)
      BY <1>5, <3>3 DEF NewTag
    <3> QED
      BY <2>2, <2>3, <3>3, <3>5, <3>4
  <2> QED
    BY <2>4, <2>5
<1>7. ASSUME NEW j, j = n + 1, NEW d \in dis, Joins(j, d), NEW t \in Tags
      PROVE  t \in rob'[j].br_mask <=> \E i \in DOMAIN rob' : i < j /\ rob'[i].br_tag = t
  <2>1. n = Len(rob) - c
    BY JoinsBehindAll
  <2>2. t \in rob'[j].br_mask <=> t \in BrTags /\ ~(brinfo.valid /\ t = brinfo.tag)
    BY <1>7, MaskIs DEF Joins
  <2>3. t \in BrTags <=> \E i \in DOMAIN rob : rob[i].br_tag = t
    BY <1>5 DEF BrTags
  <2>4. ASSUME t \in rob'[j].br_mask PROVE \E i \in DOMAIN rob' : i < j /\ rob'[i].br_tag = t
    <3>1. PICK i \in DOMAIN rob : rob[i].br_tag = t
      BY <2>2, <2>3, <2>4
    <3>2. i > c
      BY <1>1, <1>4, <1>5, <3>1
    <3>3. PICK k : k = i - c
      OBVIOUS
    <3>4. k \in 1 .. n /\ k < j /\ k + c = i
      BY <1>1, <1>7, <2>1, <3>1, <3>2, <3>3
    <3>5. rob'[k].br_tag = NewTag(t)
      BY <1>3, <3>1, <3>4
    <3>6. NewTag(t) = t
      BY <2>2, <2>4 DEF NewTag
    <3> QED
      BY <1>3, <3>4, <3>5, <3>6
  <2>5. ASSUME NEW i \in DOMAIN rob', i < j, rob'[i].br_tag = t PROVE t \in rob'[j].br_mask
    <3>1. i \in 1 .. n
      BY <1>1, <1>7, <2>5, RowCases
    <3>2. PICK x : x = i + c
      OBVIOUS
    <3>3. x \in DOMAIN rob /\ NewTag(rob[x].br_tag) = t
      BY <1>3, <2>5, <3>1, <3>2
    <3>4. rob[x].br_tag = t /\ ~(brinfo.valid /\ t = brinfo.tag)
      BY <1>5, <3>3 DEF NewTag
    <3> QED
      BY <2>2, <2>3, <3>3, <3>4
  <2> QED
    BY <2>4, <2>5
<1>8. ASSUME NEW j \in DOMAIN rob', NEW t \in Tags
      PROVE  t \in rob'[j].br_mask <=> \E i \in DOMAIN rob' : i < j /\ rob'[i].br_tag = t
  <2>1. CASE j \in 1 .. n
    BY <1>6, <2>1
  <2>2. ASSUME NEW d \in dis, Joins(j, d), j = n + 1
        PROVE  t \in rob'[j].br_mask <=> \E i \in DOMAIN rob' : i < j /\ rob'[i].br_tag = t
    BY <1>7, <2>2
  <2> QED
    BY <2>1, <2>2, RowCases
<1> QED
  BY <1>8 DEF Masks

(* A row with a register keeps one part that writes it.                    *)
LEMMA DestinationsStep ==
    ASSUME Types, Destinations, NEW c, NEW n, NEW dis, NEW mem, RowsAre(c, n, dis, mem)
    PROVE  Destinations'
<1>1. ASSUME NEW j \in 1 .. n
      PROVE  /\ rob'[j].ldst = 0 <=> rob'[j].pdst = 0
             /\ rob'[j].pdst # 0 => \E part \in Parts \ {"sta", "std"} : rob'[j].busy \subseteq {part}
  <2>1. PICK y \in DOMAIN rob : Stays(j, y, mem)
    BY DEF RowsAre, Stays
  <2> QED
    BY <2>1 DEF Stays, Destinations
<1>2. ASSUME NEW j, NEW d \in dis, Joins(j, d)
      PROVE  /\ rob'[j].ldst = 0 <=> rob'[j].pdst = 0
             /\ rob'[j].pdst # 0 => \E part \in Parts \ {"sta", "std"} : rob'[j].busy \subseteq {part}
  <2>1. d \in Insts /\ CanDispatch(d) /\ rob'[j].pdst = Pdst(d) /\ rob'[j].busy = PartsOf(d.kind)
    BY <1>2 DEF Joins
  <2>2. Pdst(d) = 0 <=> ~(IsFix(d) /\ d.ldst # 0)
    BY <2>1, NewIsFree
  <2>3. IsFix(d) => \E part \in Parts \ {"sta", "std"} : PartsOf(d.kind) = {part}
    BY <2>1, InstFields
  <2>4. rob'[j].ldst = (IF IsFix(d) THEN d.ldst ELSE 0)
    BY <1>2 DEF Joins
  <2> QED
    BY <2>1, <2>2, <2>3, <2>4
<1> QED
  BY <1>1, <1>2, RowCases DEF Destinations

-----------------------------------------------------------------------------
(* The uops and their places.                                              *)

(* The uops of the slots.                                                  *)
LEMMA InSlotsIs == \A u : u \in InSlots <=> \E i \in Slots : \E s \in slots[i] : u = s.uop
BY Zenon DEF InSlots

HeldMembers ==
    \A h : h \in Held <=> \/ \E i \in Slots : \E s \in slots[i] : h = << "slot", i, s.uop >>
                          \/ \E u \in exe_reg : h = << "exe", 0, u >>
                          \/ \E u \in alu_reg : h = << "alu", 0, u >>
                          \/ \E m \in muldiv : h = << "muldiv", 0, m.uop >>
                          \/ \E u \in loads : h = << "load", 0, u >>
(* Every uop that is held is in one of the five kinds of places.           *)
LEMMA InHeld == HeldMembers
<1>1. \A i \in Slots : \A s \in slots[i] : s.uop \in InSlots
  BY InSlotsIs
<1> QED
  BY <1>1 DEF Held, HeldMembers

(* A uop by its place.                                                     *)
IsAt(place, i, u) == << place, i, u >> \in Held

PlaceIs ==
    /\ \A i, u : IsAt("slot", i, u) <=> i \in Slots /\ \E s \in slots[i] : u = s.uop
    /\ \A i, u : IsAt("exe", i, u) <=> i = 0 /\ u \in exe_reg
    /\ \A i, u : IsAt("alu", i, u) <=> i = 0 /\ u \in alu_reg
    /\ \A i, u : IsAt("muldiv", i, u) <=> i = 0 /\ \E m \in muldiv : u = m.uop
    /\ \A i, u : IsAt("load", i, u) <=> i = 0 /\ u \in loads
(* The places, one by one.                                                 *)
LEMMA Places == PlaceIs
BY InHeld DEF IsAt, HeldMembers, PlaceIs

FormOfHeld ==
    \A h \in Held : /\ h = << h[1], h[2], h[3] >> /\ IsAt(h[1], h[2], h[3])
                    /\ h[1] \in {"slot", "exe", "alu", "muldiv", "load"}
(* A member of Held is a place, a number and a uop.                        *)
LEMMA HeldForm == FormOfHeld
BY InHeld DEF IsAt, HeldMembers, FormOfHeld

(* The uop that waits to send the wakeup of its register.                  *)
ComingMeans ==
    \A p : Coming(p) <=> /\ p # 0
                         /\ \E g \in Held : g[3].pdst = p /\ (g[1] = "slot" \/ g[3].part # "alu")
(* A wakeup is to come from a slot, or from a stage if it is not a fast    *)
(* one.                                                                    *)
LEMMA ComingIs == ComingMeans
<1> SUFFICES ASSUME NEW p
             PROVE  Coming(p) <=> /\ p # 0
                                  /\ \E g \in Held : g[3].pdst = p /\ (g[1] = "slot" \/ g[3].part # "alu")
  BY DEF ComingMeans
<1>1. ASSUME NEW u \in InSlots, u.pdst = p PROVE \E g \in Held : g[3].pdst = p /\ g[1] = "slot"
  <2>1. PICK i \in Slots : \E s \in slots[i] : u = s.uop
    BY InSlotsIs
  <2>2. << "slot", i, u >> \in Held
    BY <2>1, Places DEF IsAt, PlaceIs
  <2> QED
    BY <1>1, <2>2
<1>2. ASSUME NEW u \in InPipe, u.pdst = p, ~bypassable(u) PROVE \E g \in Held : g[3].pdst = p /\ g[3].part # "alu"
  <2>1. u \in exe_reg \/ u \in alu_reg \/ (\E m \in muldiv : u = m.uop) \/ u \in loads
    BY DEF InPipe
  <2>2. PICK place : << place, 0, u >> \in Held
    BY <2>1, Places DEF IsAt, PlaceIs
  <2> QED
    BY <1>2, <2>2 DEF bypassable
<1>3. ASSUME NEW g \in Held, g[1] = "slot" PROVE g[3] \in InSlots
  BY <1>3, HeldForm, Places, InSlotsIs DEF FormOfHeld, PlaceIs
<1>4. ASSUME NEW g \in Held, g[1] # "slot" PROVE g[3] \in InPipe
  <2>1. IsAt(g[1], g[2], g[3]) /\ g[1] \in {"exe", "alu", "muldiv", "load"}
    BY <1>4, HeldForm DEF FormOfHeld
  <2> QED
    BY <2>1, Places DEF InPipe, PlaceIs
<1> QED
  BY <1>1, <1>2, <1>3, <1>4 DEF Coming, bypassable

(* The register of a committed row is not waited for.                      *)
LEMMA OwnerIsThere ==
    ASSUME Owned, NEW g \in Held
    PROVE  \E j \in DOMAIN rob : PartOf(g[3], j)
BY DEF Owned

(* No wakeup is to come for the register of a row that has finished.       *)
LEMMA IdleNotComing ==
    ASSUME RobInv, Owned, NEW j \in DOMAIN rob, rob[j].busy = {}
    PROVE  ~Coming(rob[j].pdst)
<1> SUFFICES ASSUME Coming(rob[j].pdst) PROVE FALSE
  OBVIOUS
<1>1. PICK g \in Held : rob[j].pdst # 0 /\ g[3].pdst = rob[j].pdst
  BY ComingIs DEF ComingMeans
<1>2. PICK k \in DOMAIN rob : PartOf(g[3], k)
  BY OwnerIsThere
<1>3. k = j
  BY <1>1, <1>2 DEF PartOf, RobInv, Distinct
<1> QED
  BY <1>2, <1>3 DEF PartOf

(* No wakeup is to come for a committed register.                          *)
LEMMA CommittedNotComing ==
    ASSUME RobInv, Owned, NEW l \in LRegs
    PROVE  ~Coming(committed[l])
<1> SUFFICES ASSUME Coming(committed[l]) PROVE FALSE
  OBVIOUS
<1>1. PICK g \in Held : committed[l] # 0 /\ g[3].pdst = committed[l]
  BY ComingIs DEF ComingMeans
<1>2. PICK k \in DOMAIN rob : PartOf(g[3], k)
  BY OwnerIsThere
<1> QED
  BY <1>1, <1>2 DEF PartOf, RobInv, Committed

-----------------------------------------------------------------------------
(* Registers at the edge.                                                  *)

\* What the edge does to the register file and to the busy table.
Registers(dis, mem) ==
    LET news == {Pdst(d) : d \in dis} \ {0}
    IN  /\ regfile' = (regfile \cup Written(mem)) \ news
        /\ table_bsy' = (table_bsy \ Wakeups(mem)) \cup news
        /\ committed' = IF will_commit /\ Head(rob).pdst # 0
                        THEN [committed EXCEPT ![Head(rob).ldst] = Head(rob).pdst] ELSE committed

(* A register in use keeps its value and what is known of it.              *)
LEMMA InUse ==
    ASSUME Types, NEW c, NEW n, NEW dis, NEW mem, RowsAre(c, n, dis, mem), Registers(dis, mem),
           NEW p \in PRegs, p \notin FreeRegs
    PROVE  /\ \A d \in dis : Pdst(d) # 0 => Pdst(d) # p
           /\ p \in regfile' <=> p \in regfile \cup Written(mem)
           /\ p \in table_bsy' <=> p \in table_bsy /\ p \notin Wakeups(mem)
<1>1. ASSUME NEW d \in dis PROVE Pdst(d) # 0 => Pdst(d) # p
  <2>1. d \in Insts /\ CanDispatch(d)
    BY DEF RowsAre
  <2> QED
    BY <2>1, NewIsFree
<1>2. p \notin {Pdst(d) : d \in dis} \ {0}
  BY <1>1
<1> QED
  BY <1>1, <1>2 DEF Registers

(* Registers that a map or a row names are not free.                       *)
LEMMA UsedRegs ==
    ASSUME Types
    PROVE  /\ 0 \notin FreeRegs /\ 0 \in PRegs
           /\ \A l \in LRegs : committed[l] \in PRegs \ FreeRegs
           /\ \A j \in DOMAIN rob : rob[j].pdst \in PRegs \ FreeRegs
BY RowTypes, Indices DEF Types, FreeRegs

(* The committed map after the edge.                                       *)
LEMMA CommitMap ==
    ASSUME IssueInv, NEW dis, NEW mem, Registers(dis, mem), NEW l \in LRegs
    PROVE  \/ committed'[l] = committed[l] /\ (will_commit => (rob[1].ldst # l \/ rob[1].pdst = 0))
           \/ will_commit /\ rob[1].ldst = l /\ rob[1].pdst # 0 /\ committed'[l] = rob[1].pdst
<1>1. committed \in [LRegs -> PRegs]
  BY DEF IssueInv, Types
<1>2. CASE will_commit /\ Head(rob).pdst # 0
  <2>1. 1 \in DOMAIN rob /\ Head(rob) = rob[1]
    BY <1>2, CommitsResolved
  <2>2. committed' = [committed EXCEPT ![rob[1].ldst] = rob[1].pdst]
    BY <1>2, <2>1 DEF Registers
  <2> QED
    BY <1>1, <1>2, <2>1, <2>2
<1>3. CASE ~(will_commit /\ Head(rob).pdst # 0)
  <2>1. committed' = committed
    BY <1>3 DEF Registers
  <2>2. will_commit => Head(rob) = rob[1]
    BY CommitsResolved
  <2> QED
    BY <1>3, <2>1, <2>2
<1> QED
  BY <1>2, <1>3

(* Committed registers hold their values, are not busy, and belong to no   *)
(* row.                                                                    *)
LEMMA CommittedStep ==
    ASSUME IssueInv, NEW c, NEW n, NEW dis, NEW mem, RowsAre(c, n, dis, mem), Registers(dis, mem)
    PROVE  Committed'
<1>1. Types /\ RobInv /\ Committed /\ Distinct
  BY DEF IssueInv, RobInv
<1>2. ASSUME NEW p \in PRegs, p \notin FreeRegs, p \in regfile, p \notin table_bsy
      PROVE  p \in regfile' /\ p \notin table_bsy'
  BY <1>1, <1>2, InUse
<1>3. 0 \in regfile'
  BY <1>1, <1>2, UsedRegs DEF Committed, Types
<1>4. ASSUME NEW p \in PRegs, p \notin FreeRegs, \A k \in 1 .. n : rob[k + c].pdst # 0 => rob[k + c].pdst # p
      PROVE  \A j \in DOMAIN rob' : rob'[j].pdst # 0 => rob'[j].pdst # p
  <2> TAKE j \in DOMAIN rob'
  <2>1. CASE j \in 1 .. n
    <3>1. Stays(j, j + c, mem)
      BY <2>1 DEF RowsAre
    <3> QED
      BY <1>4, <2>1, <3>1 DEF Stays
  <2>2. ASSUME NEW d \in dis, Joins(j, d) PROVE rob'[j].pdst # 0 => rob'[j].pdst # p
    BY <1>1, <1>4, <2>2, InUse DEF Joins
  <2> QED
    BY <2>1, <2>2, RowCases
<1>5. ASSUME NEW k \in 1 .. n PROVE k + c \in DOMAIN rob /\ (c = 1 => k + c # 1)
  <2>1. c \in {0, 1} /\ n \in Nat /\ Stays(k, k + c, mem)
    BY DEF RowsAre
  <2> QED
    BY <2>1 DEF Stays
<1>6. ASSUME NEW l \in LRegs
      PROVE  /\ committed'[l] \in regfile' /\ committed'[l] \notin table_bsy'
             /\ \A j \in DOMAIN rob' : rob'[j].pdst # 0 => rob'[j].pdst # committed'[l]
  <2>1. CASE committed'[l] = committed[l]
    <3>1. committed[l] \in PRegs /\ committed[l] \notin FreeRegs
      BY <1>1, UsedRegs
    <3>2. committed[l] \in regfile /\ committed[l] \notin table_bsy
      BY <1>1 DEF Committed
    <3>3. \A k \in 1 .. n : rob[k + c].pdst # 0 => rob[k + c].pdst # committed[l]
      BY <1>1, <1>5 DEF Committed
    <3>4. \A j \in DOMAIN rob' : rob'[j].pdst # 0 => rob'[j].pdst # committed[l]
      BY <1>4, <3>1, <3>3
    <3> QED
      BY <1>2, <2>1, <3>1, <3>2, <3>4
  <2>2. CASE will_commit /\ rob[1].pdst # 0 /\ committed'[l] = rob[1].pdst
    <3>1. 1 \in DOMAIN rob /\ rob[1].busy = {} /\ Working
      BY <2>2, CommitsResolved
    <3>2. rob[1].pdst \in PRegs /\ rob[1].pdst \notin FreeRegs
      BY <1>1, <3>1, UsedRegs
    <3>3. ValuesThere /\ TableRight /\ Owned
      BY <3>1 DEF IssueInv, ReadyInv, UopInv
    <3>4. rob[1].pdst \in regfile /\ rob[1].pdst \notin table_bsy
      BY <1>1, <3>1, <3>2, <3>3, IdleNotComing DEF ValuesThere, TableRight
    <3>5. c = 1
      BY <2>2 DEF RowsAre
    <3>6. \A k \in 1 .. n : rob[k + c].pdst # 0 => rob[k + c].pdst # rob[1].pdst
      BY <1>1, <1>5, <3>1, <3>5 DEF Distinct
    <3>7. \A j \in DOMAIN rob' : rob'[j].pdst # 0 => rob'[j].pdst # rob[1].pdst
      BY <1>4, <3>2, <3>6
    <3> QED
      BY <1>2, <2>2, <3>2, <3>4, <3>7
  <2> QED
    BY <2>1, <2>2, CommitMap
<1> QED
  BY <1>3, <1>6 DEF Committed

-----------------------------------------------------------------------------
(* Where the uops go.                                                      *)

(* A uop changes at the edge in its branch mask only.                      *)
LEMMA KeptFields ==
    ASSUME NEW u \in MicroOp
    PROVE  /\ Kept(u) \in MicroOp /\ Kept(u).row = u.row /\ Kept(u).part = u.part /\ Kept(u).pdst = u.pdst
           /\ Kept(u).pop1 = u.pop1 /\ Kept(u).pop2 = u.pop2 /\ Kept(u).br_tag = u.br_tag
           /\ Kept(u).br_mask = GetNewBrMask(u.br_mask)
<1>1. u.br_mask \in SUBSET Tags /\ GetNewBrMask(u.br_mask) \in SUBSET Tags
  BY DEF MicroOp, GetNewBrMask
<1> QED
  BY <1>1 DEF Kept, MicroOp

(* What is held is a uop.                                                  *)
LEMMA HeldTypes ==
    ASSUME Types, NEW h \in Held
    PROVE  h[3] \in MicroOp
<1>1. IsAt(h[1], h[2], h[3]) /\ h[1] \in {"slot", "exe", "alu", "muldiv", "load"}
  BY HeldForm DEF FormOfHeld
<1> QED
  BY <1>1, Places DEF PlaceIs, Types

(* At most one slot issues, and it asked for it.                           *)
LEMMA IssuedIs ==
    /\ \A i \in Issued : i \in Slots /\ \E s \in slots[i] : request(s)
    /\ \A i, j \in Issued : i = j
<1>1. Requests \in SUBSET Nat /\ Urgent \in SUBSET Nat /\ Urgent \subseteq Requests
  BY Indices DEF Requests, Urgent
<1>2. Urgent # {} => Min(Urgent) \in Requests
  BY <1>1, MinMember
<1>3. Requests # {} => Min(Requests) \in Requests
  BY <1>1, MinMember
<1>4. \A i \in Issued : i \in Requests
  BY <1>2, <1>3 DEF Issued
<1>5. \A i, j \in Issued : i = j
  BY DEF Issued
<1> QED
  BY <1>4, <1>5 DEF Requests

(* The uop that issues is that of the slot that issues.                    *)
LEMMA IssUopsIs == \A u : u \in IssUops <=> \E i \in Issued : \E s \in slots[i] : u = s.uop
BY Zenon DEF IssUops

\* What the edge does to the pipeline.
Pipeline(dis, mem, finishes) ==
    /\ slots' = [i \in Slots |-> IntegerIssueSlot(i, dis, mem)]
    /\ ExeRegNext /\ AluNext /\ MulDivNext(mem, finishes) /\ LoadsNext(mem)
    /\ mem \subseteq loads /\ finishes \in BOOLEAN

EntryOf(part) == IF part = "std" THEN Entry2 ELSE Entry1
KeptSlot(s, mem) == [uop |-> Kept(s.uop),
                     p1 |-> s.p1 \/ s.uop.pop1 \in Wakeups(mem),
                     p2 |-> s.p2 \/ s.uop.pop2 \in Wakeups(mem)]

(* A slot after the edge.                                                  *)
LEMMA SlotsNext ==
    ASSUME NEW dis, NEW mem, NEW finishes, Pipeline(dis, mem, finishes), NEW i \in Slots
    PROVE  \A s : s \in slots'[i] <=>
               \/ \E d \in dis : \E part \in PartsOf(d.kind) : i = EntryOf(part) /\ s = NewSlot(d, part, mem)
               \/ \E t \in slots[i] : /\ ~flush_pipeline /\ i \notin Issued /\ ~IsKilledByBranch(t.uop)
                                      /\ s = KeptSlot(t, mem)
<1> DEFINE New(d) == {NewSlot(d, part, mem) : part \in {p \in PartsOf(d.kind) : i = EntryOf(p)}}
           Old == {t \in slots[i] : ~flush_pipeline /\ i \notin Issued /\ ~IsKilledByBranch(t.uop)}
<1>1. slots'[i] = (UNION {New(d) : d \in dis}) \cup {KeptSlot(s, mem) : s \in Old}
  BY DEF Pipeline, IntegerIssueSlot, Allocated, KeptSlot, EntryOf
<1>2. \A d, s : s \in New(d) <=> \E part \in PartsOf(d.kind) : i = EntryOf(part) /\ s = NewSlot(d, part, mem)
  OBVIOUS
<1> HIDE DEF New
<1>3. \A s : s \in UNION {New(d) : d \in dis} <=> \E d \in dis : s \in New(d)
  BY Zenon
<1> QED
  BY <1>1, <1>2, <1>3

(* The stages after the edge.                                              *)
LEMMA StagesNext ==
    ASSUME Units, ~flush_pipeline, NEW dis, NEW mem, NEW finishes, Pipeline(dis, mem, finishes)
    PROVE  /\ \A u : u \in exe_reg' <=> \E i \in Issued : \E s \in slots[i] : ~IsKilledByBranch(s.uop) /\ u = Kept(s.uop)
           /\ \A u : u \in alu_reg' <=>
                  \E v \in exe_reg : v.part \in {"alu", "bru"} /\ ~IsKilledByBranch(v) /\ u = Kept(v)
           /\ \A u : (\E m \in muldiv' : u = m.uop) <=>
                  \/ \E v \in exe_reg : v.part = "muld" /\ ~IsKilledByBranch(v) /\ u = Kept(v)
                  \/ \E m \in muldiv : ~IsKilledByBranch(m.uop) /\ m.uop \notin MulResp(mem) /\ u = Kept(m.uop)
           /\ \A u : u \in loads' <=>
                  \/ \E v \in exe_reg : v.part = "ld" /\ ~IsKilledByBranch(v) /\ u = Kept(v)
                  \/ \E v \in loads : v \notin mem /\ ~IsKilledByBranch(v) /\ u = Kept(v)
<1>1. \A u : u \in exe_reg' <=> \E i \in Issued : \E s \in slots[i] : ~IsKilledByBranch(s.uop) /\ u = Kept(s.uop)
  <2>1. \A u : u \in exe_reg' <=> \E v \in IssUops : ~IsKilledByBranch(v) /\ u = Kept(v)
    BY DEF Pipeline, ExeRegNext
  <2> QED
    BY <2>1, IssUopsIs
<1>2. \A u : u \in alu_reg' <=>
          \E v \in exe_reg : v.part \in {"alu", "bru"} /\ ~IsKilledByBranch(v) /\ u = Kept(v)
  BY DEF Pipeline, AluNext, Executing
<1>3. \A u : (\E m \in muldiv' : u = m.uop) <=>
          \/ \E v \in exe_reg : v.part = "muld" /\ ~IsKilledByBranch(v) /\ u = Kept(v)
          \/ \E m \in muldiv : ~IsKilledByBranch(m.uop) /\ m.uop \notin MulResp(mem) /\ u = Kept(m.uop)
  <2>1. CASE muldiv = {}
    <3>1. muldiv' = {[uop |-> Kept(u), done |-> FALSE] : u \in Executing({"muld"})}
      BY <2>1 DEF Pipeline, MulDivNext
    <3>2. \A v \in Executing({"muld"}) : \E m \in muldiv' : Kept(v) = m.uop
      <4> TAKE v \in Executing({"muld"})
      <4>1. PICK m : m = [uop |-> Kept(v), done |-> FALSE]
        OBVIOUS
      <4> QED
        BY <3>1, <4>1
    <3>3. \A m \in muldiv' : \E v \in Executing({"muld"}) : m.uop = Kept(v)
      BY <3>1
    <3>4. \A u : (\E m \in muldiv' : u = m.uop) <=> \E v \in Executing({"muld"}) : u = Kept(v)
      BY <3>2, <3>3
    <3> QED
      BY <2>1, <3>4 DEF Executing
  <2>2. CASE muldiv # {}
    <3>1. muldiv' = {[uop |-> Kept(m.uop), done |-> m.done \/ finishes] : m \in
                       {n \in muldiv : ~IsKilledByBranch(n.uop) /\ ~flush_pipeline /\ n.uop \notin MulResp(mem)}}
      BY <2>2 DEF Pipeline, MulDivNext
    <3>2. \A u : (\E m \in muldiv' : u = m.uop) <=>
              \E m \in muldiv : ~IsKilledByBranch(m.uop) /\ m.uop \notin MulResp(mem) /\ u = Kept(m.uop)
      <4>1. ASSUME NEW m \in muldiv, ~IsKilledByBranch(m.uop), m.uop \notin MulResp(mem)
            PROVE  \E x \in muldiv' : Kept(m.uop) = x.uop
        <5>1. PICK x : x = [uop |-> Kept(m.uop), done |-> m.done \/ finishes]
          OBVIOUS
        <5> QED
          BY <3>1, <4>1, <5>1
      <4>2. \A x \in muldiv' : \E m \in muldiv :
                ~IsKilledByBranch(m.uop) /\ m.uop \notin MulResp(mem) /\ x.uop = Kept(m.uop)
        BY <3>1
      <4> QED
        BY <4>1, <4>2
    <3>3. \A v \in exe_reg : v.part # "muld"
      BY <2>2 DEF Units
    <3> QED
      BY <3>2, <3>3
  <2> QED
    BY <2>1, <2>2
<1>4. \A u : u \in loads' <=>
          \/ \E v \in exe_reg : v.part = "ld" /\ ~IsKilledByBranch(v) /\ u = Kept(v)
          \/ \E v \in loads : v \notin mem /\ ~IsKilledByBranch(v) /\ u = Kept(v)
  BY DEF Pipeline, LoadsNext, Executing
<1> QED
  BY <1>1, <1>2, <1>3, <1>4

\* The place g is handed over to the place h, or leaves.
Moves(g, h, mem) ==
    /\ h[3] = Kept(g[3])
    /\ \/ g[1] = "slot" /\ g[2] \notin Issued /\ h[1] = "slot" /\ h[2] = g[2]
       \/ g[1] = "slot" /\ g[2] \in Issued /\ h[1] = "exe" /\ h[2] = 0
       \/ g[1] = "exe" /\ g[3].part \in {"alu", "bru"} /\ h[1] = "alu" /\ h[2] = 0
       \/ g[1] = "exe" /\ g[3].part = "muld" /\ h[1] = "muldiv" /\ h[2] = 0
       \/ g[1] = "exe" /\ g[3].part = "ld" /\ h[1] = "load" /\ h[2] = 0
       \/ g[1] = "muldiv" /\ g[3] \notin MulResp(mem) /\ h[1] = "muldiv" /\ h[2] = 0
       \/ g[1] = "load" /\ g[3] \notin mem /\ h[1] = "load" /\ h[2] = 0
Leaves(g, mem) ==
    \/ g[1] = "alu"
    \/ g[1] = "exe" /\ g[3].part \in {"sta", "std"}
    \/ g[1] = "muldiv" /\ g[3] \in MulResp(mem)
    \/ g[1] = "load" /\ g[3] \in mem
NewUop(d, part) ==
    [row |-> Min(FreeRows), part |-> part, pdst |-> Pdst(d), pop1 |-> Mapped(d.lrs1),
     pop2 |-> Mapped(d.lrs2), br_tag |-> BrTag(d), br_mask |-> GetNewBrMask(BrTags)]
\* The uop of the new instruction d in h.
Arrives(h, d, part) ==
    /\ part \in PartsOf(d.kind) /\ h[1] = "slot" /\ h[2] = EntryOf(part) /\ h[3].part = part
    /\ h[3].row = Min(FreeRows) /\ h[3].pdst = Pdst(d)
    /\ h[3].br_tag = BrTag(d) /\ h[3].br_mask = GetNewBrMask(BrTags)
    /\ h[3] = NewUop(d, part)

(* Every uop there is after the edge was handed over or is new.            *)
LEMMA CameFrom ==
    ASSUME Units, ~flush_pipeline, NEW dis, NEW mem, NEW finishes, Pipeline(dis, mem, finishes), NEW h \in Held'
    PROVE  \/ \E g \in Held : ~IsKilledByBranch(g[3]) /\ Moves(g, h, mem)
           \/ \E d \in dis : \E part \in PartsOf(d.kind) : Arrives(h, d, part)
<1>1. FormOfHeld' /\ PlaceIs'
  BY HeldForm, Places, PTL
<1>2. /\ h = << h[1], h[2], h[3] >> /\ IsAt(h[1], h[2], h[3])'
      /\ h[1] \in {"slot", "exe", "alu", "muldiv", "load"}
  BY <1>1 DEF FormOfHeld
<1>3. CASE h[1] = "slot"
  <2>1. PICK i \in Slots : i = h[2] /\ \E s \in slots'[i] : h[3] = s.uop
    BY <1>1, <1>2, <1>3 DEF PlaceIs
  <2>2. PICK s \in slots'[i] : h[3] = s.uop
    BY <2>1
  <2>3. CASE \E d \in dis : \E part \in PartsOf(d.kind) : i = EntryOf(part) /\ s = NewSlot(d, part, mem)
    <3>1. PICK d \in dis : \E part \in PartsOf(d.kind) : i = EntryOf(part) /\ s = NewSlot(d, part, mem)
      BY <2>3
    <3>2. PICK part \in PartsOf(d.kind) : i = EntryOf(part) /\ s = NewSlot(d, part, mem)
      BY <3>1
    <3>3. Arrives(h, d, part)
      BY <1>3, <2>1, <2>2, <3>2 DEF Arrives, NewSlot, NewUop
    <3> QED
      BY <3>3
  <2>4. CASE \E t \in slots[i] : i \notin Issued /\ ~IsKilledByBranch(t.uop) /\ s = KeptSlot(t, mem)
    <3>1. PICK t \in slots[i] : i \notin Issued /\ ~IsKilledByBranch(t.uop) /\ s = KeptSlot(t, mem)
      BY <2>4
    <3>2. PICK g : g = << "slot", i, t.uop >>
      OBVIOUS
    <3>3. g \in Held
      BY <3>2, Places DEF PlaceIs, IsAt
    <3>4. h[3] = Kept(t.uop)
      BY <2>2, <3>1 DEF KeptSlot
    <3>5. g[1] = "slot" /\ g[2] = i /\ g[3] = t.uop
      BY <3>2
    <3>6. Moves(g, h, mem)
      BY <1>3, <2>1, <3>1, <3>4, <3>5 DEF Moves
    <3> QED
      BY <3>1, <3>3, <3>5, <3>6
  <2> QED
    BY <2>3, <2>4, SlotsNext
<1>4. CASE h[1] = "exe"
  <2>1. h[2] = 0 /\ h[3] \in exe_reg'
    BY <1>1, <1>2, <1>4 DEF PlaceIs
  <2>2. PICK i \in Issued : \E s \in slots[i] : ~IsKilledByBranch(s.uop) /\ h[3] = Kept(s.uop)
    BY <2>1, StagesNext
  <2>3. PICK s \in slots[i] : ~IsKilledByBranch(s.uop) /\ h[3] = Kept(s.uop)
    BY <2>2
  <2>4. PICK g : g = << "slot", i, s.uop >>
    OBVIOUS
  <2>5. g[1] = "slot" /\ g[2] = i /\ g[3] = s.uop
    BY <2>4
  <2>6. g \in Held
    BY <2>4, Places, IssuedIs DEF PlaceIs, IsAt
  <2> QED
    BY <1>4, <2>1, <2>3, <2>5, <2>6 DEF Moves
<1>5. ASSUME NEW v \in exe_reg, ~IsKilledByBranch(v), h[3] = Kept(v), h[2] = 0,
             \/ h[1] = "alu" /\ v.part \in {"alu", "bru"}
             \/ h[1] = "muldiv" /\ v.part = "muld"
             \/ h[1] = "load" /\ v.part = "ld"
      PROVE  \E g \in Held : ~IsKilledByBranch(g[3]) /\ Moves(g, h, mem)
  <2>1. PICK g : g = << "exe", 0, v >>
    OBVIOUS
  <2>2. g[1] = "exe" /\ g[2] = 0 /\ g[3] = v
    BY <2>1
  <2>3. g \in Held
    BY <2>1, Places DEF PlaceIs, IsAt
  <2> QED
    BY <1>5, <2>2, <2>3 DEF Moves
<1>6. CASE h[1] = "alu"
  <2>1. h[2] = 0 /\ h[3] \in alu_reg'
    BY <1>1, <1>2, <1>6 DEF PlaceIs
  <2>2. PICK v \in exe_reg : v.part \in {"alu", "bru"} /\ ~IsKilledByBranch(v) /\ h[3] = Kept(v)
    BY <2>1, StagesNext
  <2> QED
    BY <1>5, <1>6, <2>1, <2>2
<1>7. CASE h[1] = "muldiv"
  <2>1. h[2] = 0 /\ \E m \in muldiv' : h[3] = m.uop
    BY <1>1, <1>2, <1>7 DEF PlaceIs
  <2>2. \/ \E v \in exe_reg : v.part = "muld" /\ ~IsKilledByBranch(v) /\ h[3] = Kept(v)
        \/ \E m \in muldiv : ~IsKilledByBranch(m.uop) /\ m.uop \notin MulResp(mem) /\ h[3] = Kept(m.uop)
    BY <2>1, StagesNext
  <2>3. ASSUME NEW m \in muldiv, ~IsKilledByBranch(m.uop), m.uop \notin MulResp(mem), h[3] = Kept(m.uop)
        PROVE  \E g \in Held : ~IsKilledByBranch(g[3]) /\ Moves(g, h, mem)
    <3>1. PICK g : g = << "muldiv", 0, m.uop >>
      OBVIOUS
    <3>2. g[1] = "muldiv" /\ g[2] = 0 /\ g[3] = m.uop
      BY <3>1
    <3>3. g \in Held
      BY <3>1, Places DEF PlaceIs, IsAt
    <3> QED
      BY <1>7, <2>1, <2>3, <3>2, <3>3 DEF Moves
  <2> QED
    BY <1>5, <1>7, <2>1, <2>2, <2>3
<1>8. CASE h[1] = "load"
  <2>1. h[2] = 0 /\ h[3] \in loads'
    BY <1>1, <1>2, <1>8 DEF PlaceIs
  <2>2. \/ \E v \in exe_reg : v.part = "ld" /\ ~IsKilledByBranch(v) /\ h[3] = Kept(v)
        \/ \E v \in loads : v \notin mem /\ ~IsKilledByBranch(v) /\ h[3] = Kept(v)
    BY <2>1, StagesNext
  <2>3. ASSUME NEW v \in loads, v \notin mem, ~IsKilledByBranch(v), h[3] = Kept(v)
        PROVE  \E g \in Held : ~IsKilledByBranch(g[3]) /\ Moves(g, h, mem)
    <3>1. PICK g : g = << "load", 0, v >>
      OBVIOUS
    <3>2. g[1] = "load" /\ g[2] = 0 /\ g[3] = v
      BY <3>1
    <3>3. g \in Held
      BY <3>1, Places DEF PlaceIs, IsAt
    <3> QED
      BY <1>8, <2>1, <2>3, <3>2, <3>3 DEF Moves
  <2> QED
    BY <1>5, <1>8, <2>1, <2>2, <2>3
<1> QED
  BY <1>2, <1>3, <1>4, <1>6, <1>7, <1>8

(* A uop that is not killed is handed over or leaves.                      *)
LEMMA GoesOn ==
    ASSUME Types, Units, ~flush_pipeline, NEW dis, NEW mem, NEW finishes, Pipeline(dis, mem, finishes),
           NEW g \in Held, ~IsKilledByBranch(g[3])
    PROVE  Leaves(g, mem) \/ \E h \in Held' : Moves(g, h, mem)
<1>1. PlaceIs'
  BY Places, PTL
<1>2. /\ g = << g[1], g[2], g[3] >> /\ IsAt(g[1], g[2], g[3])
      /\ g[1] \in {"slot", "exe", "alu", "muldiv", "load"}
  BY HeldForm DEF FormOfHeld
<1>3. PICK w : w = Kept(g[3])
  OBVIOUS
<1>4. ASSUME NEW place, NEW i, IsAt(place, i, w)',
             \A h : h[1] = place /\ h[2] = i /\ h[3] = w => Moves(g, h, mem)
      PROVE  \E h \in Held' : Moves(g, h, mem)
  <2>1. PICK h : h = << place, i, w >>
    OBVIOUS
  <2>2. h \in Held'
    BY <1>4, <2>1 DEF IsAt
  <2>3. h[1] = place /\ h[2] = i /\ h[3] = w
    BY <2>1
  <2> QED
    BY <1>4, <2>2, <2>3
<1>5. CASE g[1] = "slot"
  <2>1. PICK i \in Slots : i = g[2] /\ \E s \in slots[i] : g[3] = s.uop
    BY <1>2, <1>5, Places DEF PlaceIs
  <2>2. PICK s \in slots[i] : g[3] = s.uop
    BY <2>1
  <2>3. CASE i \in Issued
    <3>1. w \in exe_reg'
      BY <1>3, <2>2, <2>3, StagesNext
    <3>2. IsAt("exe", 0, w)'
      BY <1>1, <3>1 DEF PlaceIs
    <3>3. \A h : h[1] = "exe" /\ h[2] = 0 /\ h[3] = w => Moves(g, h, mem)
      BY <1>3, <1>5, <2>1, <2>3 DEF Moves
    <3> QED
      BY <1>4, <3>2, <3>3
  <2>4. CASE i \notin Issued
    <3>1. KeptSlot(s, mem) \in slots'[i]
      BY <2>2, <2>4, SlotsNext
    <3>2. PICK x : x = KeptSlot(s, mem)
      OBVIOUS
    <3>3. x.uop = w
      BY <1>3, <2>2, <3>2 DEF KeptSlot
    <3>4. \E x1 \in slots'[i] : w = x1.uop
      BY <3>1, <3>2, <3>3
    <3>5. IsAt("slot", i, w)'
      BY <1>1, <3>4 DEF PlaceIs
    <3>6. \A h : h[1] = "slot" /\ h[2] = i /\ h[3] = w => Moves(g, h, mem)
      BY <1>3, <1>5, <2>1, <2>4 DEF Moves
    <3> QED
      BY <1>4, <3>5, <3>6
  <2> QED
    BY <2>3, <2>4
<1>6. CASE g[1] = "exe"
  <2>1. g[3] \in exe_reg /\ g[3].part \in Parts
    BY <1>2, <1>6, Places, HeldTypes DEF PlaceIs, MicroOp
  <2>2. CASE g[3].part \in {"alu", "bru"}
    <3>1. IsAt("alu", 0, w)'
      BY <1>1, <2>1, <2>2, <1>3, StagesNext DEF PlaceIs
    <3>2. \A h : h[1] = "alu" /\ h[2] = 0 /\ h[3] = w => Moves(g, h, mem)
      BY <1>3, <1>6, <2>2 DEF Moves
    <3> QED
      BY <1>4, <3>1, <3>2
  <2>3. CASE g[3].part = "muld"
    <3>1. \E m \in muldiv' : w = m.uop
      BY <2>1, <2>3, <1>3, StagesNext
    <3>2. IsAt("muldiv", 0, w)'
      BY <1>1, <3>1 DEF PlaceIs
    <3>3. \A h : h[1] = "muldiv" /\ h[2] = 0 /\ h[3] = w => Moves(g, h, mem)
      BY <1>3, <1>6, <2>3 DEF Moves
    <3> QED
      BY <1>4, <3>2, <3>3
  <2>4. CASE g[3].part = "ld"
    <3>1. IsAt("load", 0, w)'
      BY <1>1, <2>1, <2>4, <1>3, StagesNext DEF PlaceIs
    <3>2. \A h : h[1] = "load" /\ h[2] = 0 /\ h[3] = w => Moves(g, h, mem)
      BY <1>3, <1>6, <2>4 DEF Moves
    <3> QED
      BY <1>4, <3>1, <3>2
  <2>5. CASE g[3].part \in {"sta", "std"}
    BY <1>6, <2>5 DEF Leaves
  <2> QED
    BY <2>1, <2>2, <2>3, <2>4, <2>5 DEF Parts
<1>7. CASE g[1] = "alu"
  BY <1>7 DEF Leaves
<1>8. CASE g[1] = "muldiv" /\ g[3] \notin MulResp(mem)
  <2>1. \E m \in muldiv : g[3] = m.uop
    BY <1>2, <1>8, Places DEF PlaceIs
  <2>2. \E m \in muldiv' : w = m.uop
    BY <1>8, <2>1, <1>3, StagesNext
  <2>3. IsAt("muldiv", 0, w)'
    BY <1>1, <2>2 DEF PlaceIs
  <2>4. \A h : h[1] = "muldiv" /\ h[2] = 0 /\ h[3] = w => Moves(g, h, mem)
    BY <1>3, <1>8 DEF Moves
  <2> QED
    BY <1>4, <2>3, <2>4
<1>9. CASE g[1] = "load" /\ g[3] \notin mem
  <2>1. g[3] \in loads
    BY <1>2, <1>9, Places DEF PlaceIs
  <2>2. IsAt("load", 0, w)'
    BY <1>1, <1>9, <2>1, <1>3, StagesNext DEF PlaceIs
  <2>3. \A h : h[1] = "load" /\ h[2] = 0 /\ h[3] = w => Moves(g, h, mem)
    BY <1>3, <1>9 DEF Moves
  <2> QED
    BY <1>4, <2>2, <2>3
<1>10. CASE (g[1] = "muldiv" /\ g[3] \in MulResp(mem)) \/ (g[1] = "load" /\ g[3] \in mem)
  BY <1>10 DEF Leaves
<1> QED
  BY <1>2, <1>5, <1>6, <1>7, <1>8, <1>9, <1>10

(* The uop of every part of a new instruction gets a slot.                 *)
LEMMA GetsSlot ==
    ASSUME Types, NEW dis, NEW mem, NEW finishes, Pipeline(dis, mem, finishes),
           NEW d \in dis, d \in Insts, CanDispatch(d), NEW part \in PartsOf(d.kind)
    PROVE  \E h \in Held' : Arrives(h, d, part)
<1>1. PlaceIs'
  BY Places, PTL
<1>2. PICK i \in Slots : i = EntryOf(part)
  BY Entries DEF EntryOf, FreeSlots
<1>3. PICK s : s = NewSlot(d, part, mem)
  OBVIOUS
<1>4. s \in slots'[i]
  BY <1>2, <1>3, SlotsNext
<1>5. PICK h : h = << "slot", i, s.uop >>
  OBVIOUS
<1>6. h \in Held'
  BY <1>1, <1>4, <1>5 DEF PlaceIs, IsAt
<1>7. h[1] = "slot" /\ h[2] = i /\ h[3] = s.uop
  BY <1>5
<1>8. Arrives(h, d, part)
  BY <1>2, <1>3, <1>7 DEF Arrives, NewSlot, NewUop
<1> QED
  BY <1>6, <1>8

(* A hand-over is to one place, and none of what leaves is handed over.    *)
LEMMA MovesOnce ==
    ASSUME NEW mem, NEW g, NEW h, Moves(g, h, mem)
    PROVE  ~Leaves(g, mem) /\ \A k : Moves(g, k, mem) => k[1] = h[1] /\ k[2] = h[2] /\ k[3] = h[3]
BY DEF Moves, Leaves

(* What finishes is what leaves.                                           *)
LEMMA RespLeaves ==
    ASSUME NEW dis, NEW mem, NEW finishes, Pipeline(dis, mem, finishes), NEW u \in Resp(mem)
    PROVE  \E g \in Held : Leaves(g, mem) /\ g[3] = u /\ g[1] # "exe"
<1>1. ASSUME NEW place, IsAt(place, 0, u), \A g : g[1] = place /\ g[3] = u => Leaves(g, mem) /\ g[1] # "exe"
      PROVE  \E g \in Held : Leaves(g, mem) /\ g[3] = u /\ g[1] # "exe"
  <2>1. PICK g : g = << place, 0, u >>
    OBVIOUS
  <2>2. g \in Held /\ g[1] = place /\ g[3] = u
    BY <1>1, <2>1 DEF IsAt
  <2> QED
    BY <1>1, <2>2
<1>2. CASE u \in AluResp
  <2>1. IsAt("alu", 0, u)
    BY <1>2, Places DEF AluResp, PlaceIs
  <2>2. \A g : g[1] = "alu" /\ g[3] = u => Leaves(g, mem) /\ g[1] # "exe"
    BY DEF Leaves
  <2> QED
    BY <1>1, <2>1, <2>2
<1>3. CASE u \in MulResp(mem)
  <2>1. \E m \in muldiv : u = m.uop
    BY <1>3 DEF MulResp
  <2>2. IsAt("muldiv", 0, u)
    BY <2>1, Places DEF PlaceIs
  <2>3. \A g : g[1] = "muldiv" /\ g[3] = u => Leaves(g, mem) /\ g[1] # "exe"
    BY <1>3 DEF Leaves
  <2> QED
    BY <1>1, <2>2, <2>3
<1>4. CASE u \in mem
  <2>1. IsAt("load", 0, u)
    BY <1>4, Places DEF PlaceIs, Pipeline
  <2>2. \A g : g[1] = "load" /\ g[3] = u => Leaves(g, mem) /\ g[1] # "exe"
    BY <1>4 DEF Leaves
  <2> QED
    BY <1>1, <2>1, <2>2
<1> QED
  BY <1>2, <1>3, <1>4 DEF Resp

(* What finishes leaves the pipeline.                                      *)
LEMMA FinishedLeaves ==
    ASSUME NEW dis, NEW mem, NEW finishes, Pipeline(dis, mem, finishes), NEW u \in Finished(mem)
    PROVE  \E g \in Held : Leaves(g, mem) /\ g[3] = u
<1>1. CASE u \in Resp(mem)
  BY <1>1, RespLeaves
<1>2. CASE u \in exe_reg /\ u.part \in {"sta", "std"}
  <2>1. PICK g : g = << "exe", 0, u >>
    OBVIOUS
  <2>2. g \in Held /\ g[1] = "exe" /\ g[3] = u
    BY <1>2, <2>1, Places DEF PlaceIs, IsAt
  <2> QED
    BY <1>2, <2>2 DEF Leaves
<1> QED
  BY <1>1, <1>2 DEF Finished

(* What leaves, and is not killed, is finished.                            *)
LEMMA LeavesFinished ==
    ASSUME NEW mem, NEW g \in Held, ~IsKilledByBranch(g[3]), Leaves(g, mem)
    PROVE  g[3] \in Finished(mem) /\ (g[1] # "exe" => g[3] \in Resp(mem))
<1>1. IsAt(g[1], g[2], g[3])
  BY HeldForm DEF FormOfHeld
<1>2. CASE g[1] = "alu"
  BY <1>1, <1>2, Places DEF PlaceIs, Finished, Resp, AluResp
<1>3. CASE g[1] = "exe" /\ g[3].part \in {"sta", "std"}
  BY <1>1, <1>3, Places DEF PlaceIs, Finished
<1>4. CASE g[3] \in MulResp(mem) \/ g[3] \in mem
  BY <1>4 DEF Finished, Resp
<1> QED
  BY <1>2, <1>3, <1>4 DEF Leaves

(* Nothing is held when nothing is in any place.                           *)
NothingHeld ==
    Held = {} <=> /\ \A i \in Slots : slots[i] = {}
                  /\ exe_reg = {} /\ alu_reg = {} /\ muldiv = {} /\ loads = {}
(* Nothing is held exactly when every place is empty.                      *)
LEMMA EmptyPlaces == NothingHeld
<1>1. ASSUME Held = {}
      PROVE  (\A i \in Slots : slots[i] = {}) /\ exe_reg = {} /\ alu_reg = {} /\ muldiv = {} /\ loads = {}
  <2>1. \A place, i, u : ~IsAt(place, i, u)
    BY <1>1 DEF IsAt
  <2>2. \A i \in Slots : slots[i] = {}
    BY <2>1, Places DEF PlaceIs
  <2>3. exe_reg = {} /\ alu_reg = {} /\ loads = {}
    BY <2>1, Places DEF PlaceIs
  <2>4. muldiv = {}
    BY <2>1, Places DEF PlaceIs
  <2> QED
    BY <2>2, <2>3, <2>4
<1>2. ASSUME \A i \in Slots : slots[i] = {}, exe_reg = {}, alu_reg = {}, muldiv = {}, loads = {}
      PROVE  Held = {}
  BY <1>2, InHeld DEF HeldMembers
<1> QED
  BY <1>1, <1>2 DEF NothingHeld

(* A flush empties the window, and it stays empty while rows are unwound.  *)
LEMMA Emptied ==
    ASSUME IssueInv, unwinding, NEW mem, NEW finishes, Pipeline({}, mem, finishes)
    PROVE  Held' = {}
<1>1. NothingHeld'
  BY EmptyPlaces, PTL
<1>2. CASE flush_pipeline
  <2>1. Issued = {}
    BY <1>2, IssuedIs DEF request
  <2>2. \A i \in Slots : slots'[i] = {}
    BY <1>2, SlotsNext
  <2>3. exe_reg' = {}
    BY <2>1, IssUopsIs DEF Pipeline, ExeRegNext
  <2>4. \A S : Executing(S) = {}
    BY <1>2 DEF Executing
  <2>5. alu_reg' = {} /\ loads' = {}
    BY <1>2, <2>4 DEF Pipeline, AluNext, LoadsNext
  <2>6. muldiv' = {}
    BY <1>2, <2>4 DEF Pipeline, MulDivNext
  <2> QED
    BY <1>1, <2>2, <2>3, <2>5, <2>6 DEF NothingHeld
<1>3. CASE ~flush_pipeline
  <2>1. Held = {}
    BY <1>3 DEF IssueInv, Working
  <2>2. (\A i \in Slots : slots[i] = {}) /\ exe_reg = {} /\ alu_reg = {} /\ muldiv = {} /\ loads = {}
    BY <2>1, EmptyPlaces DEF NothingHeld
  <2>3. Units
    BY <2>2 DEF Units
  <2>4. \A h \in Held' : FALSE
    BY <1>3, <2>1, <2>3, CameFrom
  <2> QED
    BY <2>4
<1> QED
  BY <1>2, <1>3

-----------------------------------------------------------------------------
(* Every part of a row stays in one place.                                 *)

(* The whole invariant holds while rows are not unwound.                   *)
LEMMA WhileRunning ==
    ASSUME IssueInv, ~unwinding
    PROVE  /\ ~flush_pipeline /\ Working /\ Types /\ RobInv /\ UopInv /\ ReadyInv
           /\ Owned /\ Units /\ Branches /\ Distinct /\ Masks /\ Destinations /\ Committed
BY DEF IssueInv, RobInv, UopInv, Working

(* The row of a uop that is not killed stays.                              *)
LEMMA RowGoesOn ==
    ASSUME IssueInv, ~unwinding, NEW c, NEW n, NEW dis, NEW mem, RowsAre(c, n, dis, mem),
           NEW u, NEW j \in DOMAIN rob, PartOf(u, j), ~IsKilledByBranch(u)
    PROVE  j > c /\ j - c \in 1 .. n /\ Stays(j - c, j, mem)
<1>1. c \in {0, 1} /\ n \in Nat /\ (c = 1 => will_commit) /\ Len(rob) \in Nat /\ DOMAIN rob = 1 .. Len(rob)
  BY WhileRunning, RowTypes, SMTT(20) DEF RowsAre
<1>2. rob[j].busy # {} /\ ~IsKilledByBranch(rob[j])
  BY DEF PartOf, IsKilledByBranch
<1>3. c = 1 => j # 1
  BY <1>1, <1>2, CommitsResolved
<1>4. j > c
  BY <1>1, <1>3
<1>5. j - c \in 1 .. n
  BY <1>2, <1>4 DEF RowsAre
<1>6. PICK k : k = j - c
  OBVIOUS
<1>7. k + c = j /\ k \in 1 .. n
  BY <1>1, <1>5, <1>6
<1>8. Stays(k, k + c, mem)
  BY <1>7 DEF RowsAre
<1> QED
  BY <1>4, <1>5, <1>6, <1>7, <1>8

(* Parts that are handed over are not finished.                            *)
LEMMA NotDone ==
    ASSUME Owned, NEW dis, NEW mem, NEW finishes, Pipeline(dis, mem, finishes),
           NEW g \in Held, ~Leaves(g, mem)
    PROVE  g[3].part \notin DoneParts(g[3].row, mem)
<1> SUFFICES ASSUME g[3].part \in DoneParts(g[3].row, mem) PROVE FALSE
  OBVIOUS
<1>1. PICK u \in Finished(mem) : u.row = g[3].row /\ u.part = g[3].part
  BY DEF DoneParts
<1>2. PICK k \in Held : Leaves(k, mem) /\ k[3] = u
  BY <1>1, FinishedLeaves
<1>3. k = g
  BY <1>1, <1>2 DEF Owned
<1> QED
  BY <1>2, <1>3

(* A branch in the pipeline that is not in write-back is not resolved.     *)
LEMMA NotResolved ==
    ASSUME RobInv, UopInv, NEW mem, NEW g \in Held, ~Leaves(g, mem), g[3].part = "bru"
    PROVE  ~(brinfo.valid /\ brinfo.tag = g[3].br_tag)
<1> SUFFICES ASSUME brinfo.valid, brinfo.tag = g[3].br_tag PROVE FALSE
  OBVIOUS
<1> USE DEF RobInv, UopInv
<1>1. PICK v \in alu_reg : v.part = "bru" /\ brinfo.tag = v.br_tag
  BY DEF Branches
<1>2. PICK k : k = << "alu", 0, v >>
  OBVIOUS
<1>3. k \in Held /\ k[1] = "alu" /\ k[3] = v
  BY <1>2, Places DEF PlaceIs, IsAt
<1>4. PICK i \in DOMAIN rob : PartOf(g[3], i)
  BY OwnerIsThere
<1>5. PICK j \in DOMAIN rob : PartOf(v, j)
  BY <1>3, OwnerIsThere
<1>6. i = j
  BY <1>1, <1>4, <1>5 DEF PartOf, Distinct
<1>7. k = g
  BY <1>1, <1>3, <1>4, <1>5, <1>6 DEF PartOf, Owned
<1> QED
  BY <1>3, <1>7 DEF Leaves

(* A uop that is handed over stays part of its row.                        *)
LEMMA MovedIsPart ==
    ASSUME IssueInv, ~unwinding, NEW c, NEW n, NEW dis, NEW mem, NEW finishes, RowsAre(c, n, dis, mem),
           Pipeline(dis, mem, finishes), NEW g \in Held, ~IsKilledByBranch(g[3]), NEW h, Moves(g, h, mem)
    PROVE  \E j \in DOMAIN rob : /\ PartOf(g[3], j) /\ j > c /\ j - c \in 1 .. n
                                 /\ j - c \in DOMAIN rob' /\ PartOf(h[3], j - c)'
<1>0. ~flush_pipeline /\ Types /\ RobInv /\ UopInv /\ Owned
  BY WhileRunning
<1>1. PICK j \in DOMAIN rob : PartOf(g[3], j)
  BY <1>0, OwnerIsThere
<1>2. j > c /\ j - c \in 1 .. n /\ Stays(j - c, j, mem)
  BY <1>1, RowGoesOn
<1>3. PICK k : k = j - c
  OBVIOUS
<1>4. ~Leaves(g, mem) /\ h[3] = Kept(g[3])
  BY MovesOnce DEF Moves
<1>5. PICK u \in MicroOp : u = g[3]
  BY <1>0, HeldTypes
<1>6. PICK v : v = h[3]
  OBVIOUS
<1>7. v.row = u.row /\ v.part = u.part /\ v.pdst = u.pdst /\ v.br_tag = u.br_tag /\ v.br_mask = GetNewBrMask(u.br_mask)
  BY <1>4, <1>5, <1>6, KeptFields
<1>8. u.part \notin DoneParts(u.row, mem)
  BY <1>0, <1>4, <1>5, NotDone
<1>9. u.part = "bru" => ~(brinfo.valid /\ brinfo.tag = u.br_tag)
  BY <1>0, <1>4, <1>5, NotResolved
<1>10. PartOf(u, j) /\ Stays(k, j, mem)
  BY <1>1, <1>2, <1>3, <1>5
<1>11. rob'[k].row = v.row /\ v.part \in rob'[k].busy /\ rob'[k].br_mask = v.br_mask /\ rob'[k].pdst = v.pdst
  BY <1>7, <1>8, <1>10 DEF PartOf, Stays
<1>12. v.part = "bru" => v.br_tag # 0 /\ rob'[k].br_tag = v.br_tag
  BY <1>7, <1>9, <1>10 DEF PartOf, Stays, NewTag
<1>13. PartOf(v, k)'
  BY <1>11, <1>12 DEF PartOf
<1>14. k \in DOMAIN rob'
  BY <1>10 DEF Stays
<1> QED
  BY <1>1, <1>2, <1>3, <1>6, <1>13, <1>14

(* A new uop is part of the new row.                                       *)
LEMMA ArrivedIsPart ==
    ASSUME Types, NEW c, NEW n, NEW dis, NEW mem, RowsAre(c, n, dis, mem), NEW d \in dis, NEW h, NEW part, Arrives(h, d, part)
    PROVE  n + 1 \in DOMAIN rob' /\ PartOf(h[3], n + 1)'
<1>1. Joins(n + 1, d) /\ d \in Insts /\ CanDispatch(d)
  BY DEF RowsAre
<1>2. PICK k : k = n + 1
  OBVIOUS
<1>3. PICK v : v = h[3]
  OBVIOUS
<1>4. part = "bru" => BrTag(d) # 0
  BY <1>1, NewIsFree, InstFields DEF Arrives
<1>5. /\ k \in DOMAIN rob' /\ rob'[k].row = v.row /\ v.part \in rob'[k].busy /\ rob'[k].br_mask = v.br_mask
      /\ rob'[k].pdst = v.pdst
  BY <1>1, <1>2, <1>3 DEF Arrives, Joins
<1>6. v.part = "bru" => v.br_tag # 0 /\ rob'[k].br_tag = v.br_tag
  BY <1>1, <1>2, <1>3, <1>4 DEF Arrives, Joins
<1> QED
  BY <1>2, <1>3, <1>5, <1>6 DEF PartOf

(* Every unfinished part of a row goes on being in one place, and nothing  *)
(* else is.                                                                *)
LEMMA OwnedStep ==
    ASSUME IssueInv, ~unwinding, NEW c, NEW n, NEW dis, NEW mem, NEW finishes, RowsAre(c, n, dis, mem),
           Pipeline(dis, mem, finishes)
    PROVE  Owned'
<1>0. ~flush_pipeline /\ Types /\ RobInv /\ UopInv /\ Owned /\ Units /\ Distinct
  BY WhileRunning
<1>1. ASSUME NEW h \in Held' PROVE \E j \in DOMAIN rob' : PartOf(h[3], j)'
  <2>1. PICK v : v = h[3]
    OBVIOUS
  <2>2. CASE \E g \in Held : ~IsKilledByBranch(g[3]) /\ Moves(g, h, mem)
    <3>1. PICK g \in Held : ~IsKilledByBranch(g[3]) /\ Moves(g, h, mem)
      BY <2>2
    <3>2. PICK j \in DOMAIN rob : j - c \in DOMAIN rob' /\ PartOf(h[3], j - c)'
      BY <3>1, MovedIsPart
    <3>3. PICK k : k = j - c
      OBVIOUS
    <3> QED
      BY <3>2, <3>3
  <2>3. CASE \E d \in dis : \E part \in PartsOf(d.kind) : Arrives(h, d, part)
    <3>1. n + 1 \in DOMAIN rob' /\ PartOf(h[3], n + 1)'
      BY <1>0, <2>3, ArrivedIsPart
    <3> QED
      BY <3>1
  <2> QED
    BY <1>0, <2>2, <2>3, CameFrom
<1>2. ASSUME NEW g \in Held', NEW h \in Held', g[3].row = h[3].row, g[3].part = h[3].part
      PROVE  g = h
  <2>0. FormOfHeld'
    BY HeldForm, PTL
  <2>1. g = << g[1], g[2], g[3] >> /\ h = << h[1], h[2], h[3] >>
    BY <2>0 DEF FormOfHeld
  <2>2. ASSUME NEW x \in Held, NEW k \in Held', Moves(x, k, mem) PROVE k[3].row = x[3].row /\ k[3].part = x[3].part
    <3>1. x[3] \in MicroOp /\ k[3] = Kept(x[3])
      BY <1>0, <2>2, HeldTypes DEF Moves
    <3> QED
      BY <3>1, KeptFields
  <2>3. ASSUME NEW x \in Held, NEW y \in Held, Moves(x, g, mem), Moves(y, h, mem) PROVE g = h
    <3>1. x = y
      BY <1>0, <1>2, <2>2, <2>3 DEF Owned
    <3>2. g[1] = h[1] /\ g[2] = h[2] /\ g[3] = h[3]
      BY <2>3, <3>1, MovesOnce
    <3> QED
      BY <2>1, <3>2
  <2>4. ASSUME NEW x \in Held, NEW k \in Held', Moves(x, k, mem), NEW l, NEW d \in dis, NEW part, Arrives(l, d, part)
        PROVE  k[3].row # l[3].row
    <3>1. PICK j \in DOMAIN rob : PartOf(x[3], j)
      BY <1>0, OwnerIsThere
    <3>2. d \in Insts /\ CanDispatch(d)
      BY DEF RowsAre
    <3>3. rob[j].row # Min(FreeRows)
      BY <1>0, <3>2, NewIsFree
    <3> QED
      BY <2>2, <2>4, <3>1, <3>3 DEF PartOf, Arrives
  <2>5. ASSUME NEW d \in dis, NEW e \in dis, NEW p, NEW q, Arrives(g, d, p), Arrives(h, e, q) PROVE g = h
    <3>1. d = e
      BY DEF RowsAre
    <3>2. p = q
      BY <1>2, <2>5 DEF Arrives
    <3>3. g[1] = h[1] /\ g[2] = h[2]
      BY <2>5, <3>1, <3>2 DEF Arrives
    <3>4. g[3] = h[3]
      BY <2>5, <3>1, <3>2 DEF Arrives
    <3> QED
      BY <2>1, <3>3, <3>4
  <2> QED
    BY <1>0, <1>2, <2>3, <2>4, <2>5, CameFrom
<1>3. ASSUME NEW j \in DOMAIN rob', NEW part \in rob'[j].busy
      PROVE  \E h \in Held' : h[3].row = rob'[j].row /\ h[3].part = part
  <2>1. CASE j \in 1 .. n
    <3>1. PICK y \in DOMAIN rob : Stays(j, y, mem)
      BY <2>1 DEF RowsAre, Stays
    <3>2. part \in rob[y].busy /\ part \notin DoneParts(rob[y].row, mem)
      BY <3>1 DEF Stays
    <3>3. PICK g \in Held : g[3].row = rob[y].row /\ g[3].part = part
      BY <1>0, <3>2 DEF Owned
    <3>4. PICK k \in DOMAIN rob : PartOf(g[3], k)
      BY <1>0, OwnerIsThere
    <3>5. k = y
      BY <1>0, <3>3, <3>4 DEF Distinct, PartOf
    <3>6. ~IsKilledByBranch(g[3])
      BY <3>1, <3>4, <3>5 DEF PartOf, Stays, IsKilledByBranch
    <3>7. ~Leaves(g, mem)
      BY <3>2, <3>3, <3>6, LeavesFinished DEF DoneParts
    <3>8. PICK h \in Held' : Moves(g, h, mem)
      BY <1>0, <3>6, <3>7, GoesOn
    <3>9. g[3] \in MicroOp /\ h[3] = Kept(g[3])
      BY <1>0, <3>8, HeldTypes DEF Moves
    <3>10. h[3].row = rob[y].row /\ h[3].part = part
      BY <3>3, <3>9, KeptFields
    <3> QED
      BY <3>1, <3>10 DEF Stays
  <2>2. ASSUME NEW d \in dis, Joins(j, d) PROVE \E h \in Held' : h[3].row = rob'[j].row /\ h[3].part = part
    <3>1. d \in Insts /\ CanDispatch(d) /\ part \in PartsOf(d.kind) /\ rob'[j].row = Min(FreeRows)
      BY <1>3, <2>2 DEF Joins
    <3>2. PICK h \in Held' : Arrives(h, d, part)
      BY <1>0, <3>1, GetsSlot
    <3> QED
      BY <3>1, <3>2 DEF Arrives
  <2> QED
    BY <2>1, <2>2, RowCases
<1> QED
  BY <1>1, <1>2, <1>3 DEF Owned

-----------------------------------------------------------------------------
(* Stages hold one uop each, of the right kind.                            *)

(* Slots and stages hold at most one uop of the kinds they are for, and no *)
(* uop comes to a multiplier that works.                                   *)
LEMMA UnitsStep ==
    ASSUME IssueInv, ~unwinding, NEW c, NEW n, NEW dis, NEW mem, NEW finishes, RowsAre(c, n, dis, mem),
           Pipeline(dis, mem, finishes)
    PROVE  Units'
<1>0. ~flush_pipeline /\ Types /\ Units
  BY WhileRunning
<1>1. ASSUME NEW i \in Slots, NEW s \in slots'[i], NEW t \in slots'[i] PROVE s = t
  <2>1. ASSUME NEW d \in dis, NEW part \in PartsOf(d.kind), i = EntryOf(part)
        PROVE  /\ slots[i] = {} /\ d \in Insts
               /\ \A q \in PartsOf(d.kind) : i = EntryOf(q) => q = part
    <3>1. d \in Insts /\ CanDispatch(d)
      BY DEF RowsAre
    <3>2. Entry1 \in FreeSlots /\ Entry2 \in FreeSlots /\ Entry1 # Entry2
      BY <1>0, <3>1, Entries
    <3>3. slots[i] = {}
      BY <2>1, <3>2 DEF EntryOf, FreeSlots
    <3>4. \/ PartsOf(d.kind) = {"sta", "std"}
          \/ \E x : PartsOf(d.kind) = {x}
      BY <3>1, InstFields
    <3>5. \A q \in PartsOf(d.kind) : i = EntryOf(q) => q = part
      BY <2>1, <3>2, <3>4 DEF EntryOf
    <3> QED
      BY <3>1, <3>3, <3>5
  <2>2. CASE slots[i] = {}
    <3>1. PICK d \in dis : \E part \in PartsOf(d.kind) : i = EntryOf(part) /\ s = NewSlot(d, part, mem)
      BY <2>2, SlotsNext
    <3>2. PICK p \in PartsOf(d.kind) : i = EntryOf(p) /\ s = NewSlot(d, p, mem)
      BY <3>1
    <3>3. PICK e \in dis : \E part \in PartsOf(e.kind) : i = EntryOf(part) /\ t = NewSlot(e, part, mem)
      BY <2>2, SlotsNext
    <3>4. PICK q \in PartsOf(e.kind) : i = EntryOf(q) /\ t = NewSlot(e, q, mem)
      BY <3>3
    <3>5. d = e
      BY DEF RowsAre
    <3>6. p = q
      BY <2>1, <3>2, <3>4, <3>5
    <3> QED
      BY <3>2, <3>4, <3>5, <3>6
  <2>3. CASE slots[i] # {}
    <3>1. \A x \in slots'[i] : \E y \in slots[i] : x = KeptSlot(y, mem)
      BY <2>1, <2>3, SlotsNext
    <3>2. PICK y \in slots[i] : s = KeptSlot(y, mem)
      BY <3>1
    <3>3. PICK z \in slots[i] : t = KeptSlot(z, mem)
      BY <3>1
    <3>4. y = z
      BY <1>0 DEF Units
    <3> QED
      BY <3>2, <3>3, <3>4
  <2> QED
    BY <2>2, <2>3
<1>2. ASSUME NEW u \in exe_reg'
      PROVE  \E i \in Issued : \E s \in slots[i] : u = Kept(s.uop) /\ request(s) /\ s.uop \in MicroOp
  <2>1. PICK i \in Issued : \E s \in slots[i] : u = Kept(s.uop)
    BY <1>0, StagesNext
  <2>2. PICK s \in slots[i] : u = Kept(s.uop)
    BY <2>1
  <2>3. i \in Slots /\ \E t \in slots[i] : request(t)
    BY IssuedIs
  <2>4. request(s)
    BY <1>0, <2>3 DEF Units
  <2>5. s.uop \in MicroOp
    BY <1>0, <2>3 DEF Types
  <2> QED
    BY <2>2, <2>4, <2>5
<1>3. ASSUME NEW u \in exe_reg', NEW v \in exe_reg' PROVE u = v
  <2>1. PICK i \in Issued : \E s \in slots[i] : u = Kept(s.uop)
    BY <1>2
  <2>2. PICK j \in Issued : \E s \in slots[j] : v = Kept(s.uop)
    BY <1>2
  <2>3. i = j /\ i \in Slots
    BY IssuedIs
  <2> QED
    BY <1>0, <2>1, <2>2, <2>3 DEF Units
<1>4. ASSUME NEW u \in exe_reg', u.part = "muld" PROVE muldiv' = {}
  <2>1. PICK i \in Issued : \E s \in slots[i] : u = Kept(s.uop) /\ request(s) /\ s.uop \in MicroOp
    BY <1>2
  <2>2. PICK s \in slots[i] : u = Kept(s.uop) /\ request(s) /\ s.uop \in MicroOp
    BY <2>1
  <2>3. s.uop.part = "muld"
    BY <1>4, <2>2, KeptFields
  <2>4. ~muldiv_busy
    BY <2>2, <2>3 DEF request
  <2>5. \A w : ~(\E m \in muldiv' : w = m.uop)
    BY <1>0, <2>4, StagesNext DEF muldiv_busy
  <2> QED
    BY <2>5
<1>5. \A v \in exe_reg : v \in MicroOp
  BY <1>0 DEF Types
<1>6. \A u \in alu_reg' : u.part \in {"alu", "bru"}
  BY <1>0, <1>5, StagesNext, KeptFields
<1>7. \A m \in muldiv' : m.uop.part = "muld"
  <2>1. \A m \in muldiv : m.uop \in MicroOp /\ m.uop.part = "muld"
    BY <1>0 DEF Types, Units
  <2> QED
    BY <1>0, <1>5, <2>1, StagesNext, KeptFields
<1>8. \A u \in loads' : u.part = "ld"
  <2>1. \A u \in loads : u \in MicroOp /\ u.part = "ld"
    BY <1>0 DEF Types, Units
  <2> QED
    BY <1>0, <1>5, <2>1, StagesNext, KeptFields
<1>9. \A u, v \in alu_reg' : u = v
  BY <1>0, StagesNext DEF Units
<1>10. \A m, k \in muldiv' : m = k
  <2>1. CASE muldiv = {}
    <3>1. muldiv' = {[uop |-> Kept(u), done |-> FALSE] : u \in Executing({"muld"})}
      BY <2>1 DEF Pipeline, MulDivNext
    <3>2. \A u, v \in Executing({"muld"}) : u = v
      BY <1>0 DEF Executing, Units
    <3> QED
      BY <3>1, <3>2
  <2>2. CASE muldiv # {}
    <3>1. \A x \in muldiv' : \E y \in muldiv : x = [uop |-> Kept(y.uop), done |-> y.done \/ finishes]
      BY <2>2 DEF Pipeline, MulDivNext
    <3>2. \A y, z \in muldiv : y = z
      BY <1>0 DEF Units
    <3> QED
      BY <3>1, <3>2
  <2> QED
    BY <2>1, <2>2
<1> QED
  BY <1>1, <1>3, <1>4, <1>6, <1>7, <1>8, <1>9, <1>10 DEF Units

(* The branch unit answers for the branch in write-back.                   *)
LEMMA BranchesStep ==
    ASSUME IssueInv, ~unwinding, NEW c, NEW n, NEW dis, NEW mem, NEW finishes, RowsAre(c, n, dis, mem),
           Pipeline(dis, mem, finishes), NEW mispredict, BranchUnit(mispredict)
    PROVE  Branches'
<1>0. ~flush_pipeline /\ Types /\ RobInv /\ UopInv /\ Owned /\ Units /\ Branches /\ Distinct
  BY WhileRunning
<1>1. \A v \in exe_reg : v \in MicroOp /\ \A w \in exe_reg : v = w
  BY <1>0 DEF Types, Units
<1>2. \A v : v \in Executing({"bru"}) <=> v \in exe_reg /\ v.part = "bru" /\ ~IsKilledByBranch(v)
  BY <1>0 DEF Executing
<1>3. ASSUME NEW u \in alu_reg', u.part = "bru" PROVE brinfo'.valid /\ brinfo'.tag = u.br_tag
  <2>1. PICK v \in exe_reg : ~IsKilledByBranch(v) /\ u = Kept(v)
    BY <1>0, StagesNext
  <2>2. v.part = "bru" /\ v.br_tag = u.br_tag
    BY <1>1, <1>3, <2>1, KeptFields
  <2>3. v \in Executing({"bru"})
    BY <1>2, <2>1, <2>2
  <2>4. PICK w \in Executing({"bru"}) : brinfo' = [valid |-> TRUE, mispredict |-> mispredict, tag |-> w.br_tag]
    BY <2>3 DEF BranchUnit
  <2>5. w = v
    BY <1>1, <1>2, <2>3
  <2> QED
    BY <2>2, <2>4, <2>5
<1>4. ASSUME brinfo'.valid PROVE \E u \in alu_reg' : u.part = "bru"
  <2>1. PICK w \in Executing({"bru"}) : TRUE
    BY <1>4 DEF BranchUnit, NoBr
  <2>2. w \in exe_reg /\ w.part = "bru" /\ ~IsKilledByBranch(w)
    BY <1>2, <2>1
  <2>3. Kept(w) \in alu_reg'
    BY <1>0, <2>2, StagesNext
  <2> QED
    BY <1>1, <2>2, <2>3, KeptFields
<1>5. ASSUME NEW j \in DOMAIN rob', rob'[j].br_tag # 0 PROVE "bru" \in rob'[j].busy
  <2>1. CASE j \in 1 .. n
    <3>1. PICK y \in DOMAIN rob : Stays(j, y, mem)
      BY <2>1 DEF RowsAre, Stays
    <3>2. NewTag(rob[y].br_tag) # 0
      BY <1>5, <3>1 DEF Stays
    <3>3. rob[y].br_tag # 0 /\ ~(brinfo.valid /\ rob[y].br_tag = brinfo.tag)
      BY <3>2 DEF NewTag
    <3>4. "bru" \in rob[y].busy
      BY <1>0, <3>3 DEF Branches
    <3>5. ASSUME "bru" \in DoneParts(rob[y].row, mem) PROVE FALSE
      <4>1. PICK u \in Finished(mem) : u.row = rob[y].row /\ u.part = "bru"
        BY <3>5 DEF DoneParts
      <4>2. PICK g \in Held : Leaves(g, mem) /\ g[3] = u
        BY FinishedLeaves
      <4>3. IsAt(g[1], g[2], g[3]) /\ g[1] \in {"slot", "exe", "alu", "muldiv", "load"}
        BY HeldForm DEF FormOfHeld
      <4>4. g[1] = "alu"
        BY <1>0, <4>1, <4>2, <4>3, Places DEF PlaceIs, Leaves, Units
      <4>5. u \in alu_reg
        BY <4>2, <4>3, <4>4, Places DEF PlaceIs
      <4>6. brinfo.valid /\ brinfo.tag = u.br_tag
        BY <1>0, <4>1, <4>5 DEF Branches
      <4>7. PICK k \in DOMAIN rob : PartOf(u, k)
        BY <1>0, <4>2, OwnerIsThere
      <4>8. k = y
        BY <1>0, <4>1, <4>7 DEF PartOf, Distinct
      <4> QED
        BY <3>3, <4>1, <4>6, <4>7, <4>8 DEF PartOf
    <3> QED
      BY <3>1, <3>4, <3>5 DEF Stays
  <2>2. ASSUME NEW d \in dis, Joins(j, d) PROVE "bru" \in rob'[j].busy
    <3>1. d \in Insts /\ CanDispatch(d) /\ BrTag(d) # 0 /\ rob'[j].busy = PartsOf(d.kind)
      BY <1>5, <2>2 DEF Joins
    <3> QED
      BY <1>0, <3>1, NewIsFree, InstFields
  <2> QED
    BY <2>1, <2>2, RowCases
<1> QED
  BY <1>3, <1>4, <1>5 DEF Branches

-----------------------------------------------------------------------------
(* Wakeups.                                                                *)

(* A register has one producer, and it is no store.                        *)
LEMMA OneProducer ==
    ASSUME RobInv, Owned, NEW g \in Held, g[3].pdst # 0
    PROVE  /\ g[3].part \notin {"sta", "std"}
           /\ \A h \in Held : h[3].pdst = g[3].pdst => h = g
<1> USE DEF RobInv
<1>1. PICK j \in DOMAIN rob : PartOf(g[3], j)
  BY OwnerIsThere
<1>2. PICK part \in Parts \ {"sta", "std"} : rob[j].busy \subseteq {part}
  BY <1>1 DEF PartOf, Destinations
<1>3. g[3].part = part
  BY <1>1, <1>2 DEF PartOf
<1>4. ASSUME NEW h \in Held, h[3].pdst = g[3].pdst PROVE h = g
  <2>1. PICK k \in DOMAIN rob : PartOf(h[3], k)
    BY OwnerIsThere
  <2>2. k = j
    BY <1>1, <1>4, <2>1 DEF PartOf, Distinct
  <2>3. h[3].part = part
    BY <1>2, <2>1, <2>2 DEF PartOf
  <2> QED
    BY <1>1, <1>3, <2>1, <2>2, <2>3 DEF PartOf, Owned
<1> QED
  BY <1>2, <1>3, <1>4

\* A register of a row that stays, or of the committed map.
Live(p) ==
    \/ p = 0
    \/ \E l \in LRegs : p = committed[l]
    \/ \E j \in DOMAIN rob : ~IsKilledByBranch(rob[j]) /\ rob[j].pdst = p

(* A live register is not free.                                            *)
LEMMA LiveInUse == ASSUME Types, NEW p \in PRegs, Live(p) PROVE p \notin FreeRegs
BY UsedRegs DEF Live

(* Every wakeup of a register is sent by the one uop that writes it.       *)
LEMMA WakeupFrom ==
    ASSUME NEW dis, NEW mem, NEW finishes, Pipeline(dis, mem, finishes), NEW p \in Wakeups(mem)
    PROVE  /\ p # 0
           /\ \E g \in Held : /\ g[3].pdst = p
                              /\ Leaves(g, mem) \/ (g[1] = "slot" /\ g[2] \in Issued /\ g[3].part = "alu")
<1>1. p # 0 /\ (p \in FastWakeups \/ p \in Written(mem))
  BY DEF Wakeups
<1>2. CASE p \in FastWakeups
  <2>1. PICK v \in IssUops : v.part = "alu" /\ v.pdst = p
    BY <1>2 DEF FastWakeups, bypassable
  <2>2. PICK i \in Issued : \E s \in slots[i] : v = s.uop
    BY IssUopsIs
  <2>3. PICK g : g = << "slot", i, v >>
    OBVIOUS
  <2>4. g \in Held /\ g[1] = "slot" /\ g[2] = i /\ g[3] = v
    BY <2>2, <2>3, Places, IssuedIs DEF PlaceIs, IsAt
  <2> QED
    BY <1>1, <2>1, <2>4
<1>3. CASE p \in Written(mem)
  <2>1. PICK u \in Resp(mem) : u.pdst = p
    BY <1>3 DEF Written
  <2>2. PICK g \in Held : Leaves(g, mem) /\ g[3] = u
    BY RespLeaves
  <2> QED
    BY <1>1, <2>1, <2>2
<1> QED
  BY <1>1, <1>2, <1>3

(* The wakeup is still to come unless it is sent now.                      *)
LEMMA ComingStep ==
    ASSUME IssueInv, ~unwinding, NEW c, NEW n, NEW dis, NEW mem, NEW finishes, RowsAre(c, n, dis, mem),
           Pipeline(dis, mem, finishes), Registers(dis, mem), NEW p \in PRegs, Live(p)
    PROVE  Coming(p)' <=> Coming(p) /\ p \notin Wakeups(mem)
<1>0. ~flush_pipeline /\ Types /\ RobInv /\ Owned /\ Units /\ Distinct
  BY WhileRunning
<1>1. ComingMeans'
  BY ComingIs, PTL
<1>2. ComingMeans
  BY ComingIs
<1>3. ASSUME Coming(p)' PROVE Coming(p) /\ p \notin Wakeups(mem)
  <2>1. PICK h \in Held' : p # 0 /\ h[3].pdst = p /\ (h[1] = "slot" \/ h[3].part # "alu")
    BY <1>1, <1>3 DEF ComingMeans
  <2>2. ASSUME NEW d \in dis, NEW part, Arrives(h, d, part) PROVE FALSE
    <3>1. Pdst(d) # 0 => Pdst(d) # p
      BY <1>0, LiveInUse, InUse
    <3> QED
      BY <2>1, <2>2, <3>1 DEF Arrives
  <2>3. PICK g \in Held : ~IsKilledByBranch(g[3]) /\ Moves(g, h, mem)
    BY <1>0, <2>2, CameFrom
  <2>4. g[3].pdst = p /\ g[3].part = h[3].part
    <3>1. g[3] \in MicroOp /\ h[3] = Kept(g[3])
      BY <1>0, <2>3, HeldTypes DEF Moves
    <3> QED
      BY <2>1, <3>1, KeptFields
  <2>5. g[1] = "slot" \/ g[3].part # "alu"
    BY <2>1, <2>3, <2>4 DEF Moves
  <2>6. Coming(p)
    BY <1>2, <2>1, <2>4, <2>5 DEF ComingMeans
  <2>7. ASSUME p \in Wakeups(mem) PROVE FALSE
    <3>1. PICK k \in Held : /\ k[3].pdst = p
                            /\ Leaves(k, mem) \/ (k[1] = "slot" /\ k[2] \in Issued /\ k[3].part = "alu")
      BY <2>7, WakeupFrom
    <3>2. k = g
      BY <1>0, <2>1, <2>4, <3>1, OneProducer
    <3>3. ~Leaves(g, mem)
      BY <2>3, MovesOnce
    <3> QED
      BY <2>1, <2>3, <2>4, <3>1, <3>2, <3>3 DEF Moves
  <2> QED
    BY <2>6, <2>7
<1>4. ASSUME Coming(p), p \notin Wakeups(mem) PROVE Coming(p)'
  <2>1. PICK g \in Held : p # 0 /\ g[3].pdst = p /\ (g[1] = "slot" \/ g[3].part # "alu")
    BY <1>2, <1>4 DEF ComingMeans
  <2>2. PICK j \in DOMAIN rob : PartOf(g[3], j)
    BY <1>0, OwnerIsThere
  <2>3. ~IsKilledByBranch(g[3])
    <3>1. PICK k \in DOMAIN rob : ~IsKilledByBranch(rob[k]) /\ rob[k].pdst = p
      BY <1>0, <1>4, <2>1, CommittedNotComing DEF Live
    <3>2. k = j
      BY <1>0, <2>1, <2>2, <3>1 DEF PartOf, Distinct
    <3> QED
      BY <2>2, <3>1, <3>2 DEF PartOf, IsKilledByBranch
  <2>4. p \notin FastWakeups /\ p \notin Written(mem)
    BY <1>4, <2>1 DEF Wakeups
  <2>5. ~Leaves(g, mem)
    <3>1. ASSUME Leaves(g, mem) PROVE FALSE
      <4>1. g[1] # "exe"
        BY <1>0, <2>1, <3>1, OneProducer DEF Leaves
      <4>2. g[3] \in Resp(mem)
        BY <2>3, <3>1, <4>1, LeavesFinished
      <4> QED
        BY <2>1, <2>4, <4>2 DEF Written
    <3> QED
      BY <3>1
  <2>6. PICK h \in Held' : Moves(g, h, mem)
    BY <1>0, <2>3, <2>5, GoesOn
  <2>7. h[3].pdst = p /\ g[3].part = h[3].part
    <3>1. g[3] \in MicroOp /\ h[3] = Kept(g[3])
      BY <1>0, <2>6, HeldTypes DEF Moves
    <3> QED
      BY <2>1, <3>1, KeptFields
  <2>8. ASSUME g[3].part = "alu" PROVE h[1] = "slot"
    <3>1. g[1] = "slot" /\ IsAt(g[1], g[2], g[3])
      BY <2>1, <2>8, HeldForm DEF FormOfHeld
    <3>2. \E s \in slots[g[2]] : g[3] = s.uop
      BY <3>1, Places DEF PlaceIs
    <3>3. g[2] \in Issued => g[3] \in IssUops
      BY <3>2, IssUopsIs
    <3>4. g[2] \notin Issued
      BY <2>1, <2>4, <2>8, <3>3 DEF FastWakeups, bypassable
    <3> QED
      BY <2>6, <3>1, <3>4 DEF Moves
  <2> QED
    BY <1>1, <2>1, <2>6, <2>7, <2>8 DEF ComingMeans
<1> QED
  BY <1>3, <1>4

(* The map as a row sees it does not change while the row is there.        *)
LEMMA MapMoves ==
    ASSUME IssueInv, ~unwinding, NEW c, NEW n, NEW dis, NEW mem, RowsAre(c, n, dis, mem), Registers(dis, mem),
           NEW j \in Nat, j > c, j - c <= n + 1, NEW k \in Nat, k = j - c,
           NEW l \in LRegs \ {0}, NEW p, MapAt(j, l, p)
    PROVE  MapAt(k, l, p)'
<1>0. /\ Types /\ Destinations /\ c \in {0, 1} /\ n \in Nat /\ (c = 1 <=> will_commit)
      /\ Len(rob) \in Nat /\ DOMAIN rob = 1 .. Len(rob)
  BY WhileRunning, RowTypes, SMTT(20) DEF RowsAre
<1>1. \A i \in 1 .. n : /\ i + c \in DOMAIN rob /\ i \in DOMAIN rob' /\ rob'[i].ldst = rob[i + c].ldst
                        /\ rob'[i].pdst = rob[i + c].pdst
  BY DEF RowsAre, Stays
<1>2. \A i \in DOMAIN rob' : i < k => i \in 1 .. n
  BY <1>0, RowCases
<1>3. committed'[l] = committed[l] \/ (c = 1 /\ rob[1].ldst = l /\ committed'[l] = rob[1].pdst)
  BY <1>0, CommitMap
<1>4. c = 1 => 1 \in DOMAIN rob
  BY <1>0, CommitsResolved
<1>5. CASE (\A i \in DOMAIN rob : i < j => rob[i].ldst # l) /\ p = committed[l]
  <2>1. committed'[l] = committed[l]
    BY <1>0, <1>3, <1>4, <1>5
  <2>2. \A i \in DOMAIN rob' : i < k => rob'[i].ldst # l
    <3> SUFFICES ASSUME NEW i \in DOMAIN rob', i < k PROVE rob'[i].ldst # l
      OBVIOUS
    <3>1. i \in 1 .. n
      BY <1>2
    <3>2. PICK y : y = i + c
      OBVIOUS
    <3>3. y \in DOMAIN rob /\ rob'[i].ldst = rob[y].ldst
      BY <1>1, <3>1, <3>2
    <3>4. y < j
      BY <1>0, <3>1, <3>2
    <3> QED
      BY <1>5, <3>3, <3>4
  <2> QED
    BY <1>5, <2>1, <2>2 DEF MapAt
<1>6. ASSUME NEW i \in DOMAIN rob, i < j, rob[i].ldst = l, rob[i].pdst = p,
             \A m \in DOMAIN rob : i < m /\ m < j => rob[m].ldst # l
      PROVE  MapAt(k, l, p)'
  <2>1. CASE i > c
    <3>1. PICK x : x = i - c
      OBVIOUS
    <3>2. x \in 1 .. n /\ x < k /\ x + c = i
      BY <1>0, <1>6, <2>1, <3>1
    <3>3. x \in DOMAIN rob' /\ rob'[x].ldst = l /\ rob'[x].pdst = p
      BY <1>1, <1>6, <3>2
    <3>4. \A m \in DOMAIN rob' : x < m /\ m < k => rob'[m].ldst # l
      <4> SUFFICES ASSUME NEW m \in DOMAIN rob', x < m, m < k PROVE rob'[m].ldst # l
        OBVIOUS
      <4>1. m \in 1 .. n
        BY <1>2
      <4>2. PICK y : y = m + c
        OBVIOUS
      <4>3. y \in DOMAIN rob /\ rob'[m].ldst = rob[y].ldst
        BY <1>1, <4>1, <4>2
      <4>4. i < y /\ y < j
        BY <1>0, <3>1, <4>1, <4>2
      <4> QED
        BY <1>6, <4>3, <4>4
    <3> QED
      BY <3>2, <3>3, <3>4 DEF MapAt
  <2>2. CASE i <= c
    <3>1. i = 1 /\ c = 1
      BY <1>0, <2>2
    <3>2. rob[1].pdst # 0
      BY <1>0, <1>6, <3>1 DEF Destinations
    <3>3. committed'[l] = p
      BY <1>0, <1>6, <3>1, <3>2, CommitMap
    <3>4. \A m \in DOMAIN rob' : m < k => rob'[m].ldst # l
      <4> SUFFICES ASSUME NEW m \in DOMAIN rob', m < k PROVE rob'[m].ldst # l
        OBVIOUS
      <4>1. m \in 1 .. n
        BY <1>2
      <4>2. PICK y : y = m + c
        OBVIOUS
      <4>3. y \in DOMAIN rob /\ rob'[m].ldst = rob[y].ldst
        BY <1>1, <4>1, <4>2
      <4>4. i < y /\ y < j
        BY <1>0, <3>1, <4>1, <4>2
      <4> QED
        BY <1>6, <4>3, <4>4
    <3> QED
      BY <3>3, <3>4 DEF MapAt
  <2> QED
    BY <1>0, <2>1, <2>2
<1> QED
  BY <1>5, <1>6 DEF MapAt

(* What a row that stays reads is live.                                    *)
LEMMA MapLive ==
    ASSUME Types, NEW j, NEW l \in LRegs, NEW p, MapAt(j, l, p), \A i \in DOMAIN rob : i < j => ~IsKilledByBranch(rob[i])
    PROVE  Live(p) /\ p \in PRegs
BY UsedRegs DEF MapAt, Live

(* The operands of a uop that stays in the window.                         *)
LEMMA OperandStep ==
    ASSUME IssueInv, ~unwinding, NEW c, NEW n, NEW dis, NEW mem, RowsAre(c, n, dis, mem), Registers(dis, mem),
           NEW g \in Held, ~IsKilledByBranch(g[3]), NEW row, row = g[3].row, NEW p, Operand(p, row)
    PROVE  Live(p) /\ p \in PRegs /\ Operand(p, row)'
<1>0. /\ Types /\ Owned /\ Distinct /\ Masks /\ c \in {0, 1} /\ n \in Nat
      /\ Len(rob) \in Nat /\ DOMAIN rob = 1 .. Len(rob)
  BY WhileRunning, RowTypes, SMTT(20) DEF RowsAre
<1>1. CASE p = 0
  BY <1>1, Indices DEF Live, Operand
<1>2. ASSUME NEW j \in DOMAIN rob, NEW l \in LRegs \ {0}, rob[j].row = row, MapAt(j, l, p)
      PROVE  Live(p) /\ p \in PRegs /\ Operand(p, row)'
  <2>1. PICK m \in DOMAIN rob : PartOf(g[3], m)
    BY <1>0, OwnerIsThere
  <2>2. m = j
    BY <1>0, <1>2, <2>1 DEF PartOf, Distinct
  <2>3. j > c /\ j - c \in 1 .. n /\ Stays(j - c, j, mem)
    BY <2>1, <2>2, RowGoesOn
  <2>4. ~IsKilledByBranch(rob[j])
    BY <2>3 DEF Stays
  <2>5. \A i \in DOMAIN rob : i < j => ~IsKilledByBranch(rob[i])
    BY <1>0, <2>4, KillsLast
  <2>6. Live(p) /\ p \in PRegs
    BY <1>0, <1>2, <2>5, MapLive
  <2>7. PICK k \in Nat : k = j - c /\ j \in Nat /\ j - c <= n + 1
    BY <1>0, <2>3
  <2>8. MapAt(k, l, p)'
    BY <1>2, <2>3, <2>7, MapMoves
  <2>9. k \in DOMAIN rob' /\ rob'[k].row = row
    BY <1>2, <2>3, <2>7 DEF Stays
  <2> QED
    BY <2>6, <2>8, <2>9 DEF Operand
<1> QED
  BY <1>1, <1>2 DEF Operand

(* The operands of a new uop.                                              *)
LEMMA NewOperand ==
    ASSUME IssueInv, ~unwinding, NEW c, NEW n, NEW dis, NEW mem, NEW finishes, RowsAre(c, n, dis, mem),
           Pipeline(dis, mem, finishes), Registers(dis, mem), NEW d \in dis, NEW l \in LRegs,
           NEW p, p = Mapped(l), NEW row, row = Min(FreeRows)
    PROVE  Operand(p, row)' /\ (prs_busy(p, mem) <=> Coming(p)')
<1>0. /\ Types /\ ReadyInv /\ c \in {0, 1} /\ n \in Nat
      /\ Len(rob) \in Nat /\ DOMAIN rob = 1 .. Len(rob)
  BY WhileRunning, RowTypes, SMTT(20) DEF RowsAre
<1>1. n = Len(rob) - c /\ \A j \in DOMAIN rob : ~IsKilledByBranch(rob[j])
  BY <1>0, JoinsBehindAll
<1>2. Joins(n + 1, d)
  BY DEF RowsAre
<1>3. Live(p) /\ p \in PRegs /\ Operand(p, row)'
  <2>1. CASE l = 0
    <3>1. p = 0
      BY <1>0, <2>1, MappedAt
    <3> QED
      BY <3>1, Indices DEF Live, Operand
  <2>2. CASE l # 0
    <3>1. PICK j \in Nat : j = Len(rob) + 1
      BY <1>0
    <3>2. MapAt(j, l, p)
      BY <1>0, <2>2, <3>1, MappedAt
    <3>3. Live(p) /\ p \in PRegs
      BY <1>0, <1>1, <3>2, MapLive
    <3>4. PICK k \in Nat : k = n + 1
      BY <1>0
    <3>5. k = j - c /\ j > c /\ j - c <= n + 1
      BY <1>0, <1>1, <3>1, <3>4
    <3>6. MapAt(k, l, p)'
      BY <2>2, <3>2, <3>5, MapMoves
    <3>7. k \in DOMAIN rob' /\ rob'[k].row = row
      BY <1>2, <3>4 DEF Joins
    <3> QED
      BY <2>2, <3>3, <3>6, <3>7 DEF Operand
  <2> QED
    BY <2>1, <2>2
<1>4. p \in table_bsy <=> Coming(p)
  BY <1>0, <1>3, LiveInUse DEF ReadyInv, TableRight
<1>5. Coming(p)' <=> Coming(p) /\ p \notin Wakeups(mem)
  BY <1>3, ComingStep
<1> QED
  BY <1>3, <1>4, <1>5 DEF prs_busy

(* Ready bits stay exact, for the uops that wait and for the new one.      *)
LEMMA SlotsRightStep ==
    ASSUME IssueInv, ~unwinding, NEW c, NEW n, NEW dis, NEW mem, NEW finishes, RowsAre(c, n, dis, mem),
           Pipeline(dis, mem, finishes), Registers(dis, mem)
    PROVE  SlotsRight'
<1>0. Types /\ ReadyInv
  BY WhileRunning
<1>1. ASSUME NEW i \in Slots, NEW s \in slots'[i]
      PROVE  /\ s.uop.part # "std" => Operand(s.uop.pop1, s.uop.row)' /\ s.p1 = ~Coming(s.uop.pop1)'
             /\ s.uop.part # "sta" => Operand(s.uop.pop2, s.uop.row)' /\ s.p2 = ~Coming(s.uop.pop2)'
  <2>1. CASE \E d \in dis : \E part \in PartsOf(d.kind) : i = EntryOf(part) /\ s = NewSlot(d, part, mem)
    <3>1. PICK d \in dis : \E part \in PartsOf(d.kind) : i = EntryOf(part) /\ s = NewSlot(d, part, mem)
      BY <2>1
    <3>2. PICK part \in PartsOf(d.kind) : s = NewSlot(d, part, mem)
      BY <3>1
    <3>3. d.lrs1 \in LRegs /\ d.lrs2 \in LRegs
      BY InstFields DEF RowsAre
    <3>4. PICK p, q, row : p = Mapped(d.lrs1) /\ q = Mapped(d.lrs2) /\ row = Min(FreeRows)
      OBVIOUS
    <3>5. Operand(p, row)' /\ (prs_busy(p, mem) <=> Coming(p)')
      BY <3>3, <3>4, NewOperand
    <3>6. Operand(q, row)' /\ (prs_busy(q, mem) <=> Coming(q)')
      BY <3>3, <3>4, NewOperand
    <3>7. /\ s.uop.part = part /\ s.uop.pop1 = p /\ s.uop.pop2 = q /\ s.uop.row = row
          /\ s.p1 = (part = "std" \/ ~prs_busy(p, mem)) /\ s.p2 = (part = "sta" \/ ~prs_busy(q, mem))
      BY <3>2, <3>4 DEF NewSlot
    <3> QED
      BY <3>5, <3>6, <3>7
  <2>2. CASE \E t \in slots[i] : ~IsKilledByBranch(t.uop) /\ s = KeptSlot(t, mem)
    <3>1. PICK t \in slots[i] : ~IsKilledByBranch(t.uop) /\ s = KeptSlot(t, mem)
      BY <2>2
    <3>2. t.uop \in MicroOp /\ t.p1 \in BOOLEAN /\ t.p2 \in BOOLEAN
      BY <1>0 DEF Types
    <3>3. PICK u \in MicroOp : u = t.uop
      BY <3>2
    <3>4. PICK p, q, row : p = u.pop1 /\ q = u.pop2 /\ row = u.row
      OBVIOUS
    <3>5. PICK v : v = Kept(u)
      OBVIOUS
    <3>6. v.part = u.part /\ v.pop1 = p /\ v.pop2 = q /\ v.row = row
      BY <3>4, <3>5, KeptFields
    <3>7. s.uop = v /\ s.p1 = (t.p1 \/ p \in Wakeups(mem)) /\ s.p2 = (t.p2 \/ q \in Wakeups(mem))
      BY <3>1, <3>3, <3>4, <3>5 DEF KeptSlot
    <3>8. PICK g : g = << "slot", i, u >>
      OBVIOUS
    <3>9. g \in Held /\ g[3] = u
      BY <3>3, <3>8, Places DEF PlaceIs, IsAt
    <3>10. ASSUME NEW x, NEW b \in BOOLEAN, Operand(x, row), b = ~Coming(x)
           PROVE  Operand(x, row)' /\ (b \/ x \in Wakeups(mem)) = ~Coming(x)'
      <4>1. Live(x) /\ x \in PRegs /\ Operand(x, row)'
        BY <3>1, <3>3, <3>4, <3>9, <3>10, OperandStep
      <4>2. Coming(x)' <=> Coming(x) /\ x \notin Wakeups(mem)
        BY <4>1, ComingStep
      <4> QED
        BY <3>10, <4>1, <4>2
    <3>11. /\ u.part # "std" => Operand(p, row) /\ t.p1 = ~Coming(p)
           /\ u.part # "sta" => Operand(q, row) /\ t.p2 = ~Coming(q)
      BY <1>0, <3>3, <3>4 DEF ReadyInv, SlotsRight
    <3> QED
      BY <3>2, <3>6, <3>7, <3>10, <3>11
  <2> QED
    BY <2>1, <2>2, SlotsNext
<1> QED
  BY <1>1 DEF SlotsRight

(* Busy bits stay exact for every register that can be named.              *)
LEMMA TableRightStep ==
    ASSUME IssueInv, ~unwinding, NEW c, NEW n, NEW dis, NEW mem, NEW finishes, RowsAre(c, n, dis, mem),
           Pipeline(dis, mem, finishes), Registers(dis, mem)
    PROVE  TableRight'
<1>0. Types /\ ReadyInv /\ Masks
  BY WhileRunning
<1>1. ASSUME NEW p \in PRegs, Live(p) PROVE p \in table_bsy' <=> Coming(p)'
  <2>1. p \in table_bsy <=> Coming(p)
    BY <1>0, <1>1, LiveInUse DEF ReadyInv, TableRight
  <2>2. Coming(p)' <=> Coming(p) /\ p \notin Wakeups(mem)
    BY <1>1, ComingStep
  <2>3. p \in table_bsy' <=> p \in table_bsy /\ p \notin Wakeups(mem)
    BY <1>0, <1>1, LiveInUse, InUse
  <2> QED
    BY <2>1, <2>2, <2>3
<1>2. ASSUME NEW d \in dis, NEW p, p = Pdst(d), p # 0 PROVE p \in table_bsy' /\ Coming(p)'
  <2>1. d \in Insts /\ CanDispatch(d)
    BY DEF RowsAre
  <2>2. p \in table_bsy'
    BY <1>2 DEF Registers
  <2>3. PICK part \in PartsOf(d.kind) : TRUE
    BY <2>1, InstFields
  <2>4. PICK h \in Held' : Arrives(h, d, part)
    BY <1>0, <2>1, GetsSlot
  <2>5. h[3].pdst = p /\ h[1] = "slot"
    BY <1>2, <2>4 DEF Arrives
  <2>6. ComingMeans'
    BY ComingIs, PTL
  <2> QED
    BY <1>2, <2>2, <2>4, <2>5, <2>6 DEF ComingMeans
<1>3. ASSUME NEW p \in PRegs \ FreeRegs' PROVE p \in table_bsy' <=> Coming(p)'
  <2>1. p = 0 \/ (\E l \in LRegs : p = committed'[l]) \/ \E j \in DOMAIN rob' : p = rob'[j].pdst
    BY <1>3 DEF FreeRegs
  <2>2. CASE p = 0
    BY <1>1, <2>2 DEF Live
  <2>3. ASSUME NEW l \in LRegs, p = committed'[l] PROVE Live(p)
    <3>1. CASE p = committed[l]
      BY <3>1 DEF Live
    <3>2. CASE will_commit /\ p = rob[1].pdst
      <4>1. 1 \in DOMAIN rob
        BY <3>2, CommitsResolved
      <4>2. rob[1].br_mask \subseteq {}
        BY <1>0, <4>1, RowTypes DEF Masks
      <4>3. ~IsKilledByBranch(rob[1])
        BY <4>2 DEF IsKilledByBranch
      <4> QED
        BY <3>2, <4>1, <4>3 DEF Live
    <3> QED
      BY <2>3, <3>1, <3>2, CommitMap
  <2>4. ASSUME NEW j \in DOMAIN rob', p = rob'[j].pdst PROVE p \in table_bsy' <=> Coming(p)'
    <3>1. CASE j \in 1 .. n
      <4>1. PICK y \in DOMAIN rob : Stays(j, y, mem)
        BY <3>1 DEF RowsAre, Stays
      <4>2. Live(p)
        BY <2>4, <4>1 DEF Stays, Live
      <4> QED
        BY <1>1, <4>2
    <3>2. ASSUME NEW d \in dis, Joins(j, d) PROVE p \in table_bsy' <=> Coming(p)'
      <4>1. p = Pdst(d)
        BY <2>4, <3>2 DEF Joins
      <4> QED
        BY <1>2, <2>2, <4>1
    <3> QED
      BY <3>1, <3>2, RowCases
  <2> QED
    BY <1>1, <2>1, <2>2, <2>3, <2>4
<1> QED
  BY <1>3 DEF TableRight

(* The result is in the register file when its row has nothing to wait for. *)
LEMMA ValuesStep ==
    ASSUME IssueInv, ~unwinding, NEW c, NEW n, NEW dis, NEW mem, NEW finishes, RowsAre(c, n, dis, mem),
           Pipeline(dis, mem, finishes), Registers(dis, mem)
    PROVE  ValuesThere'
<1>0. Types /\ ReadyInv /\ Owned /\ Distinct /\ Destinations /\ Committed
  BY WhileRunning
<1>1. ASSUME NEW j \in DOMAIN rob', rob'[j].busy = {} PROVE rob'[j].pdst \in regfile'
  <2>1. CASE j \in 1 .. n
    <3>1. PICK y \in DOMAIN rob : Stays(j, y, mem)
      BY <2>1 DEF RowsAre, Stays
    <3>2. PICK p \in PRegs : p = rob[y].pdst /\ p \notin FreeRegs
      BY <1>0, UsedRegs
    <3>3. p \in regfile \cup Written(mem)
      <4>1. CASE rob[y].busy = {} \/ p = 0
        BY <1>0, <3>2, <4>1 DEF ReadyInv, ValuesThere, Committed
      <4>2. CASE rob[y].busy # {} /\ p # 0
        <5>1. PICK part \in rob[y].busy : part \in DoneParts(rob[y].row, mem)
          BY <1>1, <3>1, <4>2 DEF Stays
        <5>2. PICK u \in Finished(mem) : u.row = rob[y].row /\ u.part = part
          BY <5>1 DEF DoneParts
        <5>3. PICK g \in Held : g[3] = u
          BY <5>2, FinishedLeaves
        <5>4. PICK k \in DOMAIN rob : PartOf(u, k)
          BY <1>0, <5>3, OwnerIsThere
        <5>5. k = y
          BY <1>0, <5>2, <5>4 DEF PartOf, Distinct
        <5>6. u.pdst = p /\ u.part \notin {"sta", "std"}
          BY <1>0, <3>2, <4>2, <5>4, <5>5 DEF PartOf, Destinations
        <5>7. u \in Resp(mem)
          BY <5>2, <5>6 DEF Finished
        <5> QED
          BY <4>2, <5>6, <5>7 DEF Written
      <4> QED
        BY <4>1, <4>2
    <3>4. p \in regfile'
      BY <1>0, <3>2, <3>3, InUse
    <3> QED
      BY <3>1, <3>2, <3>4 DEF Stays
  <2>2. ASSUME NEW d \in dis, Joins(j, d) PROVE FALSE
    BY <1>1, <2>2, InstFields DEF Joins
  <2> QED
    BY <2>1, <2>2, RowCases
<1> QED
  BY <1>1 DEF ValuesThere

-----------------------------------------------------------------------------
(* Types.                                                                  *)

(* A clock edge by its parts.                                              *)
LEMMA EdgeGives ==
    ASSUME Types, RobInv, NEW dis, NEW mem, NEW faults, NEW finishes, NEW mispredict,
           Edge(dis, mem, faults, finishes, mispredict)
    PROVE  /\ Pipeline(dis, mem, finishes) /\ Registers(dis, mem) /\ BranchUnit(mispredict) /\ mispredict \in BOOLEAN
           /\ flush_pipeline' = exception_thrown /\ unwinding' = (exception_thrown \/ (unwinding /\ rob # << >>))
           /\ rob' \in Seq(Row) /\ \E c, n : RowsAre(c, n, dis, mem)
           /\ unwinding => dis = {}
<1>1. mem \subseteq loads
  BY DEF Edge, OneOf
<1>2. Pipeline(dis, mem, finishes)
  BY <1>1 DEF Edge, Clock, Pipeline
<1>3. Registers(dis, mem)
  BY DEF Edge, Clock, BusyTable, Registers
<1>4. /\ BranchUnit(mispredict) /\ mispredict \in BOOLEAN
      /\ flush_pipeline' = exception_thrown /\ unwinding' = (exception_thrown \/ (unwinding /\ rob # << >>))
      /\ \A d \in dis : CanDispatch(d)
  BY DEF Edge, Clock
<1>5. rob' \in Seq(Row) /\ \E c, n : RowsMove(c, n, dis, mem, faults)
  BY RowsStep
<1>6. \E c, n : RowsAre(c, n, dis, mem)
  BY <1>5, RowFields
<1>7. unwinding => dis = {}
  BY <1>4, CanDispatchWhen
<1> QED
  BY <1>2, <1>3, <1>4, <1>5, <1>6, <1>7

(* Types are kept.                                                         *)
LEMMA TypesStep ==
    ASSUME IssueInv, NEW dis, NEW mem, NEW faults, NEW finishes, NEW mispredict,
           Edge(dis, mem, faults, finishes, mispredict)
    PROVE  Types'
<1>0. Types /\ RobInv
  BY DEF IssueInv
<1>1. /\ Pipeline(dis, mem, finishes) /\ Registers(dis, mem) /\ BranchUnit(mispredict) /\ mispredict \in BOOLEAN
      /\ flush_pipeline' = exception_thrown /\ unwinding' = (exception_thrown \/ (unwinding /\ rob # << >>))
      /\ rob' \in Seq(Row)
  BY <1>0, EdgeGives
<1>2. \A d \in dis : d \in Insts /\ CanDispatch(d)
  BY DEF Edge, OneOf, Clock
<1>3. flush_pipeline' \in BOOLEAN /\ unwinding' \in BOOLEAN
  BY <1>1 DEF exception_thrown
<1>4. committed' \in [LRegs -> PRegs]
  <2>1. CASE will_commit /\ Head(rob).pdst # 0
    <3>1. 1 \in DOMAIN rob /\ Head(rob) = rob[1]
      BY <2>1, CommitsResolved
    <3>2. rob[1].pdst \in PRegs
      BY <1>0, <3>1, RowTypes
    <3> QED
      BY <1>0, <1>1, <2>1, <3>1, <3>2 DEF Registers, Types
  <2>2. CASE ~(will_commit /\ Head(rob).pdst # 0)
    BY <1>0, <1>1, <2>2 DEF Registers, Types
  <2> QED
    BY <2>1, <2>2
<1>5. \A u \in exe_reg : u \in MicroOp
  BY <1>0 DEF Types
<1>6. \A S : \A u \in Executing(S) : u \in MicroOp
  BY <1>5 DEF Executing
<1>7. brinfo' \in [valid : BOOLEAN, mispredict : BOOLEAN, tag : 0 .. MaxBr]
  <2>1. CASE brinfo' = NoBr
    BY <2>1, Indices DEF NoBr
  <2>2. ASSUME NEW u \in Executing({"bru"}), brinfo' = [valid |-> TRUE, mispredict |-> mispredict, tag |-> u.br_tag]
        PROVE  brinfo' \in [valid : BOOLEAN, mispredict : BOOLEAN, tag : 0 .. MaxBr]
    <3>1. u.br_tag \in 0 .. MaxBr
      BY <1>6 DEF MicroOp
    <3> QED
      BY <1>1, <2>2, <3>1
  <2> QED
    BY <1>1, <2>1, <2>2 DEF BranchUnit
<1>8. \A d \in dis : Pdst(d) \in PRegs
  BY <1>0, <1>2, NewIsFree
<1>9. \A u \in Resp(mem) : u.pdst \in PRegs
  <2>1. \A u \in Resp(mem) : u \in MicroOp
    BY <1>0, <1>1, RespLeaves, HeldTypes
  <2> QED
    BY <2>1 DEF MicroOp
<1>10. table_bsy' \subseteq PRegs \ {0} /\ regfile' \subseteq PRegs
  BY <1>0, <1>1, <1>8, <1>9 DEF Registers, Types, Written
<1>11. ASSUME NEW i \in Slots PROVE slots'[i] \subseteq [uop : MicroOp, p1 : BOOLEAN, p2 : BOOLEAN]
  <2>1. ASSUME NEW d \in dis, NEW part \in PartsOf(d.kind)
        PROVE  NewSlot(d, part, mem) \in [uop : MicroOp, p1 : BOOLEAN, p2 : BOOLEAN]
    <3>1. d \in Insts /\ CanDispatch(d) /\ part \in Parts
      BY <1>2, <2>1, InstFields
    <3>2. Mapped(d.lrs1) \in PRegs /\ Mapped(d.lrs2) \in PRegs
      BY <1>0, <3>1, InstFields, MappedAt
    <3>3. Min(FreeRows) \in Rows /\ Pdst(d) \in PRegs /\ BrTag(d) \in 0 .. MaxBr
      BY <1>0, <3>1, NewIsFree
    <3>4. GetNewBrMask(BrTags) \in SUBSET Tags
      BY <1>0, RowTypes, Indices DEF GetNewBrMask, BrTags
    <3> QED
      BY <3>1, <3>2, <3>3, <3>4 DEF NewSlot, MicroOp
  <2>2. ASSUME NEW t \in slots[i]
        PROVE  KeptSlot(t, mem) \in [uop : MicroOp, p1 : BOOLEAN, p2 : BOOLEAN]
    <3>1. t.uop \in MicroOp /\ t.p1 \in BOOLEAN /\ t.p2 \in BOOLEAN
      BY <1>0 DEF Types
    <3>2. Kept(t.uop) \in MicroOp
      BY <3>1, KeptFields
    <3> QED
      BY <3>1, <3>2 DEF KeptSlot
  <2> QED
    BY <1>1, <2>1, <2>2, SlotsNext
<1>12. exe_reg' \subseteq MicroOp
  <2>1. \A u \in IssUops : u \in MicroOp
    BY <1>0, IssUopsIs, IssuedIs DEF Types
  <2> QED
    BY <1>1, <2>1, KeptFields DEF Pipeline, ExeRegNext
<1>13. alu_reg' \subseteq MicroOp
  BY <1>1, <1>6, KeptFields DEF Pipeline, AluNext
<1>14. loads' \subseteq MicroOp
  <2>1. \A u \in loads : u \in MicroOp
    BY <1>0 DEF Types
  <2>2. \A u \in loads' : \E v \in MicroOp : u = Kept(v)
    BY <1>1, <1>6, <2>1 DEF Pipeline, LoadsNext
  <2> QED
    BY <2>2, KeptFields
<1>15. muldiv' \subseteq [uop : MicroOp, done : BOOLEAN]
  <2>1. \A m \in muldiv : m.uop \in MicroOp /\ m.done \in BOOLEAN
    BY <1>0 DEF Types
  <2>2. \A m \in muldiv' : \E v \in MicroOp, b \in BOOLEAN : m = [uop |-> Kept(v), done |-> b]
    <3>1. CASE muldiv = {}
      BY <1>1, <1>6, <3>1 DEF Pipeline, MulDivNext
    <3>2. CASE muldiv # {}
      <4>1. \A m \in muldiv' : \E x \in muldiv : m = [uop |-> Kept(x.uop), done |-> x.done \/ finishes]
        BY <1>1, <3>2 DEF Pipeline, MulDivNext
      <4>2. finishes \in BOOLEAN
        BY <1>1 DEF Pipeline
      <4>3. \A x \in muldiv : (x.done \/ finishes) \in BOOLEAN
        BY <2>1, <4>2
      <4> QED
        BY <2>1, <4>1, <4>3
    <3> QED
      BY <3>1, <3>2
  <2> QED
    BY <2>2, KeptFields
<1> QED
  BY <1>1, <1>3, <1>4, <1>7, <1>10, <1>11, <1>12, <1>13, <1>14, <1>15 DEF Types

-----------------------------------------------------------------------------
(* The invariant holds.                                                    *)

(* What holds of the rows is kept.                                         *)
LEMMA RobStep ==
    ASSUME IssueInv, NEW dis, NEW mem, NEW faults, NEW finishes, NEW mispredict,
           Edge(dis, mem, faults, finishes, mispredict)
    PROVE  RobInv'
<1>0. Types /\ RobInv /\ Distinct /\ Destinations
  BY DEF IssueInv, RobInv
<1>1. PICK c, n : RowsAre(c, n, dis, mem)
  BY <1>0, EdgeGives
<1>2. /\ Registers(dis, mem) /\ flush_pipeline' = exception_thrown
      /\ unwinding' = (exception_thrown \/ (unwinding /\ rob # << >>))
  BY <1>0, EdgeGives
<1>3. Distinct' /\ Masks' /\ Destinations' /\ Committed'
  BY <1>0, <1>1, <1>2, DistinctStep, MasksStep, DestinationsStep, CommittedStep
<1> QED
  BY <1>2, <1>3 DEF RobInv

(* An empty window, with no rows.                                          *)
EmptyWindow ==
    Types /\ RobInv /\ Held = {} /\ rob = << >> /\ ~brinfo.valid => UopInv /\ ReadyInv
(* An empty window with no rows is right.                                  *)
LEMMA EmptyIsRight == EmptyWindow
<1> SUFFICES ASSUME Types, RobInv, Held = {}, rob = << >>, ~brinfo.valid PROVE UopInv /\ ReadyInv
  BY DEF EmptyWindow
<1>1. (\A i \in Slots : slots[i] = {}) /\ exe_reg = {} /\ alu_reg = {} /\ muldiv = {} /\ loads = {}
  BY EmptyPlaces DEF NothingHeld
<1>2. DOMAIN rob = {}
  BY RowTypes
<1>3. UopInv
  BY <1>1, <1>2 DEF UopInv, Owned, Units, Branches
<1>4. \A p : ~Coming(p)
  BY ComingIs DEF ComingMeans
<1>5. \A p \in PRegs \ FreeRegs : p \notin table_bsy
  BY <1>2 DEF FreeRegs, RobInv, Committed, Types
<1> QED
  BY <1>1, <1>2, <1>3, <1>4, <1>5 DEF ReadyInv, SlotsRight, TableRight, ValuesThere

(* The window is empty while rows are unwound, and right when that ends.   *)
LEMMA UnwindStep ==
    ASSUME IssueInv, unwinding, NEW dis, NEW mem, NEW faults, NEW finishes, NEW mispredict,
           Edge(dis, mem, faults, finishes, mispredict), Types', RobInv'
    PROVE  Held' = {} /\ (Working' => UopInv' /\ ReadyInv')
<1>0. Types /\ RobInv
  BY DEF IssueInv
<1>1. /\ Pipeline(dis, mem, finishes) /\ BranchUnit(mispredict) /\ dis = {}
      /\ flush_pipeline' = exception_thrown /\ unwinding' = (exception_thrown \/ (unwinding /\ rob # << >>))
  BY <1>0, EdgeGives
<1>2. Held' = {}
  BY <1>1, Emptied
<1>3. ASSUME Working' PROVE UopInv' /\ ReadyInv'
  <2>1. rob = << >>
    BY <1>1, <1>3 DEF Working, exception_thrown
  <2>2. PICK c, n : RowsAre(c, n, dis, mem)
    BY <1>0, EdgeGives
  <2>3. DOMAIN rob' = {}
    <3>1. DOMAIN rob = {}
      BY <1>0, <2>1, RowTypes
    <3>2. \A k \in 1 .. n : FALSE
      BY <2>2, <3>1 DEF RowsAre, Stays
    <3> QED
      BY <1>1, <2>2, <3>2 DEF RowsAre
  <2>4. rob' = << >>
    BY <2>3 DEF Types
  <2>5. ~brinfo'.valid
    <3>1. Executing({"bru"}) = {}
      <4>1. CASE flush_pipeline
        BY <4>1 DEF Executing
      <4>2. CASE ~flush_pipeline
        <5>1. Held = {}
          BY <4>2 DEF IssueInv, Working
        <5>2. exe_reg = {}
          BY <5>1, EmptyPlaces DEF NothingHeld
        <5> QED
          BY <5>2 DEF Executing
      <4> QED
        BY <4>1, <4>2
    <3> QED
      BY <1>1, <3>1 DEF BranchUnit, NoBr
  <2>6. EmptyWindow'
    BY EmptyIsRight, PTL
  <2> QED
    BY <1>2, <2>4, <2>5, <2>6 DEF EmptyWindow
<1> QED
  BY <1>2, <1>3

(* A clock edge keeps the invariant.                                       *)
LEMMA EdgeKeeps ==
    ASSUME IssueInv, NEW dis, NEW mem, NEW faults, NEW finishes, NEW mispredict,
           Edge(dis, mem, faults, finishes, mispredict)
    PROVE  IssueInv'
<1>0. Types /\ RobInv
  BY DEF IssueInv
<1>1. Types' /\ RobInv'
  BY TypesStep, RobStep
<1>2. CASE unwinding
  BY <1>1, <1>2, UnwindStep DEF IssueInv
<1>3. CASE ~unwinding
  <2>1. PICK c, n : RowsAre(c, n, dis, mem)
    BY <1>0, EdgeGives
  <2>2. /\ Pipeline(dis, mem, finishes) /\ Registers(dis, mem) /\ BranchUnit(mispredict)
        /\ flush_pipeline' = exception_thrown /\ unwinding' = (exception_thrown \/ (unwinding /\ rob # << >>))
    BY <1>0, EdgeGives
  <2>3. Owned' /\ Units'
    BY <1>3, <2>1, <2>2, OwnedStep, UnitsStep
  <2>4. Branches'
    BY <1>3, <2>1, <2>2, BranchesStep
  <2>5. SlotsRight' /\ TableRight' /\ ValuesThere'
    BY <1>3, <2>1, <2>2, SlotsRightStep, TableRightStep, ValuesStep
  <2>6. Working'
    BY <1>3, <2>2 DEF Working
  <2> QED
    BY <1>1, <2>3, <2>4, <2>5, <2>6 DEF IssueInv, UopInv, ReadyInv
<1> QED
  BY <1>0, <1>2, <1>3 DEF Types

(* The invariant is inductive.                                             *)
LEMMA IssueStep == IssueInv /\ [Next]_vars => IssueInv'
<1>1. ASSUME IssueInv, Next PROVE IssueInv'
  <2>1. PICK dis \in OneOf(Insts), mem \in OneOf(loads), faults \in OneOf(MayFault),
             finishes \in Either(muldiv # {}), mispredict \in Either(Executing({"bru"}) # {}) :
               Clock(dis, mem, faults, finishes, mispredict)
    BY <1>1 DEF Next
  <2>2. Edge(dis, mem, faults, finishes, mispredict)
    BY <2>1 DEF Edge, Either
  <2> QED
    BY <1>1, <2>2, EdgeKeeps
<1>2. ASSUME IssueInv, UNCHANGED vars PROVE IssueInv'
  <2> USE DEF vars
  <2>1. Held' = Held /\ FreeRegs' = FreeRegs /\ InSlots' = InSlots /\ InPipe' = InPipe
    BY <1>2 DEF Held, FreeRegs, InSlots, InPipe
  <2>2. \A p : Coming(p)' <=> Coming(p)
    BY <2>1 DEF Coming
  <2>3. \A p, row : Operand(p, row)' <=> Operand(p, row)
    BY <1>2 DEF Operand, MapAt
  <2>4. Types' /\ RobInv' /\ (Working' <=> Working)
    BY <1>2 DEF IssueInv, Types, RobInv, Distinct, Masks, Destinations, Committed, Working
  <2>5. Working => UopInv'
    BY <1>2, <2>1 DEF IssueInv, UopInv, Owned, PartOf, Units, Branches
  <2>6. Working => ReadyInv'
    <3>1. (SlotsRight' <=> SlotsRight)
      BY <1>2, <2>2, <2>3 DEF SlotsRight
    <3>2. (TableRight' <=> TableRight) /\ (ValuesThere' <=> ValuesThere)
      BY <1>2, <2>1, <2>2 DEF TableRight, ValuesThere
    <3> QED
      BY <1>2, <3>1, <3>2 DEF IssueInv, ReadyInv
  <2> QED
    BY <1>2, <2>1, <2>4, <2>5, <2>6 DEF IssueInv
<1> QED
  BY <1>1, <1>2

(* It holds at first.                                                      *)
LEMMA IssueInit == Init => IssueInv
<1> SUFFICES ASSUME Init PROVE IssueInv
  OBVIOUS
<1>1. LRegs \subseteq PRegs
  BY WindowAssumption DEF LRegs, PRegs
<1>2. rob = << >> /\ DOMAIN rob = {} /\ rob \in Seq(Row)
  BY DEF Init
<1>3. Types
  BY <1>1, <1>2, Indices DEF Init, Types, NoBr
<1>4. RobInv
  BY <1>2, Indices DEF Init, RobInv, Distinct, Masks, Destinations, Committed
<1>5. Held = {}
  BY EmptyPlaces DEF Init, NothingHeld
<1>6. ~brinfo.valid
  BY DEF Init, NoBr
<1>7. UopInv /\ ReadyInv
  BY <1>2, <1>3, <1>4, <1>5, <1>6, EmptyIsRight DEF EmptyWindow
<1> QED
  BY <1>3, <1>4, <1>5, <1>7 DEF IssueInv

-----------------------------------------------------------------------------
(* What the invariant gives.                                               *)

(* The invariant gives InOnePlace.                                         *)
LEMMA PlacesRight == IssueInv => InOnePlace
<1> SUFFICES ASSUME IssueInv PROVE InOnePlace
  OBVIOUS
<1>1. CASE unwinding /\ ~flush_pipeline
  BY <1>1 DEF InOnePlace, IssueInv, Working
<1>2. CASE ~(unwinding /\ ~flush_pipeline)
  <2>1. Owned
    BY <1>2 DEF IssueInv, Working, UopInv, Types
  <2>2. \A h \in Held : \E j \in DOMAIN rob :
            /\ rob[j].row = h[3].row /\ h[3].part \in rob[j].busy /\ rob[j].br_mask = h[3].br_mask
    BY <2>1 DEF Owned, PartOf
  <2>3. ASSUME NEW j \in DOMAIN rob, NEW part \in rob[j].busy
        PROVE  Cardinality({h \in Held : h[3].row = rob[j].row /\ h[3].part = part}) = 1
    <3>1. PICK g \in Held : g[3].row = rob[j].row /\ g[3].part = part
      BY <2>1 DEF Owned
    <3>2. \A h \in Held : h[3].row = rob[j].row /\ h[3].part = part => h = g
      BY <2>1, <3>1 DEF Owned
    <3>3. {h \in Held : h[3].row = rob[j].row /\ h[3].part = part} = {g}
      BY <3>1, <3>2
    <3>4. Cardinality({g}) = 1
      BY FS_Singleton
    <3> QED
      BY <3>3, <3>4
  <2> QED
    BY <1>2, <2>2, <2>3 DEF InOnePlace
<1> QED
  BY <1>1, <1>2

(* The invariant gives ReadyBitsExact.                                     *)
LEMMA BitsRight == IssueInv => ReadyBitsExact
<1> SUFFICES ASSUME IssueInv, unwinding => flush_pipeline
             PROVE  /\ \A s \in UNION {slots[i] : i \in Slots} :
                         /\ s.uop.part # "std" => s.p1 = ~Coming(s.uop.pop1)
                         /\ s.uop.part # "sta" => s.p2 = ~Coming(s.uop.pop2)
                    /\ \A p \in PRegs \ FreeRegs : p \in table_bsy <=> Coming(p)
  BY DEF ReadyBitsExact
<1>1. SlotsRight /\ TableRight
  BY DEF IssueInv, Working, ReadyInv
<1>2. ASSUME NEW s \in UNION {slots[i] : i \in Slots} PROVE \E i \in Slots : s \in slots[i]
  BY Zenon
<1> QED
  BY <1>1, <1>2 DEF SlotsRight, TableRight

(* An operand whose wakeup has been sent is in the bypass of the stage its *)
(* producer is in, or in the register file.                                *)
LEMMA ReadsFromProducer ==
    ASSUME IssueInv, Working, NEW i \in Slots, NEW s \in slots[i], ~IsKilledByBranch(s.uop),
           NEW p, Operand(p, s.uop.row), ~Coming(p)
    PROVE  ReadsRight(p)
<1>0. /\ Types /\ RobInv /\ Owned /\ Units /\ ValuesThere /\ Distinct /\ Masks /\ Committed
      /\ Len(rob) \in Nat /\ DOMAIN rob = 1 .. Len(rob)
  BY RowTypes DEF IssueInv, RobInv, UopInv, ReadyInv
<1>1. CASE p = 0 \/ p \in regfile
  BY <1>1 DEF ReadsRight
<1>2. ASSUME NEW j \in DOMAIN rob, NEW k \in DOMAIN rob, rob[j].row = s.uop.row, k < j,
             rob[k].pdst = p, p # 0, rob[k].busy # {}
      PROVE  ReadsRight(p)
  <2>1. PICK g : g = << "slot", i, s.uop >>
    OBVIOUS
  <2>2. g \in Held /\ g[3] = s.uop
    BY <2>1, Places DEF PlaceIs, IsAt
  <2>3. PICK x \in DOMAIN rob : PartOf(s.uop, x)
    BY <1>0, <2>2, OwnerIsThere
  <2>4. x = j
    BY <1>0, <1>2, <2>3 DEF PartOf, Distinct
  <2>5. ~IsKilledByBranch(rob[j])
    BY <2>3, <2>4 DEF PartOf, IsKilledByBranch
  <2>6. ~IsKilledByBranch(rob[k])
    BY <1>0, <1>2, <2>5, KillsLast
  <2>7. PICK part \in rob[k].busy : TRUE
    BY <1>2
  <2>8. PICK h \in Held : h[3].row = rob[k].row /\ h[3].part = part
    BY <1>0 DEF Owned
  <2>9. PICK y \in DOMAIN rob : PartOf(h[3], y)
    BY <1>0, OwnerIsThere
  <2>10. y = k
    BY <1>0, <2>8, <2>9 DEF PartOf, Distinct
  <2>11. h[3].pdst = p /\ ~IsKilledByBranch(h[3])
    BY <1>2, <2>6, <2>9, <2>10 DEF PartOf, IsKilledByBranch
  <2>12. h[1] # "slot" /\ h[3].part = "alu"
    BY <1>2, <2>11, ComingIs DEF ComingMeans
  <2>13. IsAt(h[1], h[2], h[3]) /\ h[1] \in {"exe", "alu", "muldiv", "load"}
    BY <2>12, HeldForm DEF FormOfHeld
  <2>14. h[3] \in exe_reg \/ h[3] \in alu_reg
    BY <1>0, <2>12, <2>13, Places DEF PlaceIs, Units
  <2>15. CASE h[3] \in exe_reg
    BY <2>11, <2>12, <2>15 DEF ReadsRight, ExeBypass
  <2>16. CASE h[3] \in alu_reg
    BY <2>11, <2>16 DEF ReadsRight, WbBypass, AluResp
  <2> QED
    BY <2>14, <2>15, <2>16
<1>3. ASSUME NEW j \in DOMAIN rob, NEW l \in LRegs, rob[j].row = s.uop.row, MapAt(j, l, p) PROVE ReadsRight(p)
  <2>1. CASE p = committed[l]
    BY <1>0, <1>1, <2>1 DEF Committed
  <2>2. ASSUME NEW k \in DOMAIN rob, k < j, rob[k].pdst = p PROVE ReadsRight(p)
    <3>1. CASE rob[k].busy = {}
      BY <1>0, <1>1, <2>2, <3>1 DEF ValuesThere
    <3>2. CASE rob[k].busy # {} /\ p # 0
      BY <1>2, <1>3, <2>2, <3>2
    <3> QED
      BY <1>1, <3>1, <3>2
  <2> QED
    BY <1>3, <2>1, <2>2 DEF MapAt
<1> QED
  BY <1>1, <1>3 DEF Operand

(* The invariant gives OperandsRight.                                      *)
LEMMA ReadsAreRight == IssueInv => OperandsRight
<1> SUFFICES ASSUME IssueInv, NEW u \in IssUops, ~IsKilledByBranch(u)
             PROVE  (u.part # "std" => ReadsRight(u.pop1)) /\ (u.part # "sta" => ReadsRight(u.pop2))
  BY DEF OperandsRight
<1>1. PICK i \in Issued : \E s \in slots[i] : u = s.uop
  BY IssUopsIs
<1>2. PICK s \in slots[i] : u = s.uop
  BY <1>1
<1>3. i \in Slots /\ \E t \in slots[i] : request(t)
  BY IssuedIs
<1>4. Working
  <2>1. << "slot", i, u >> \in Held
    BY <1>2, <1>3, Places DEF PlaceIs, IsAt
  <2> QED
    BY <2>1 DEF IssueInv
<1>5. SlotsRight /\ Units
  BY <1>4 DEF IssueInv, ReadyInv, UopInv
<1>6. s.p1 /\ s.p2
  BY <1>3, <1>5 DEF Units, request
<1>7. u.part # "std" => Operand(u.pop1, u.row) /\ ~Coming(u.pop1)
  BY <1>2, <1>3, <1>5, <1>6 DEF SlotsRight
<1>8. u.part # "sta" => Operand(u.pop2, u.row) /\ ~Coming(u.pop2)
  BY <1>2, <1>3, <1>5, <1>6 DEF SlotsRight
<1>9. ASSUME NEW p, Operand(p, u.row), ~Coming(p) PROVE ReadsRight(p)
  BY <1>2, <1>3, <1>4, <1>9, ReadsFromProducer
<1> QED
  BY <1>7, <1>8, <1>9

(* A set without two elements.                                             *)
LEMMA AtMostOne == ASSUME NEW S, \A x, y \in S : x = y PROVE Cardinality(S) <= 1
<1>1. CASE S = {}
  BY <1>1, FS_EmptySet
<1>2. ASSUME NEW x \in S PROVE Cardinality(S) <= 1
  <2>1. S = {x}
    OBVIOUS
  <2>2. Cardinality({x}) = 1
    BY FS_Singleton
  <2> QED
    BY <2>1, <2>2
<1> QED
  BY <1>1, <1>2

(* The rows are distinct entries of the reorder buffer, so they fit.       *)
LEMMA RowsFit == ASSUME IssueInv PROVE Len(rob) <= NumRows
<1>1. Types /\ Distinct
  BY DEF IssueInv, RobInv
<1>2. Len(rob) \in Nat /\ DOMAIN rob = 1 .. Len(rob) /\ \A j \in DOMAIN rob : rob[j].row \in Rows
  BY <1>1, RowTypes
<1> DEFINE f == [j \in 1 .. Len(rob) |-> rob[j].row]
<1>3. f \in Injection(1 .. Len(rob), Rows)
  BY <1>1, <1>2 DEF Injection, IsInjective, Distinct
<1>4. IsFiniteSet(Rows) /\ Cardinality(Rows) = NumRows
  BY WindowAssumption, FS_Interval DEF Rows
<1>5. Cardinality(1 .. Len(rob)) <= Cardinality(Rows)
  BY <1>3, <1>4, FS_Injection
<1>6. Cardinality(1 .. Len(rob)) = Len(rob)
  BY <1>2, FS_Interval
<1> QED
  BY <1>4, <1>5, <1>6

(* The invariant gives TypeOK.                                             *)
LEMMA TypesRight == IssueInv => TypeOK
<1> SUFFICES ASSUME IssueInv PROVE TypeOK
  OBVIOUS
<1>1. Types
  BY DEF IssueInv
<1>2. /\ \A i \in Slots : \A s, t \in slots[i] : s = t
      /\ (\A u, v \in exe_reg : u = v) /\ (\A u, v \in alu_reg : u = v) /\ (\A m, k \in muldiv : m = k)
  <2>1. CASE Working
    BY <2>1 DEF IssueInv, UopInv, Units
  <2>2. CASE ~Working
    BY <2>2, EmptyPlaces DEF IssueInv, NothingHeld
  <2> QED
    BY <2>1, <2>2
<1>3. /\ \A i \in Slots : Cardinality(slots[i]) <= 1
      /\ Cardinality(exe_reg) <= 1 /\ Cardinality(alu_reg) <= 1 /\ Cardinality(muldiv) <= 1
  BY <1>2, AtMostOne
<1>4. \A reg \in {exe_reg, alu_reg, muldiv} \cup {slots[i] : i \in Slots} : Cardinality(reg) <= 1
  BY <1>3
<1> QED
  BY <1>1, <1>4, RowsFit DEF Types, TypeOK

(* Every register of the window keeps its type, holds at most one uop, and *)
(* the rows never exceed the reorder buffer (issue.scala, rob.scala).      *)
THEOREM WindowTypeCorrect == Spec => []TypeOK
BY IssueInit, IssueStep, TypesRight, PTL DEF Spec

(* Kills, flushes and hand-overs neither lose nor double a uop, nor leave  *)
(* one of a squashed row behind, whatever the number of slots, rows,       *)
(* branch tags and registers (issue.scala, functional_unit.scala).         *)
THEOREM PlacesCorrect == Spec => []InOnePlace
BY IssueInit, IssueStep, PlacesRight, PTL DEF Spec

(* No wakeup is missed and none is early: ready bits and busy bits are     *)
(* exact for every interleaving of wakeup, dispatch and kill (issue.scala, *)
(* Wakeup Compare Logic; rename.scala, BusyTable).                         *)
THEOREM ReadyBitsCorrect == Spec => []ReadyBitsExact
BY IssueInit, IssueStep, BitsRight, PTL DEF Spec

(* What issues reads its operands from the bypass or the register file     *)
(* that holds its producer's value (registerread.scala, BYPASS MUXES).     *)
THEOREM OperandsCorrect == Spec => []OperandsRight
BY IssueInit, IssueStep, ReadsAreRight, PTL DEF Spec
=============================================================================
