----------------------------- MODULE IssueWindow -----------------------------
(***************************************************************************)
(* The out-of-order middle of the BOOM core: the busy table of             *)
(* rename.scala, the issue window (issue.scala), register read with its    *)
(* bypasses (registerread.scala, regfile.scala), and the one execution     *)
(* unit of the chip, ALUMulDMemExeUnit (execute.scala,                     *)
(* functional_unit.scala).  One step is one clock edge.                    *)
(*                                                                         *)
(* The reorder buffer and the rename tables around it are the in-order     *)
(* window that RenameRob shows them to be: registers have one owner, a     *)
(* mispredict removes the younger rows and restores the map as of the      *)
(* branch, an exception is unwound from the tail.  The load/store unit and *)
(* the cache are the set of loads they have accepted; they answer each     *)
(* once, at any time, and drop the killed ones (MemPipeline).              *)
(*                                                                         *)
(* Data is abstracted to the one question the window has to answer: is     *)
(* what is read the value of the instruction that owns the register.       *)
(***************************************************************************)
EXTENDS Integers, Sequences, FiniteSets, FiniteSetsExt

CONSTANTS
    NumRows,        \* instructions in flight the reorder buffer accepts
    NumLRegs,       \* logical registers; x0 is 0
    NumPRegs,       \* PHYS_REG_COUNT; P0 is 0
    NumSlots,       \* INTEGER_ISSUE_SLOT_COUNT
    MaxBr,          \* MAX_BR_COUNT
    HighPriority,   \* parts whose slots set high_priority (none in the code as it is)
    Insts           \* the instructions decode may present

Rows  == 1 .. NumRows
LRegs == 0 .. NumLRegs - 1
PRegs == 0 .. NumPRegs - 1
Slots == 1 .. NumSlots
Tags  == 1 .. MaxBr

\* Micro-op kinds: the arithmetic that is bypassable, branches and jumps, the
\* multiplier and divider, a load, and the two halves of a store.
Parts == {"alu", "bru", "muld", "ld", "sta", "std"}

PartsOf(kind) ==
    CASE kind = "alu" -> {"alu"}
      [] kind \in {"branch", "jalr"} -> {"bru"}
      [] kind = "muld" -> {"muld"}
      [] kind = "load" -> {"ld"}
      [] kind = "store" -> {"sta", "std"}

Inst == [kind : {"alu", "branch", "jalr", "muld", "load", "store"},
         ldst : LRegs, lrs1 : LRegs, lrs2 : LRegs]
IsFix(d)    == d.kind \in {"alu", "jalr", "muld", "load"}
IsBranch(d) == d.kind \in {"branch", "jalr"}

ASSUME WindowAssumption ==
    /\ NumRows \in Nat \ {0} /\ NumSlots \in Nat /\ NumSlots >= 2
    /\ NumLRegs \in Nat \ {0} /\ NumPRegs \in Nat /\ NumPRegs > NumLRegs
    /\ MaxBr \in Nat \ {0}
    /\ HighPriority \subseteq Parts
    /\ Insts \subseteq Inst

MicroOp == [row : Rows, part : Parts, pdst : PRegs, pop1 : PRegs, pop2 : PRegs,
            br_tag : 0 .. MaxBr, br_mask : SUBSET Tags]
Row     == [row : Rows, ldst : LRegs, pdst : PRegs, busy : SUBSET Parts, is_load : BOOLEAN,
            exception : BOOLEAN, br_tag : 0 .. MaxBr, br_mask : SUBSET Tags]

\* A register that is empty or holds one thing is a set of at most one element.
VARIABLES
    rob,            \* the rows in flight, oldest first
    committed,      \* logical register -> physical register, as committed
    unwinding,      \* rob_state = s_rollback
    flush_pipeline,
    brinfo,         \* the branch unit's registered answer
    table_bsy,      \* the busy table: registers whose value is still to come
    slots,          \* the issue window: a uop and its two ready bits, or empty
    exe_reg,        \* the uop in execute
    alu_reg,        \* the uop in the ALU's write-back stage
    muldiv,         \* the uop in the multiplier, and whether it is done
    loads,          \* loads the memory system has accepted
    regfile         \* registers that hold their owner's value

vars == << rob, committed, unwinding, flush_pipeline, brinfo, table_bsy, slots,
           exe_reg, alu_reg, muldiv, loads, regfile >>

NoBr == [valid |-> FALSE, mispredict |-> FALSE, tag |-> 0]

TypeOK ==
    /\ rob \in Seq(Row) /\ Len(rob) <= NumRows
    /\ committed \in [LRegs -> PRegs]
    /\ unwinding \in BOOLEAN /\ flush_pipeline \in BOOLEAN
    /\ brinfo \in [valid : BOOLEAN, mispredict : BOOLEAN, tag : 0 .. MaxBr]
    /\ table_bsy \subseteq PRegs \ {0}
    /\ \A i \in Slots : slots[i] \subseteq [uop : MicroOp, p1 : BOOLEAN, p2 : BOOLEAN]
    /\ exe_reg \subseteq MicroOp /\ alu_reg \subseteq MicroOp
    /\ muldiv \subseteq [uop : MicroOp, done : BOOLEAN]
    /\ \A reg \in {exe_reg, alu_reg, muldiv} \cup {slots[i] : i \in Slots} : Cardinality(reg) <= 1
    /\ loads \subseteq MicroOp
    /\ regfile \subseteq PRegs

Init ==
    /\ rob = << >>
    /\ committed = [l \in LRegs |-> l]
    /\ unwinding = FALSE /\ flush_pipeline = FALSE /\ brinfo = NoBr
    /\ table_bsy = {}
    /\ slots = [i \in Slots |-> {}]
    /\ exe_reg = {} /\ alu_reg = {} /\ muldiv = {} /\ loads = {}
    /\ regfile = LRegs

-----------------------------------------------------------------------------
(* Branch kills.                                                           *)

IsKilledByBranch(u) == brinfo.valid /\ brinfo.mispredict /\ brinfo.tag \in u.br_mask
GetNewBrMask(mask)  == IF brinfo.valid THEN mask \ {brinfo.tag} ELSE mask
Kept(u)             == [u EXCEPT !.br_mask = GetNewBrMask(@)]

-----------------------------------------------------------------------------
(* Issue select: one port.  The multiplier accepts nothing while it works  *)
(* or while another of its uops is in execute.                             *)

\* Mutant: a uop on its way to the multiplier is not counted.
muldiv_busy_unit_only == muldiv # {}

muldiv_busy == muldiv # {} \/ \E u \in exe_reg : u.part = "muld"

request(s) ==
    /\ s.p1 /\ s.p2 /\ ~flush_pipeline
    /\ s.uop.part = "muld" => ~muldiv_busy
Requests == {i \in Slots : \E s \in slots[i] : request(s)}
Urgent   == {i \in Requests : \E s \in slots[i] : s.uop.part \in HighPriority}

\* The slot that issues, none if there is no such slot: the lowest of the
\* urgent ones, or else the lowest.  Position says nothing about age.
Issued  == IF Urgent # {} THEN {Min(Urgent)} ELSE IF Requests # {} THEN {Min(Requests)} ELSE {}
IssUops == {s.uop : s \in UNION {slots[i] : i \in Issued}}

-----------------------------------------------------------------------------
(* Responses.  mem holds the load that is answered in this cycle, if any;  *)
(* it has the write port that it shares with the multiplier.               *)

AluResp      == {u \in alu_reg : ~IsKilledByBranch(u)}
MulResp(mem) == IF mem = {} THEN {m.uop : m \in {n \in muldiv : n.done}} ELSE {}
Resp(mem)    == AluResp \cup MulResp(mem) \cup mem
Written(mem) == {u.pdst : u \in Resp(mem)} \ {0}

bypassable(u) == u.part = "alu"
FastWakeups   == {u.pdst : u \in {v \in IssUops : bypassable(v)}}
Wakeups(mem)  == (FastWakeups \cup Written(mem)) \ {0}

-----------------------------------------------------------------------------
(* Register read, in the cycle of issue: the two bypasses out of the ALU   *)
(* before the register file.                                               *)

ExeBypass == {u.pdst : u \in {v \in exe_reg : v.part \in {"alu", "bru"}}}
\* Mutant: only the execute stage is bypassed.
WbBypass_none == {}

WbBypass == {u.pdst : u \in AluResp}
ReadsRight(p) == p \in {0} \cup ExeBypass \cup WbBypass \cup regfile

ExeRegNext == exe_reg' = {Kept(u) : u \in {v \in IssUops : ~IsKilledByBranch(v)}}

-----------------------------------------------------------------------------
(* The execution unit.                                                     *)

Executing(parts) == {u \in exe_reg : u.part \in parts /\ ~IsKilledByBranch(u) /\ ~flush_pipeline}

AluNext == alu_reg' = {Kept(u) : u \in Executing({"alu", "bru"})}

\* Mutant: the result leaves also while memory has the write port.
MulDivNext_always_ready(mem, finishes) ==
    muldiv' = IF muldiv = {}
              THEN {[uop |-> Kept(u), done |-> FALSE] : u \in Executing({"muld"})}
              ELSE {[uop |-> Kept(m.uop), done |-> finishes] : m \in
                       {n \in muldiv : ~IsKilledByBranch(n.uop) /\ ~flush_pipeline /\ ~n.done}}

\* A uop that arrives while the unit is not ready would be lost.
MulDivNext(mem, finishes) ==
    muldiv' = IF muldiv = {}
              THEN {[uop |-> Kept(u), done |-> FALSE] : u \in Executing({"muld"})}
              ELSE {[uop |-> Kept(m.uop), done |-> m.done \/ finishes] : m \in
                       {n \in muldiv : ~IsKilledByBranch(n.uop) /\ ~flush_pipeline
                                       /\ n.uop \notin MulResp(mem)}}

LoadsNext(mem) ==
    loads' = IF flush_pipeline THEN {}
             ELSE {Kept(u) : u \in {v \in loads \ mem : ~IsKilledByBranch(v)} \cup Executing({"ld"})}

\* The answer of a branch in execute comes out of a register.
BranchUnit(mispredict) ==
    \/ /\ Executing({"bru"}) = {}
       /\ brinfo' = NoBr
    \/ \E u \in Executing({"bru"}) :
          brinfo' = [valid |-> TRUE, mispredict |-> mispredict, tag |-> u.br_tag]

-----------------------------------------------------------------------------
(* The in-order window around it.                                          *)

exception_thrown == rob # << >> /\ ~unwinding /\ Head(rob).exception
will_commit      == rob # << >> /\ ~unwinding /\ ~Head(rob).exception /\ Head(rob).busy = {}

\* Parts that are finished at this edge: what answers, and the store halves,
\* which the load/store unit takes in execute, in the cycle of a flush too.
Finished(mem) == Resp(mem) \cup {u \in exe_reg : u.part \in {"sta", "std"} /\ ~IsKilledByBranch(u)}

RowAfter(r, mem, faults) ==
    [r EXCEPT !.busy = @ \ {u.part : u \in {v \in Finished(mem) : v.row = r.row}},
              !.exception = @ \/ r.row \in faults,
              !.br_tag = IF brinfo.valid /\ @ = brinfo.tag THEN 0 ELSE @,
              !.br_mask = GetNewBrMask(@)]

\* The last row a mispredict leaves, where rob_tail goes back to: the branch's
\* own, for it is not killed and everything younger is.
LastLeft == Max({0} \cup {j \in DOMAIN rob : ~IsKilledByBranch(rob[j])})

\* The rows that stay: all but the committed head, the killed ones, and in
\* unwinding the youngest.
Staying ==
    SubSeq(rob, IF will_commit THEN 2 ELSE 1,
                IF unwinding THEN Min({LastLeft, Len(rob) - 1}) ELSE LastLeft)

Mapped(l) ==
    LET ws == {j \in DOMAIN rob : rob[j].ldst = l}
    IN  IF l = 0 THEN 0 ELSE IF ws = {} THEN committed[l] ELSE rob[Max(ws)].pdst
FreeRegs == PRegs \ ({0} \cup {committed[l] : l \in LRegs} \cup {rob[j].pdst : j \in DOMAIN rob})
FreeRows == Rows \ {rob[j].row : j \in DOMAIN rob}
BrTags   == {rob[j].br_tag : j \in DOMAIN rob} \ {0}
FreeSlots == {i \in Slots : slots[i] = {}}

-----------------------------------------------------------------------------
(* Dispatch of the instruction d.                                          *)

CanDispatch(d) ==
    /\ ~brinfo.mispredict /\ ~flush_pipeline /\ ~unwinding
    /\ FreeRows # {}
    /\ Cardinality(FreeSlots) >= 2
    /\ IsFix(d) => FreeRegs # {}
    /\ IsBranch(d) => BrTags # Tags

Pdst(d)   == IF IsFix(d) /\ d.ldst # 0 THEN Min(FreeRegs) ELSE 0
BrTag(d)  == IF IsBranch(d) THEN Min(Tags \ BrTags) ELSE 0
NewRow(d) ==
    [row |-> Min(FreeRows), ldst |-> IF IsFix(d) THEN d.ldst ELSE 0, pdst |-> Pdst(d),
     busy |-> PartsOf(d.kind), is_load |-> d.kind = "load", exception |-> FALSE,
     br_tag |-> BrTag(d), br_mask |-> GetNewBrMask(BrTags)]

\* Mutant: the read does not see what is woken in the same cycle.
prs_busy_registered(p, mem) == p \in table_bsy

\* A read of the busy table sees what is woken in the same cycle.
prs_busy(p, mem) == p \in table_bsy /\ p \notin Wakeups(mem)

NewSlot(d, part, mem) ==
    [uop |-> [row |-> Min(FreeRows), part |-> part, pdst |-> Pdst(d), pop1 |-> Mapped(d.lrs1),
              pop2 |-> Mapped(d.lrs2), br_tag |-> BrTag(d), br_mask |-> GetNewBrMask(BrTags)],
     p1 |-> part = "std" \/ ~prs_busy(Mapped(d.lrs1), mem),
     p2 |-> part = "sta" \/ ~prs_busy(Mapped(d.lrs2), mem)]

\* The first free slot takes the instruction, the second one a store's data.
Entry1 == Min(FreeSlots)
Entry2 == Min(FreeSlots \ {Entry1})
Allocated(i, dis, mem) ==
    UNION {{NewSlot(d, part, mem) : part \in
               {p \in PartsOf(d.kind) : i = IF p = "std" THEN Entry2 ELSE Entry1}} : d \in dis}

BusyTable(dis, mem) ==
    table_bsy' = (table_bsy \ Wakeups(mem)) \cup ({Pdst(d) : d \in dis} \ {0})

IntegerIssueSlot(i, dis, mem) ==
    Allocated(i, dis, mem) \cup
    {[uop |-> Kept(s.uop),
      p1 |-> s.p1 \/ s.uop.pop1 \in Wakeups(mem),
      p2 |-> s.p2 \/ s.uop.pop2 \in Wakeups(mem)] :
        s \in {t \in slots[i] : ~flush_pipeline /\ i \notin Issued /\ ~IsKilledByBranch(t.uop)}}

-----------------------------------------------------------------------------
\* One clock edge: dis is dispatched, mem answered, faults are the rows of
\* loads that are found to be misaligned or out of order.
Clock(dis, mem, faults, finishes, mispredict) ==
    /\ \A d \in dis : CanDispatch(d)
    /\ exception_thrown => mem = {}
    /\ slots' = [i \in Slots |-> IntegerIssueSlot(i, dis, mem)]
    /\ BusyTable(dis, mem)
    /\ ExeRegNext
    /\ AluNext
    /\ MulDivNext(mem, finishes)
    /\ LoadsNext(mem)
    /\ BranchUnit(mispredict)
    /\ regfile' = (regfile \cup Written(mem)) \ ({Pdst(d) : d \in dis} \ {0})
    /\ rob' = LET kept == Staying
              IN  [j \in DOMAIN kept |-> RowAfter(kept[j], mem, faults)]
                  \o [j \in 1 .. Cardinality(dis) |-> NewRow(CHOOSE d \in dis : TRUE)]
    /\ committed' = IF will_commit /\ Head(rob).pdst # 0
                    THEN [committed EXCEPT ![Head(rob).ldst] = Head(rob).pdst] ELSE committed
    /\ flush_pipeline' = exception_thrown
    /\ unwinding' = (exception_thrown \/ (unwinding /\ rob # << >>))

OneOf(S) == {{}} \cup {{x} : x \in S}
InSlots  == {s.uop : s \in UNION {slots[i] : i \in Slots}}
MayFault == {rob[j].row : j \in {k \in DOMAIN rob : rob[k].is_load}} \ {u.row : u \in InSlots}

Either(c) == IF c THEN BOOLEAN ELSE {FALSE}

Next ==
    \E dis \in OneOf(Insts), mem \in OneOf(loads), faults \in OneOf(MayFault),
       finishes \in Either(muldiv # {}), mispredict \in Either(Executing({"bru"}) # {}) :
        Clock(dis, mem, faults, finishes, mispredict)

Spec == Init /\ [][Next]_vars

\* Time passes, the multiplier finishes, and the memory system answers every
\* load it has accepted, unless the load is killed first.
FairSpec ==
    /\ Spec /\ WF_vars(Next)
    /\ []<>(\A m \in muldiv : m.done)
    /\ \A r \in Rows : []<>(\A u \in loads : u.row # r)

-----------------------------------------------------------------------------
InPipe == exe_reg \cup alu_reg \cup {m.uop : m \in muldiv} \cup loads

(* A uop reads the value of the instruction that owns the register, out of *)
(* the bypass of the stage its producer is in or out of the register file: *)
(* no wakeup comes before the value can be had (registerread.scala, BYPASS *)
(* MUXES; dpath.scala, fast and slow wakeups).                             *)
OperandsRight ==
    \A u \in IssUops : ~IsKilledByBranch(u) =>
        /\ u.part # "std" => ReadsRight(u.pop1)
        /\ u.part # "sta" => ReadsRight(u.pop2)

(* The wakeup of a register is still to be sent by the uop that writes it. *)
Coming(p) ==
    \/ \E u \in InSlots : u.pdst = p /\ p # 0
    \/ \E u \in InPipe : u.pdst = p /\ p # 0 /\ ~bypassable(u)

(* No wakeup is missed and none is early: whenever it was dispatched, an   *)
(* operand's ready bit is off, and the busy bit of a register that can be  *)
(* named is on, exactly while the producer has its wakeup still to send    *)
(* (issue.scala, Wakeup Compare Logic; rename.scala, BusyTable).           *)
ReadyBitsExact ==
    (unwinding => flush_pipeline) =>
    /\ \A s \in UNION {slots[i] : i \in Slots} :
         /\ s.uop.part # "std" => s.p1 = ~Coming(s.uop.pop1)
         /\ s.uop.part # "sta" => s.p2 = ~Coming(s.uop.pop2)
    /\ \A p \in PRegs \ FreeRegs : p \in table_bsy <=> Coming(p)

\* Every uop there is, with its place.
Held == {h \in {"slot"} \X Slots \X InSlots : \E s \in slots[h[2]] : s.uop = h[3]}
        \cup {<< "exe", 0, u >> : u \in exe_reg}
        \cup {<< "alu", 0, u >> : u \in alu_reg}
        \cup {<< "muldiv", 0, m.uop >> : m \in muldiv}
        \cup {<< "load", 0, u >> : u \in loads}

(* Every unfinished part of a row is in one place of the pipeline, under   *)
(* the branch mask its row has, and nothing else is: kills, flushes and    *)
(* hand-overs neither lose nor double a uop nor leave one of a squashed    *)
(* row behind (issue.scala, functional_unit.scala).                        *)
InOnePlace ==
    IF unwinding /\ ~flush_pipeline THEN Held = {}
    ELSE /\ \A h \in Held : \E j \in DOMAIN rob :
                /\ rob[j].row = h[3].row /\ h[3].part \in rob[j].busy
                /\ rob[j].br_mask = h[3].br_mask
         /\ \A j \in DOMAIN rob : \A part \in rob[j].busy :
                Cardinality({h \in Held : h[3].row = rob[j].row /\ h[3].part = part}) = 1

(* Every row leaves the reorder buffer: a uop is not starved by the slots  *)
(* that are before its own, for they hold a bounded number of uops while   *)
(* it blocks the head.                                                     *)
RowsLeave == \A r \in Rows : r \notin FreeRows ~> r \in FreeRows
=============================================================================
