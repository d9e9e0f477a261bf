----------------------------- MODULE FetchUnit ------------------------------
(***************************************************************************)
(* Instruction fetch: BOOM's Frontend (boom icache.scala), the instruction *)
(* cache it takes from Rocket (rocket icache.scala) and the fetch buffer   *)
(* with its redirects (dpath.scala), at fetch width 1.  One step is one    *)
(* clock edge.                                                             *)
(*                                                                         *)
(* Inputs are what the core, the predictors and the memory do: redirects   *)
(* by the branch unit or by commit, any prediction at all, decode taking   *)
(* instructions, and the agent accepting requests and answering them.      *)
(* Virtual memory is off: the tile does not connect the walker's memory    *)
(* port, so the TLB hands the page number through.                         *)
(***************************************************************************)
EXTENDS Integers, Sequences, FiniteSets

CONSTANTS
    RowWords,       \* instructions in a row of the data array
    LineRows,       \* rows in a line: c.refillcycles
    NumPages,       \* a page has as many lines as there are sets
    NumSets,
    Ways,
    Targets,        \* where predictions and redirects may go
    FETCH_BUFFER_SZ

ASSUME FetchAssumption ==
    /\ {RowWords, NumPages, NumSets, FETCH_BUFFER_SZ} \subseteq Nat \ {0}
    /\ LineRows \in Nat /\ LineRows > 1
    /\ Ways # {}

PageWords == NumSets * LineRows * RowWords
Pcs  == 0 .. NumPages * PageWords - 1
None == -1
ASSUME TargetAssumption == Targets \subseteq Pcs

Page(a)   == a \div PageWords
Offset(a) == a % PageWords
Row(a)    == a \div RowWords
Idx(a)    == Offset(a) \div (RowWords * LineRows)
Beat(a)   == (a \div RowWords) % LineRows
Next4(pc) == (pc + 1) % (NumPages * PageWords)

\* A row in the data array: the row of memory it was read from, and whether it
\* was read after the last fence.i (history).
Data == [row : {Row(a) : a \in Pcs} \cup {None}, fresh : BOOLEAN]

VARIABLES
    s1_pc, s1_same_block, s2_valid, s2_pc,
    s2_pred,        \* the BTB's target for s2_pc, None without a hit
    ic_state, invalidated, refill_cnt, repl_way,
    acquired,       \* history: is what the grant brings fresh
    ack_q,          \* the grant's acknowledgement is still to go out
    i1_valid, i1_pgoff,
    tag_raddr, i1_raddr,    \* the read ports' address registers
    i2_valid, i2_addr, i2_hit, i2_dout,
    vb_array, tag_array, data_array,
    FetchBuffer,    \* for each bundle: does it still follow the last redirect (history)
    fetchbuffer_kill,   \* registered: a redirect in the cycle before
    expected        \* history: the pc that decode has to be given next

frontVars  == << s1_pc, s1_same_block, s2_valid, s2_pc, s2_pred >>
icacheVars == << ic_state, invalidated, refill_cnt, repl_way, acquired, ack_q, i1_valid, i1_pgoff,
                 tag_raddr, i1_raddr, i2_valid, i2_addr, i2_hit, i2_dout, vb_array, tag_array, data_array >>
vars == << frontVars, icacheVars, FetchBuffer, fetchbuffer_kill, expected >>

Sets  == 0 .. NumSets - 1
Lines == Sets \X Ways
Beats == 0 .. LineRows - 1

TypeOK ==
    /\ {s1_pc, s2_pc, i1_pgoff, i2_addr, expected} \subseteq Pcs
    /\ s2_pred \in Targets \cup {None}
    /\ {s1_same_block, s2_valid, invalidated, acquired, ack_q, i1_valid, i2_valid, i2_hit,
        fetchbuffer_kill} \subseteq BOOLEAN
    /\ ic_state \in {"ready", "request", "refill_wait", "refill"}
    /\ refill_cnt \in Beats /\ repl_way \in Ways
    /\ tag_raddr \in Sets /\ i1_raddr \in [Ways -> Sets \X Beats]
    /\ i2_dout \in Data
    /\ vb_array \subseteq Lines
    /\ tag_array \in [Lines -> 0 .. NumPages - 1]
    /\ data_array \in [Lines \X Beats -> Data]
    /\ FetchBuffer \in Seq(BOOLEAN) /\ Len(FetchBuffer) <= FETCH_BUFFER_SZ

NoData == [row |-> None, fresh |-> FALSE]

Init ==
    /\ s1_pc \in Pcs /\ s1_same_block \in BOOLEAN
    /\ s2_valid = TRUE /\ s2_pc \in Targets /\ s2_pred = None
    /\ ic_state = "ready" /\ invalidated = FALSE /\ refill_cnt = 0 /\ repl_way \in Ways
    /\ acquired = FALSE /\ ack_q = FALSE
    /\ i1_valid = FALSE /\ i1_pgoff = 0
    /\ tag_raddr = 0 /\ i1_raddr = [w \in Ways |-> << 0, 0 >>]
    /\ i2_valid = FALSE /\ i2_addr = 0 /\ i2_hit = FALSE /\ i2_dout = NoData
    /\ vb_array = {} /\ tag_array = [l \in Lines |-> 0]
    /\ data_array = [d \in Lines \X Beats |-> NoData]
    /\ FetchBuffer = << >> /\ fetchbuffer_kill = FALSE
    /\ expected = s2_pc

-----------------------------------------------------------------------------
(* What is on the wires in this cycle.                                     *)

i2_resp  == i2_valid /\ i2_hit
i2_miss  == i2_valid /\ ~i2_hit
rdy      == ic_state = "ready" /\ ~i2_miss
icmiss   == s2_valid /\ ~i2_resp
resp_valid == s2_valid /\ i2_resp
enq_ready  == Len(FetchBuffer) < FETCH_BUFFER_SZ
stall      == resp_valid /\ ~enq_ready

take_pc(in) == in.take # "none" \/ in.bp2 # None
if_pc_next(in) == IF in.take # "none" THEN in.pc ELSE in.bp2
invalidate(in) == in.take = "fencei"
kill(in)       == fetchbuffer_kill \/ in.take = "exception"

predicted_npc(in) == IF in.btb # None THEN in.btb ELSE Next4(s1_pc)
npc(in) == IF icmiss THEN s2_pc ELSE predicted_npc(in)
\* Mutant: the shortcut compares lines, where the cache holds one row for the next fetch.
SameLine(in) ==
    ~icmiss /\ ~take_pc(in) /\ Row(predicted_npc(in)) \div LineRows = Row(s1_pc) \div LineRows

s0_same_block(in) == ~icmiss /\ ~take_pc(in) /\ Row(predicted_npc(in)) = Row(s1_pc)

\* The inputs of the cycle.  take is a redirect by the branch unit or by commit
\* to pc; bp2 is one by branch decode, for the bundle that leaves fetch.  Inputs
\* that have no effect in this cycle are not varied.
Choice(relevant) == IF relevant THEN BOOLEAN ELSE {FALSE}
Target(relevant) == IF relevant THEN Targets \cup {None} ELSE {None}

Inputs ==
    {in \in [take : {"none", "redirect", "exception", "fencei"},
             pc   : Targets \cup {None},
             bp2  : Target(resp_valid /\ enq_ready /\ s2_pred = None),
             btb  : Target(~stall /\ ~icmiss),
             deq  : Choice(FetchBuffer # << >> \/ resp_valid),         \* dec_rdy
             mem  : Choice(ic_state \in {"request", "refill_wait"}),   \* the agent accepts or answers
             ack  : Choice(ack_q),                                     \* it takes the acknowledgement
             way  : IF i2_miss THEN Ways ELSE {repl_way}] :
        /\ (in.pc = None) = (in.take = "none")
        /\ in.bp2 # None => in.take = "none"
        /\ in.btb # None => ~take_pc(in)}

-----------------------------------------------------------------------------
\* Mutant: a redirect does not drop what is on its way out of the cache.
NoDropOnRedirect(in) == IF stall THEN s2_valid ELSE ~icmiss

s2_valid_next(in) == IF take_pc(in) THEN FALSE ELSE IF stall THEN s2_valid ELSE ~icmiss

Frontend(in) ==
    /\ s1_pc' = IF take_pc(in) THEN if_pc_next(in) ELSE IF stall THEN s1_pc ELSE npc(in)
    /\ s1_same_block' = IF take_pc(in) THEN FALSE ELSE IF stall THEN s1_same_block ELSE s0_same_block(in)
    /\ s2_valid' = s2_valid_next(in)
    /\ s2_pc'   = IF stall \/ icmiss THEN s2_pc ELSE s1_pc
    /\ s2_pred' = IF stall \/ icmiss THEN s2_pred ELSE in.btb

-----------------------------------------------------------------------------
(* The instruction cache's pipeline.                                       *)

req_valid(in) == ~stall /\ ~s0_same_block(in)
req_idx(in)   == IF take_pc(in) THEN if_pc_next(in) ELSE npc(in)
req_kill(in)  == take_pc(in) \/ icmiss
i_stall       == stall \/ s1_same_block

refill_valid(in) == (ic_state = "refill_wait" /\ in.mem) \/ ic_state = "refill"
refill_done      == ic_state = "refill" /\ refill_cnt = LineRows - 1

i1_addr == Page(s1_pc) * PageWords + Offset(i1_pgoff)
HitWays == {w \in Ways : << Idx(i1_pgoff), w >> \in vb_array
                         /\ tag_array[<< tag_raddr, w >>] = Page(i1_addr)}

i0_valid(in) == req_valid(in) \/ (i1_valid /\ i_stall)
i0_pgoff(in) == IF i1_valid /\ i_stall THEN i1_pgoff ELSE req_idx(in)

\* Mux1H over the ways: of no use unless exactly one of them hits.
ReadOut == IF Cardinality(HitWays) = 1
           THEN LET w == CHOOSE w \in HitWays : TRUE
                IN  data_array[<< << i1_raddr[w][1], w >>, i1_raddr[w][2] >>]
           ELSE NoData

ICachePipeline(in) ==
    /\ i1_valid' = ((req_valid(in) /\ rdy) \/ (i1_valid /\ i_stall /\ ~req_kill(in)))
    /\ i1_pgoff' = IF req_valid(in) /\ rdy THEN req_idx(in) ELSE i1_pgoff
    /\ tag_raddr' = IF ~refill_done /\ i0_valid(in) THEN Idx(i0_pgoff(in)) ELSE tag_raddr
    /\ i1_raddr' = [w \in Ways |-> IF i0_valid(in) /\ ~(refill_valid(in) /\ repl_way = w)
                                   THEN << Idx(i0_pgoff(in)), Beat(i0_pgoff(in)) >>
                                   ELSE i1_raddr[w]]
    /\ i2_valid' = ((i1_valid /\ rdy /\ ~req_kill(in)) \/ (i2_resp /\ i_stall))
    /\ IF i1_valid /\ rdy /\ ~i_stall
       THEN /\ i2_addr' = i1_addr
            /\ i2_hit' = (HitWays # {})
            /\ i2_dout' = [ReadOut EXCEPT !.fresh = @ /\ ~invalidate(in)]
       ELSE /\ UNCHANGED << i2_addr, i2_hit >>
            /\ i2_dout' = [i2_dout EXCEPT !.fresh = @ /\ ~invalidate(in)]

-----------------------------------------------------------------------------
(* Refill and invalidation.                                                *)

Victim == << Idx(i2_addr), repl_way >>

\* Mutant: a line is made valid although fence.i came during its refill.
FenceForgotten(in) ==
    IF invalidate(in) THEN {} ELSE IF refill_done THEN vb_array \cup {Victim} ELSE vb_array

vb_array_next(in) ==
    IF invalidate(in) THEN {}
    ELSE IF refill_done /\ ~invalidated THEN vb_array \cup {Victim} ELSE vb_array

ICacheArrays(in) ==
    /\ tag_array' = IF refill_done THEN [tag_array EXCEPT ![Victim] = Page(i2_addr)] ELSE tag_array
    /\ vb_array' = vb_array_next(in)
    /\ data_array' =
         LET written == IF refill_valid(in)
                        THEN [data_array EXCEPT ![<< Victim, refill_cnt >>] =
                                [row |-> Row(i2_addr) - Beat(i2_addr) + refill_cnt, fresh |-> acquired]]
                        ELSE data_array
         IN  [d \in DOMAIN written |-> [written[d] EXCEPT !.fresh = @ /\ ~invalidate(in)]]

\* Mutant: once set, invalidated is never cleared.
InvalidatedSticks(in) == invalidated \/ invalidate(in)

invalidated_next(in) == ic_state # "ready" /\ (invalidated \/ invalidate(in))

refill_cnt_next(in) == IF refill_valid(in) THEN (refill_cnt + 1) % LineRows ELSE refill_cnt

ICacheControl(in) ==
    /\ ic_state' = CASE ic_state = "ready" /\ i2_miss -> "request"
                     [] ic_state = "request" /\ in.mem /\ ~ack_q -> "refill_wait"
                     [] ic_state = "refill_wait" /\ in.mem -> "refill"
                     [] refill_done -> "ready"
                     [] OTHER -> ic_state
    /\ invalidated' = invalidated_next(in)
    /\ refill_cnt' = refill_cnt_next(in)
    /\ repl_way' = in.way
    /\ acquired' = ((acquired \/ (ic_state = "request" /\ in.mem /\ ~ack_q)) /\ ~invalidate(in)
                    /\ ic_state # "ready")
    /\ ack_q' = (refill_done \/ (ack_q /\ ~in.ack))

-----------------------------------------------------------------------------
(* The fetch buffer: a queue that a bundle passes at once when it is empty *)
(* and decode is ready, and that a kill empties.                           *)

enq_fire(in) == resp_valid /\ enq_ready /\ ~kill(in)

FetchBufferNext(in) ==
    /\ fetchbuffer_kill' = (in.take # "none")
    /\ FetchBuffer' =
         LET entered == IF enq_fire(in) THEN Append(FetchBuffer, TRUE) ELSE FetchBuffer
             left    == IF in.deq /\ entered # << >> THEN Tail(entered) ELSE entered
         IN  IF kill(in) THEN << >>
             ELSE IF in.take # "none" THEN [j \in DOMAIN left |-> FALSE] ELSE left
    /\ expected' = IF in.take # "none" THEN in.pc
                   ELSE IF ~enq_fire(in) THEN expected
                   ELSE IF in.bp2 # None THEN in.bp2
                   ELSE IF s2_pred # None THEN s2_pred ELSE Next4(s2_pc)

Clock(in) ==
    /\ Frontend(in)
    /\ ICachePipeline(in)
    /\ ICacheArrays(in)
    /\ ICacheControl(in)
    /\ FetchBufferNext(in)

Next == \E in \in Inputs : Clock(in)

Spec == Init /\ [][Next]_vars

\* Time passes, the agent accepts and answers, and decode takes instructions.
FairSpec ==
    /\ Spec /\ WF_vars(Next)
    /\ []<>(ic_state # "request" \/ ack_q) /\ []<>(ic_state # "refill_wait") /\ []<>~ack_q
    /\ []<>enq_ready

-----------------------------------------------------------------------------
(* What leaves fetch is the instruction decode has to get next: neither a  *)
(* miss nor a stall nor the shortcut for the same row skips or repeats     *)
(* one, and of what a redirect overtakes nothing is left once the buffer   *)
(* has been killed, one cycle later.                                       *)
OnThePath ==
    /\ resp_valid => s2_pc = expected
    /\ ~fetchbuffer_kill => \A j \in DOMAIN FetchBuffer : FetchBuffer[j]

(* The row that is delivered is the row of s2_pc, also when it has been    *)
(* held over from the instruction before.                                  *)
RightRow == resp_valid => i2_dout.row = Row(s2_pc)

(* After fence.i no instruction is delivered that was asked for before it, *)
(* however the invalidation meets a refill or a lookup under way.          *)
FreshAfterFence == resp_valid => i2_dout.fresh

(* Fetch never stops for good: unless it is redirected again and again, it *)
(* delivers instructions again and again.                                  *)
FetchContinues == []<>(fetchbuffer_kill \/ (resp_valid /\ enq_ready))
=============================================================================
