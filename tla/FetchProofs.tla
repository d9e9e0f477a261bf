---------------------------- MODULE FetchProofs -----------------------------
(***************************************************************************)
(* What fetch delivers is the path, the right row and fresh, for caches    *)
(* and memories of every size.                                             *)
(***************************************************************************)
EXTENDS FetchUnit, IntegerLemmas, FiniteSetTheorems, SequenceTheorems, TLAPS

-----------------------------------------------------------------------------
(* Addresses.                                                              *)

LEMMA Sizes ==
    /\ RowWords \in Nat \ {0} /\ LineRows \in Nat \ {0}
    /\ NumSets \in Nat \ {0} /\ NumPages \in Nat \ {0}
    /\ RowWords * LineRows \in Nat \ {0} /\ PageWords \in Nat \ {0}
    /\ NumPages * PageWords \in Nat \ {0}
    /\ LineRows > 1
    /\ PageWords = NumSets * (RowWords * LineRows)
<1> DEFINE W == RowWords
           L == LineRows
           N == NumSets
           P == NumPages
<1>1. W \in Nat \ {0} /\ L \in Nat \ {0} /\ N \in Nat \ {0} /\ P \in Nat \ {0}
  BY FetchAssumption
<1> HIDE DEF W, L, N, P
<1>2. W * L \in Nat \ {0}
  BY <1>1
<1>3. N * L * W = N * (W * L)
  BY <1>1
<1>4. N * (W * L) \in Nat \ {0}
  BY <1>1, <1>2
<1>5. P * (N * (W * L)) \in Nat \ {0}
  BY <1>1, <1>4
<1> QED
  BY <1>1, <1>2, <1>3, <1>4, <1>5, FetchAssumption DEF PageWords, W, L, N, P

(* The fields of an address are in their ranges.                           *)
LEMMA Fields ==
    ASSUME NEW a \in Pcs
    PROVE  /\ a \in Nat /\ Page(a) \in 0 .. NumPages - 1 /\ Offset(a) \in 0 .. PageWords - 1
           /\ Idx(a) \in Sets /\ Beat(a) \in Beats /\ Row(a) \in Nat
           /\ a = Page(a) * PageWords + Offset(a)
           /\ Next4(a) \in Pcs
<1>0. a \in Nat /\ a \in Int /\ a + 1 \in Int
  BY Sizes DEF Pcs
<1>1. Page(a) \in 0 .. NumPages - 1
  BY Sizes, QuotientBound, Zenon DEF Pcs, Page
<1>2. Offset(a) \in 0 .. PageWords - 1 /\ a = Page(a) * PageWords + Offset(a)
  BY <1>0, Sizes, DivMod, Zenon DEF Offset, Page
<1>3. Idx(a) \in Sets
  <2>1. Offset(a) \in 0 .. NumSets * (RowWords * LineRows) - 1
    BY <1>2, Sizes
  <2> QED
    BY <2>1, Sizes, QuotientBound, Zenon DEF Idx, Sets
<1>4. Row(a) \in Nat /\ Row(a) \in Int
  BY <1>0, Sizes DEF Row
<1>5. Beat(a) \in Beats
  BY <1>4, Sizes, DivMod, Zenon DEF Beat, Beats, Row
<1>6. Next4(a) \in Pcs
  BY <1>0, Sizes, DivMod, Zenon DEF Next4, Pcs
<1> QED
  BY <1>0, <1>1, <1>2, <1>3, <1>4, <1>5, <1>6

(* The first row of an address's line follows from its page and its set.   *)
LineOf(a) == Row(a) - Beat(a)

LEMMA LineOfSet ==
    ASSUME NEW a \in Pcs
    PROVE  LineOf(a) = (Page(a) * NumSets + Idx(a)) * LineRows
<1> DEFINE W == RowWords
           L == LineRows
           N == NumSets
           D == RowWords * LineRows
           r == Row(a)
           k == r \div L
           t == r % L
           e == a % W
           q == Page(a)
           o == Offset(a)
           i == Idx(a)
           m == o % D
<1>1. /\ W \in Nat \ {0} /\ L \in Nat \ {0} /\ N \in Nat \ {0} /\ D \in Nat \ {0}
      /\ D = W * L /\ PageWords = N * D
  BY Sizes
<1>2. a = r * W + e /\ e \in 0 .. W - 1 /\ r \in Int /\ a \in Int
  <2>1. a \in Int
    BY Fields
  <2> QED
    BY <2>1, Sizes, DivMod, Zenon DEF Row
<1>3. r = k * L + t /\ t \in 0 .. L - 1 /\ k \in Int
  BY <1>1, <1>2, DivMod
<1>4. a = q * PageWords + o /\ q \in Int /\ o \in Int
  BY Fields
<1>5. o = i * D + m /\ m \in 0 .. D - 1 /\ i \in Int
  BY <1>1, <1>4, DivMod DEF Idx
<1>6. LineOf(a) = r - t
  BY DEF LineOf, Beat, Row
<1> HIDE DEF W, L, N, D, r, k, t, e, q, o, i, m
<1>7. a = k * D + (t * W + e)
  BY <1>1, <1>2, <1>3
<1>8. t * W + e \in 0 .. D - 1
  <2> DEFINE x == t * W
  <2>1. x \in Nat /\ x <= (L - 1) * W
    BY <1>1, <1>3
  <2>2. (L - 1) * W = D - W
    BY <1>1
  <2> HIDE DEF x
  <2>3. x + e \in 0 .. D - 1
    BY <1>1, <1>2, <2>1, <2>2
  <2> QED
    BY <2>3 DEF x
<1>9. a = (q * N + i) * D + m
  BY <1>1, <1>4, <1>5
<1>10. k = q * N + i
  BY <1>1, <1>3, <1>4, <1>5, <1>7, <1>8, <1>9, Quotient
<1>11. LineOf(a) = k * L
  BY <1>3, <1>6, <1>1
<1> QED
  BY <1>10, <1>11 DEF q, N, i, L

(* Every row of a line is the row of some address.                         *)
LEMMA RowsOfLine ==
    ASSUME NEW a \in Pcs, NEW b \in Beats
    PROVE  \E c \in Pcs : Row(c) = LineOf(a) + b
<1> DEFINE W == RowWords
           L == LineRows
           N == NumSets
           P == NumPages
           k == Page(a) * NumSets + Idx(a)
           r == LineOf(a) + b
<1>1. /\ W \in Nat \ {0} /\ L \in Nat \ {0} /\ N \in Nat \ {0} /\ P \in Nat \ {0}
      /\ NumPages * PageWords = P * N * L * W
  BY Sizes DEF PageWords
<1>2. Page(a) \in 0 .. P - 1 /\ Idx(a) \in 0 .. N - 1 /\ b \in 0 .. L - 1
  BY Fields DEF Sets, Beats
<1>3. r = k * L + b /\ k = Page(a) * N + Idx(a)
  BY LineOfSet
<1> HIDE DEF W, L, N, P, k, r
<1>4. k \in Nat /\ k + 1 <= P * N
  <2>1. Page(a) * N >= 0 /\ Page(a) * N <= (P - 1) * N
    BY <1>1, <1>2
  <2>2. (P - 1) * N = P * N - N
    BY <1>1
  <2> QED
    BY <1>1, <1>2, <1>3, <2>1, <2>2
<1>5. r \in Nat /\ r + 1 <= P * N * L
  <2>1. k * L >= 0 /\ (k + 1) * L <= P * N * L
    BY <1>1, <1>4
  <2>2. (k + 1) * L = k * L + L
    BY <1>1, <1>4
  <2> QED
    BY <1>1, <1>2, <1>3, <1>4, <2>1, <2>2
<1>6. r * W \in Nat /\ r * W < P * N * L * W
  <2>1. (r + 1) * W <= P * N * L * W
    BY <1>1, <1>5
  <2>2. (r + 1) * W = r * W + W /\ r * W \in Nat
    BY <1>1, <1>5
  <2> QED
    BY <1>1, <1>5, <2>1, <2>2
<1>7. r * W \in Pcs
  BY <1>1, <1>6 DEF Pcs
<1>8. (r * W) \div W = r
  <2> DEFINE c == r * W
  <2>1. c \in Int
    BY <1>6
  <2> HIDE DEF c
  <2>2. c \div W \in Int /\ c % W \in 0 .. W - 1 /\ c = (c \div W) * W + (c % W)
    BY <1>1, <2>1, DivMod
  <2>3. r * W + 0 = (c \div W) * W + (c % W) /\ 0 \in 0 .. W - 1 /\ r \in Int
    BY <1>1, <1>5, <2>2 DEF c
  <2>4. r = c \div W
    BY <1>1, <2>2, <2>3, Quotient
  <2> QED
    BY <2>4 DEF c
<1> QED
  BY <1>7, <1>8 DEF Row, W, r

-----------------------------------------------------------------------------
(* The stages agree on what they work on.  A request in stage 1 of the     *)
(* cache is the one of s1_pc, and all read ports hold its address; when no *)
(* request was made because the row is the one read before, there is none. *)
Stages ==
    /\ s1_same_block => ~i1_valid
    /\ ~s2_valid => ~s1_same_block
    /\ s1_same_block /\ i2_valid => Row(s1_pc) = Row(s2_pc)
    /\ i1_valid => /\ i1_pgoff = s1_pc
                   /\ tag_raddr = Idx(s1_pc)
                   /\ \A w \in Ways : i1_raddr[w] = << Idx(s1_pc), Beat(s1_pc) >>
    /\ ic_state # "ready" => ~i2_valid

(* While a line is refilled, its rows up to the count have been written,   *)
(* and they are fresh unless fence.i has come since it was asked for.      *)
Refilling == ic_state \in {"refill_wait", "refill"}
Refill ==
    /\ ic_state # "refill" => refill_cnt = 0
    /\ Refilling /\ ~invalidated => acquired
    /\ ic_state # "ready" /\ invalidated => vb_array = {}
    /\ Refilling => \A b \in Beats : b < refill_cnt =>
         /\ data_array[<< Victim, b >>].row = LineOf(i2_addr) + b
         /\ ~invalidated => data_array[<< Victim, b >>].fresh

(* A valid line, unless it is being overwritten, holds the fresh rows of   *)
(* the addresses its tag and set stand for; no two ways hold one line, and *)
(* none holds the line that is being refilled or is about to be.           *)
Holds(l, a) == l[1] = Idx(a) /\ tag_array[l] = Page(a)
Arrays ==
    /\ \A l \in vb_array, a \in Pcs : Holds(l, a) /\ ~(Refilling /\ l = Victim) =>
         /\ data_array[<< l, Beat(a) >>].row = Row(a)
         /\ data_array[<< l, Beat(a) >>].fresh
    /\ \A k, l \in vb_array : k[1] = l[1] /\ tag_array[k] = tag_array[l] => k = l
    /\ i2_miss \/ ic_state # "ready" => \A l \in vb_array : ~Holds(l, i2_addr)

Answer == resp_valid => i2_dout.row = Row(s2_pc) /\ i2_dout.fresh

CacheInv == Stages /\ Refill /\ Arrays /\ Answer

(* The pc of the oldest stage in use is the one expected; the stage behind *)
(* it has the pc that follows it.                                          *)
PathInv ==
    /\ expected = IF s2_valid THEN s2_pc ELSE s1_pc
    /\ resp_valid => s1_pc = IF s2_pred # None THEN s2_pred ELSE Next4(s2_pc)
    /\ fetchbuffer_kill => ~s2_valid
    /\ ~fetchbuffer_kill => \A j \in DOMAIN FetchBuffer : FetchBuffer[j]

FetchInv == TypeOK /\ CacheInv /\ PathInv

-----------------------------------------------------------------------------
(* The inputs of a cycle that matter to the proof.                         *)
LEMMA InputFacts ==
    ASSUME NEW in \in Inputs
    PROVE  /\ in.take \in {"none", "redirect", "exception", "fencei"}
           /\ in.take # "none" => in.pc \in Pcs /\ in.bp2 = None
           /\ in.bp2 # None => in.bp2 \in Pcs /\ resp_valid /\ enq_ready /\ s2_pred = None
           /\ in.btb \in Targets \cup {None}
           /\ in.way \in Ways \cup {repl_way} /\ (~i2_miss => in.way = repl_way)
           /\ in.way \in Ways \/ ~i2_miss
<1>1. None \notin Targets
  BY TargetAssumption, Sizes DEF None, Pcs
<1>2. /\ in.take \in {"none", "redirect", "exception", "fencei"}
      /\ in.pc \in Targets \cup {None}
      /\ in.bp2 \in Target(resp_valid /\ enq_ready /\ s2_pred = None)
      /\ in.btb \in Target(~stall /\ ~icmiss)
      /\ in.way \in IF i2_miss THEN Ways ELSE {repl_way}
      /\ (in.pc = None) = (in.take = "none")
      /\ in.bp2 # None => in.take = "none"
  BY DEF Inputs
<1>3. in.take # "none" => in.pc \in Pcs /\ in.bp2 = None
  BY <1>1, <1>2, TargetAssumption
<1>4. in.bp2 # None => in.bp2 \in Pcs /\ resp_valid /\ enq_ready /\ s2_pred = None
  BY <1>2, TargetAssumption DEF Target
<1>5. in.btb \in Targets \cup {None}
  BY <1>2 DEF Target
<1> QED
  BY <1>2, <1>3, <1>4, <1>5

(* The pcs of the two stages after the edge.                               *)
LEMMA NextPcs ==
    ASSUME TypeOK, NEW in \in Inputs
    PROVE  /\ predicted_npc(in) \in Pcs /\ npc(in) \in Pcs /\ req_idx(in) \in Pcs
           /\ take_pc(in) => if_pc_next(in) \in Pcs
           /\ s1_pc \in Pcs /\ s2_pc \in Pcs /\ i2_addr \in Pcs /\ expected \in Pcs /\ i1_pgoff \in Pcs
<1>1. s1_pc \in Pcs /\ s2_pc \in Pcs /\ i2_addr \in Pcs /\ expected \in Pcs /\ i1_pgoff \in Pcs
  BY DEF TypeOK
<1>2. predicted_npc(in) \in Pcs
  BY <1>1, Fields, InputFacts, TargetAssumption DEF predicted_npc
<1>3. npc(in) \in Pcs
  BY <1>1, <1>2 DEF npc
<1>4. take_pc(in) => if_pc_next(in) \in Pcs
  BY InputFacts DEF take_pc, if_pc_next
<1> QED
  BY <1>1, <1>2, <1>3, <1>4 DEF req_idx

(* The address in stage 1 of the cache is s1_pc.                           *)
LEMMA StageOne ==
    ASSUME TypeOK, Stages, i1_valid
    PROVE  i1_addr = s1_pc /\ HitWays = {w \in Ways : << Idx(s1_pc), w >> \in vb_array
                                                /\ Holds(<< Idx(s1_pc), w >>, s1_pc)}
<1>1. s1_pc \in Pcs /\ i1_pgoff = s1_pc /\ tag_raddr = Idx(s1_pc)
  BY DEF TypeOK, Stages
<1>2. i1_addr = s1_pc
  BY <1>1, Fields DEF i1_addr
<1> QED
  BY <1>1, <1>2 DEF HitWays, Holds

(* A cycle in which the cache answers or takes a request is not one of a   *)
(* refill.                                                                 *)
LEMMA NotRefilling ==
    ASSUME Stages, NEW in \in Inputs
    PROVE  /\ stall \/ i2_resp \/ i2_miss \/ rdy => ic_state = "ready"
           /\ ic_state = "ready" => ~refill_valid(in) /\ ~refill_done
           /\ i1_valid => (i_stall <=> stall)
           /\ req_valid(in) => ~stall
BY DEF Stages, stall, resp_valid, i2_resp, i2_miss, rdy, refill_valid, refill_done, i_stall, req_valid

LEMMA StagesStep ==
    ASSUME TypeOK, Stages, NEW in \in Inputs, Frontend(in), ICachePipeline(in), ICacheControl(in)
    PROVE  Stages'
<1>1. (s1_same_block => ~i1_valid)'
  BY DEF Stages, Frontend, ICachePipeline, req_valid, req_kill, i_stall, s0_same_block
<1>2. (~s2_valid => ~s1_same_block)'
  BY DEF Stages, Frontend, s2_valid_next, s0_same_block, stall, resp_valid
<1>3. (s1_same_block /\ i2_valid => Row(s1_pc) = Row(s2_pc))'
  <2> SUFFICES ASSUME s1_same_block', i2_valid'
               PROVE  Row(s1_pc') = Row(s2_pc')
    BY DEF Row
  <2>1. ~take_pc(in)
    BY DEF Frontend
  <2>2. CASE stall
    <3>1. s1_pc' = s1_pc /\ s2_pc' = s2_pc /\ s1_same_block
      BY <2>1, <2>2 DEF Frontend
    <3>2. i2_valid
      BY <2>2 DEF stall, resp_valid, i2_resp
    <3> QED
      BY <3>1, <3>2 DEF Stages
  <2>3. CASE ~stall
    <3>1. s0_same_block(in)
      BY <2>1, <2>3 DEF Frontend
    <3> QED
      BY <2>1, <2>3, <3>1 DEF Frontend, s0_same_block, npc
  <2> QED
    BY <2>2, <2>3
<1>4. ASSUME i1_valid'
      PROVE  /\ i1_pgoff' = s1_pc' /\ tag_raddr' = Idx(s1_pc')
             /\ \A w \in Ways : i1_raddr'[w] = << Idx(s1_pc'), Beat(s1_pc') >>
  <2>1. CASE req_valid(in) /\ rdy
    <3>1. ~stall /\ ~(i1_valid /\ i_stall) /\ ~refill_done /\ ~refill_valid(in)
      BY <2>1, NotRefilling
    <3>2. s1_pc' = req_idx(in)
      BY <3>1 DEF Frontend, req_idx
    <3>3. i0_valid(in) /\ i0_pgoff(in) = req_idx(in)
      BY <2>1, <3>1 DEF i0_valid, i0_pgoff
    <3> QED
      BY <2>1, <3>1, <3>2, <3>3 DEF ICachePipeline
  <2>2. CASE ~(req_valid(in) /\ rdy)
    <3>1. i1_valid /\ stall /\ ~take_pc(in)
      BY <1>4, <2>2, NotRefilling DEF ICachePipeline, req_kill
    <3>2. ~refill_done /\ ~refill_valid(in)
      BY <3>1, NotRefilling
    <3>3. i0_valid(in) /\ i0_pgoff(in) = i1_pgoff /\ i1_pgoff' = i1_pgoff
      BY <2>2, <3>1, NotRefilling DEF i0_valid, i0_pgoff, ICachePipeline
    <3>4. s1_pc' = s1_pc /\ i1_pgoff = s1_pc
      BY <3>1 DEF Frontend, Stages
    <3> QED
      BY <3>2, <3>3, <3>4 DEF ICachePipeline
  <2> QED
    BY <2>1, <2>2
<1>5. (ic_state # "ready" => ~i2_valid)'
  <2> SUFFICES ASSUME ic_state' # "ready" PROVE ~i2_valid'
    OBVIOUS
  <2>1. ~rdy
    BY DEF ICacheControl, rdy, refill_done
  <2>2. CASE ic_state = "ready"
    BY <2>1, <2>2 DEF ICachePipeline, rdy, i2_miss, i2_resp
  <2>3. CASE ic_state # "ready"
    BY <2>1, <2>3 DEF ICachePipeline, Stages, i2_resp
  <2> QED
    BY <2>2, <2>3
<1> QED
  BY <1>1, <1>2, <1>3, <1>4, <1>5 DEF Stages, Row, Idx, Beat, Offset

-----------------------------------------------------------------------------
(* Refill and arrays.                                                      *)

(* The next state of the refill, case by case.                             *)
LEMMA RefillStates ==
    ASSUME TypeOK, Stages, NEW in \in Inputs, ICacheControl(in)
    PROVE  /\ ic_state = "ready" => ic_state' \in {"ready", "request"} /\ (ic_state' = "request" => i2_miss)
           /\ ic_state = "request" => ic_state' \in {"request", "refill_wait"}
           /\ ic_state = "refill_wait" => /\ ic_state' \in {"refill_wait", "refill"}
                                          /\ ic_state' = "refill" <=> refill_valid(in)
           /\ ic_state = "refill" => /\ refill_valid(in)
                                     /\ ic_state' = IF refill_done THEN "ready" ELSE "refill"
           /\ ic_state' = "refill_wait" /\ ic_state = "request" => acquired' = ~invalidate(in)
           /\ ic_state # "ready" => repl_way' = repl_way
BY InputFacts, Zenon DEF ICacheControl, refill_valid, refill_done, TypeOK, Stages, i2_miss

(* What a cycle does to the row b of line l.                               *)
LEMMA DataStep ==
    ASSUME TypeOK, NEW in \in Inputs, ICacheArrays(in), NEW l \in Lines, NEW b \in Beats
    PROVE  IF refill_valid(in) /\ l = Victim /\ b = refill_cnt
           THEN /\ data_array'[<< l, b >>].row = LineOf(i2_addr) + b
                /\ data_array'[<< l, b >>].fresh = (acquired /\ ~invalidate(in))
           ELSE /\ data_array'[<< l, b >>].row = data_array[<< l, b >>].row
                /\ data_array'[<< l, b >>].fresh = (data_array[<< l, b >>].fresh /\ ~invalidate(in))
<1> DEFINE d == << l, b >>
           new == [row |-> Row(i2_addr) - Beat(i2_addr) + refill_cnt, fresh |-> acquired]
           written == IF refill_valid(in) THEN [data_array EXCEPT ![<< Victim, refill_cnt >>] = new]
                      ELSE data_array
<1>1. d \in Lines \X Beats /\ DOMAIN data_array = Lines \X Beats
  BY DEF TypeOK
<1>2. data_array' = [x \in DOMAIN written |-> [written[x] EXCEPT !.fresh = @ /\ ~invalidate(in)]]
  BY DEF ICacheArrays
<1>3. DOMAIN written = Lines \X Beats
  BY <1>1
<1>4. data_array'[d] = [written[d] EXCEPT !.fresh = @ /\ ~invalidate(in)]
  BY <1>1, <1>2, <1>3, Zenon
<1>5. written[d] = IF refill_valid(in) /\ l = Victim /\ b = refill_cnt THEN new ELSE data_array[d]
  BY <1>1
<1>6. data_array[d] \in Data /\ DOMAIN data_array[d] = {"row", "fresh"}
  BY <1>1 DEF TypeOK, Data
<1>7. DOMAIN written[d] = {"row", "fresh"}
  BY <1>5, <1>6
<1> HIDE DEF written
<1>8. data_array'[d].row = written[d].row /\ data_array'[d].fresh = (written[d].fresh /\ ~invalidate(in))
  BY <1>4, <1>7
<1> QED
  BY <1>5, <1>8 DEF LineOf

(* The line that is being refilled stays the victim.                       *)
LEMMA VictimStays ==
    ASSUME TypeOK, Stages, NEW in \in Inputs, ICachePipeline(in), ICacheControl(in)
    PROVE  /\ Victim \in Lines /\ i2_addr \in Pcs
           /\ ic_state # "ready" => i2_addr' = i2_addr /\ Victim' = Victim
           /\ ic_state = "ready" /\ ic_state' # "ready" => i2_addr' = i2_addr
<1>1. Victim \in Lines /\ i2_addr \in Pcs
  BY Fields DEF Victim, Lines, TypeOK
<1>2. ASSUME ic_state # "ready" \/ i2_miss PROVE i2_addr' = i2_addr
  BY <1>2 DEF ICachePipeline, rdy
<1>3. ic_state # "ready" => Victim' = Victim
  BY <1>2, RefillStates DEF Victim, Idx, Offset
<1> QED
  BY <1>1, <1>2, <1>3, RefillStates DEF TypeOK

LEMMA RefillStep ==
    ASSUME TypeOK, Stages, Refill, NEW in \in Inputs,
           ICachePipeline(in), ICacheArrays(in), ICacheControl(in)
    PROVE  Refill'
<1>0. /\ refill_cnt \in Beats /\ LineRows \in Nat /\ LineRows > 1
      /\ refill_cnt' = IF refill_valid(in) THEN (refill_cnt + 1) % LineRows ELSE refill_cnt
      /\ invalidated' = (ic_state # "ready" /\ (invalidated \/ invalidate(in)))
      /\ ic_state \in {"ready", "request", "refill_wait", "refill"}
  BY Sizes DEF TypeOK, ICacheControl, refill_cnt_next, invalidated_next
<1>1. (ic_state # "refill" => refill_cnt = 0)'
  <2>1. CASE refill_done
    <3>1. refill_cnt + 1 = LineRows /\ LineRows % LineRows = 0
      BY <2>1, <1>0, Sizes DEF refill_done, Beats
    <3> QED
      BY <1>0, <2>1, <3>1, RefillStates DEF refill_done
  <2>2. CASE ~refill_done
    BY <1>0, <2>2, RefillStates, NotRefilling DEF Refill, refill_valid
  <2> QED
    BY <2>1, <2>2
<1>2. (Refilling /\ ~invalidated => acquired)'
  <2> SUFFICES ASSUME Refilling', ~invalidated' PROVE acquired'
    OBVIOUS
  <2>1. ic_state # "ready" /\ ~invalidated /\ ~invalidate(in)
    BY <1>0, RefillStates DEF Refilling
  <2>2. CASE ic_state = "request"
    BY <2>1, <2>2, RefillStates DEF Refilling
  <2>3. CASE ic_state # "request"
    BY <1>0, <2>1, <2>3 DEF Refilling, Refill, ICacheControl
  <2> QED
    BY <2>2, <2>3
<1>3. (ic_state # "ready" /\ invalidated => vb_array = {})'
  <2> SUFFICES ASSUME ic_state' # "ready", invalidated' PROVE vb_array' = {}
    OBVIOUS
  <2>1. ic_state # "ready" /\ (invalidated \/ invalidate(in))
    BY <1>0
  <2>2. ~refill_done
    BY <2>1, RefillStates DEF refill_done
  <2> QED
    BY <2>1, <2>2 DEF Refill, ICacheArrays, vb_array_next
<1>4. ASSUME Refilling', NEW b \in Beats, b < refill_cnt'
      PROVE  /\ data_array'[<< Victim', b >>].row = LineOf(i2_addr') + b
             /\ ~invalidated' => data_array'[<< Victim', b >>].fresh
  <2>1. refill_valid(in) /\ ic_state' = "refill" /\ Refilling /\ ic_state # "ready"
    BY <1>4, <1>0, <1>1, RefillStates DEF Refilling, Beats, refill_valid
  <2>2. refill_cnt' = refill_cnt + 1
    <3>1. refill_cnt + 1 < LineRows
      BY <1>0, <2>1, RefillStates DEF refill_done, Refill, Refilling, Beats
    <3> QED
      BY <1>0, <2>1, <3>1 DEF Beats
  <2>3. Victim' = Victim /\ i2_addr' = i2_addr /\ Victim \in Lines
    BY <2>1, VictimStays
  <2>4. CASE b = refill_cnt
    BY <2>1, <2>3, <2>4, <1>0, DataStep DEF Refill
  <2>5. CASE b # refill_cnt
    <3>1. b < refill_cnt
      BY <1>4, <1>0, <2>2, <2>5 DEF Beats
    <3>2. /\ data_array[<< Victim, b >>].row = LineOf(i2_addr) + b
          /\ ~invalidated => data_array[<< Victim, b >>].fresh
      BY <2>1, <3>1 DEF Refill
    <3> QED
      BY <2>1, <2>3, <2>5, <3>2, <1>0, DataStep
  <2> QED
    BY <2>4, <2>5
<1> QED
  BY <1>1, <1>2, <1>3, <1>4 DEF Refill, LineOf, Row, Beat

LEMMA ArraysStep ==
    ASSUME TypeOK, Stages, Refill, Arrays, NEW in \in Inputs,
           Frontend(in), ICachePipeline(in), ICacheArrays(in), ICacheControl(in)
    PROVE  Arrays'
<1>0. /\ vb_array \subseteq Lines /\ vb_array' \subseteq vb_array \cup {Victim} /\ Victim \in Lines
      /\ i2_addr \in Pcs /\ tag_array \in [Lines -> 0 .. NumPages - 1]
      /\ ic_state \in {"ready", "request", "refill_wait", "refill"}
  BY VictimStays DEF TypeOK, ICacheArrays, vb_array_next
<1>1. ASSUME ~refill_done
      PROVE  tag_array' = tag_array /\ vb_array' \subseteq vb_array
             /\ \A l \in Lines : \A a : Holds(l, a)' <=> Holds(l, a)
  BY <1>1 DEF ICacheArrays, vb_array_next, Holds, Idx, Offset, Page
<1>2. ASSUME refill_done, vb_array' # {}
      PROVE  /\ ic_state = "refill" /\ refill_valid(in) /\ ~invalidated /\ ~invalidate(in)
             /\ ic_state' = "ready" /\ ~i2_valid' /\ Refilling /\ ~Refilling'
             /\ tag_array' = [tag_array EXCEPT ![Victim] = Page(i2_addr)]
  <2>1. ic_state = "refill" /\ refill_valid(in) /\ ic_state' = "ready"
    BY <1>2, RefillStates DEF refill_done
  <2>2. ~invalidated /\ ~invalidate(in)
    BY <1>2, <2>1 DEF ICacheArrays, vb_array_next, Refill
  <2>3. ~i2_valid'
    BY <2>1 DEF ICachePipeline, rdy, i2_resp, Stages
  <2> QED
    BY <1>2, <2>1, <2>2, <2>3 DEF Refilling, ICacheArrays
<1>3. ASSUME NEW l \in vb_array', NEW a \in Pcs, Holds(l, a)', ~(Refilling /\ l = Victim)'
      PROVE  data_array'[<< l, Beat(a) >>].row = Row(a) /\ data_array'[<< l, Beat(a) >>].fresh
  <2>0. Beat(a) \in Beats /\ Row(a) \in Nat /\ l \in Lines /\ refill_cnt \in Beats
    BY <1>0, Fields DEF TypeOK
  <2>1. ~invalidate(in)
    BY <1>3 DEF ICacheArrays, vb_array_next
  <2>2. CASE refill_done
    <3>1. CASE l = Victim
      <4>1. Page(a) = Page(i2_addr) /\ Idx(a) = Idx(i2_addr)
        BY <1>0, <1>2, <1>3, <2>2, <3>1 DEF Holds, Victim, Idx, Offset, Page
      <4>2. LineOf(a) = LineOf(i2_addr)
        BY <1>0, <4>1, LineOfSet
      <4>3. Row(a) = LineOf(i2_addr) + Beat(a)
        BY <2>0, <4>2 DEF LineOf, Beats
      <4>4. CASE Beat(a) = refill_cnt
        BY <1>2, <1>3, <2>0, <2>2, <3>1, <4>3, <4>4, DataStep DEF Refill
      <4>5. CASE Beat(a) # refill_cnt
        <5>1. Beat(a) < refill_cnt
          BY <2>0, <2>2, <4>5, Sizes DEF refill_done, Beats
        <5> QED
          BY <1>2, <1>3, <2>0, <2>1, <2>2, <3>1, <4>3, <4>5, <5>1, DataStep DEF Refill
      <4> QED
        BY <4>4, <4>5
    <3>2. CASE l # Victim
      <4>1. l \in vb_array /\ Holds(l, a)
        BY <1>0, <1>2, <1>3, <2>0, <2>2, <3>2 DEF Holds, Idx, Offset, Page
      <4>2. data_array[<< l, Beat(a) >>].row = Row(a) /\ data_array[<< l, Beat(a) >>].fresh
        BY <3>2, <4>1 DEF Arrays
      <4> QED
        BY <2>0, <2>1, <3>2, <4>2, DataStep
    <3> QED
      BY <3>1, <3>2
  <2>3. CASE ~refill_done
    <3>1. l \in vb_array /\ Holds(l, a)
      BY <1>1, <1>3, <2>0, <2>3
    <3>2. ~(Refilling /\ l = Victim)
      BY <1>0, <1>3, <2>3, RefillStates, VictimStays DEF Refilling
    <3>3. data_array[<< l, Beat(a) >>].row = Row(a) /\ data_array[<< l, Beat(a) >>].fresh
      BY <3>1, <3>2 DEF Arrays
    <3>4. ~(refill_valid(in) /\ l = Victim)
      BY <3>2 DEF Refilling, refill_valid
    <3> QED
      BY <2>0, <2>1, <3>3, <3>4, DataStep
  <2> QED
    BY <2>2, <2>3
<1>4. ASSUME NEW k \in vb_array', NEW l \in vb_array', k[1] = l[1], tag_array'[k] = tag_array'[l]
      PROVE  k = l
  <2>1. CASE refill_done
    <3>1. \A x \in vb_array : ~Holds(x, i2_addr)
      BY <1>2, <1>4, <2>1 DEF Arrays
    <3>2. tag_array' = [tag_array EXCEPT ![Victim] = Page(i2_addr)] /\ Victim[1] = Idx(i2_addr)
      BY <1>2, <1>4, <2>1 DEF Victim
    <3> QED
      BY <1>0, <1>4, <3>1, <3>2 DEF Holds, Arrays
  <2>2. CASE ~refill_done
    BY <1>1, <1>4, <2>2 DEF Arrays
  <2> QED
    BY <2>1, <2>2
<1>5. ASSUME i2_miss' \/ ic_state' # "ready", NEW l \in vb_array'
      PROVE  ~Holds(l, i2_addr)'
  <2>1. ~refill_done
    BY <1>2, <1>5 DEF i2_miss
  <2>2. l \in vb_array /\ l \in Lines
    BY <1>0, <1>1, <2>1
  <2>3. CASE i2_miss \/ ic_state # "ready"
    <3>1. i2_addr' = i2_addr
      BY <2>3 DEF ICachePipeline, rdy
    <3>2. ~Holds(l, i2_addr)
      BY <2>2, <2>3 DEF Arrays
    <3> QED
      BY <1>1, <2>1, <2>2, <3>1, <3>2 DEF Holds, Idx, Offset, Page
  <2>4. CASE ~i2_miss /\ ic_state = "ready"
    <3>1. ic_state' = "ready" /\ i2_valid' /\ ~i2_hit'
      BY <1>5, <2>4, RefillStates DEF i2_miss
    <3>2. i1_valid /\ rdy /\ ~i_stall
      BY <2>4, <3>1 DEF ICachePipeline, rdy, i2_resp, i2_miss, stall, resp_valid, i_stall, Stages
    <3>3. i2_addr' = s1_pc /\ HitWays = {}
      BY <3>1, <3>2, StageOne DEF ICachePipeline
    <3>4. ~Holds(l, s1_pc)
      <4>1. PICK w \in Ways : l = << l[1], w >>
        BY <2>2 DEF Lines
      <4> QED
        BY <2>2, <3>2, <3>3, <4>1, StageOne DEF Holds
    <3> QED
      BY <1>1, <2>1, <2>2, <3>3, <3>4 DEF Holds, Idx, Offset, Page
  <2> QED
    BY <2>3, <2>4
<1> QED
  BY <1>3, <1>4, <1>5 DEF Arrays, Row, Beat

-----------------------------------------------------------------------------
(* Of the ways one at most hits, and what it gives is the row of s1_pc.    *)
LEMMA LookupRight ==
    ASSUME TypeOK, Stages, Arrays, i1_valid, ic_state = "ready", HitWays # {}
    PROVE  ReadOut \in Data /\ ReadOut.row = Row(s1_pc) /\ ReadOut.fresh
<1>0. s1_pc \in Pcs /\ Beat(s1_pc) \in Beats
  BY Fields DEF TypeOK
<1>1. PICK w \in HitWays : TRUE
  OBVIOUS
<1>2. /\ w \in Ways /\ << Idx(s1_pc), w >> \in vb_array /\ << Idx(s1_pc), w >> \in Lines
      /\ Holds(<< Idx(s1_pc), w >>, s1_pc)
  BY <1>1, StageOne DEF TypeOK
<1>3. HitWays = {w}
  <2>1. ASSUME NEW v \in HitWays PROVE v = w
    <3>1. << Idx(s1_pc), v >> \in vb_array /\ Holds(<< Idx(s1_pc), v >>, s1_pc)
      BY <2>1, StageOne
    <3>2. << Idx(s1_pc), v >> = << Idx(s1_pc), w >>
      BY <1>2, <3>1 DEF Arrays, Holds
    <3> QED
      BY <3>2
  <2> QED
    BY <1>1, <2>1
<1>4. Cardinality(HitWays) = 1
  BY <1>3, FS_Singleton
<1>5. ReadOut = data_array[<< << Idx(s1_pc), w >>, Beat(s1_pc) >>]
  <2>1. (CHOOSE v \in HitWays : TRUE) = w
    BY <1>3
  <2>2. i1_raddr[w] = << Idx(s1_pc), Beat(s1_pc) >>
    BY <1>2 DEF Stages
  <2>3. i1_raddr[w][1] = Idx(s1_pc) /\ i1_raddr[w][2] = Beat(s1_pc)
    BY <2>2
  <2> DEFINE v == CHOOSE v \in HitWays : TRUE
  <2>4. ReadOut = data_array[<< << i1_raddr[v][1], v >>, i1_raddr[v][2] >>]
    BY <1>4, Zenon DEF ReadOut
  <2> QED
    BY <2>1, <2>3, <2>4, Zenon
<1> QED
  BY <1>0, <1>2, <1>5 DEF Arrays, Refilling, TypeOK

(* The output register after the edge.                                     *)
LEMMA OutputStep ==
    ASSUME TypeOK, Stages, Arrays, NEW in \in Inputs, ICachePipeline(in)
    PROVE  LET read == i1_valid /\ rdy /\ ~i_stall
           IN  /\ i2_dout' \in Data
               /\ read /\ HitWays # {} => i2_dout'.row = Row(s1_pc) /\ i2_dout'.fresh = ~invalidate(in)
               /\ ~read => i2_dout'.row = i2_dout.row
                           /\ i2_dout'.fresh = (i2_dout.fresh /\ ~invalidate(in))
<1> DEFINE read == i1_valid /\ rdy /\ ~i_stall
           old == IF read THEN ReadOut ELSE i2_dout
<1>1. i2_dout' = [old EXCEPT !.fresh = @ /\ ~invalidate(in)]
  BY Zenon DEF ICachePipeline
<1>2. ASSUME read, HitWays = {} PROVE ReadOut \in Data
  <2>1. ReadOut = NoData
    BY <1>2, FS_EmptySet DEF ReadOut
  <2> QED
    BY <2>1 DEF NoData, Data
<1>3. old \in Data
  BY <1>2, LookupRight DEF TypeOK, rdy
<1> HIDE DEF old
<1>4. DOMAIN old = {"row", "fresh"} /\ old.fresh \in BOOLEAN
  BY <1>3 DEF Data
<1>5. i2_dout' \in Data /\ i2_dout'.row = old.row /\ i2_dout'.fresh = (old.fresh /\ ~invalidate(in))
  BY <1>1, <1>3, <1>4 DEF Data
<1>6. read /\ HitWays # {} => ReadOut.row = Row(s1_pc) /\ ReadOut.fresh
  BY LookupRight DEF rdy
<1> QED
  BY <1>4, <1>5, <1>6 DEF old

LEMMA AnswerStep ==
    ASSUME TypeOK, CacheInv, NEW in \in Inputs, Frontend(in), ICachePipeline(in)
    PROVE  Answer'
<1> SUFFICES ASSUME s2_valid', i2_valid', i2_hit'
             PROVE  i2_dout'.row = Row(s2_pc') /\ i2_dout'.fresh
  BY DEF Answer, resp_valid, i2_resp, Row
<1> USE DEF CacheInv
<1>1. ~take_pc(in) /\ ~invalidate(in) /\ (stall \/ ~icmiss)
  BY DEF Frontend, s2_valid_next, take_pc, invalidate
<1>2. CASE i1_valid /\ rdy /\ ~i_stall
  <2>1. HitWays # {}
    BY <1>2 DEF ICachePipeline
  <2>2. s2_pc' = s1_pc
    BY <1>1, <1>2 DEF Frontend, i_stall
  <2> QED
    BY <1>1, <1>2, <2>1, <2>2, OutputStep
<1>3. CASE ~(i1_valid /\ rdy /\ ~i_stall)
  <2>1. i2_resp /\ i_stall /\ i2_valid
    BY <1>3 DEF ICachePipeline, Stages, i2_resp, i_stall, stall, resp_valid
  <2>2. s2_valid
    BY <2>1 DEF Stages, i_stall, stall, resp_valid
  <2>3. i2_dout.row = Row(s2_pc) /\ i2_dout.fresh
    BY <2>1, <2>2 DEF Answer, resp_valid
  <2>4. Row(s2_pc') = Row(s2_pc)
    <3>1. CASE stall
      BY <3>1 DEF Frontend
    <3>2. CASE ~stall
      BY <1>1, <2>1, <3>2 DEF Frontend, Stages, i_stall
    <3> QED
      BY <3>1, <3>2
  <2> QED
    BY <1>1, <1>3, <2>3, <2>4, OutputStep
<1> QED
  BY <1>2, <1>3

LEMMA PathStep ==
    ASSUME TypeOK, PathInv, NEW in \in Inputs, Frontend(in), ICachePipeline(in), FetchBufferNext(in)
    PROVE  PathInv'
<1>1. (expected = IF s2_valid THEN s2_pc ELSE s1_pc)'
  <2>1. CASE take_pc(in)
    <3>1. ~s2_valid' /\ s1_pc' = if_pc_next(in)
      BY <2>1 DEF Frontend, s2_valid_next
    <3>2. CASE in.take # "none"
      BY <3>1, <3>2 DEF FetchBufferNext, if_pc_next
    <3>3. CASE in.take = "none"
      <4>1. in.bp2 # None /\ resp_valid /\ enq_ready
        BY <2>1, <3>3, InputFacts DEF take_pc
      <4>2. enq_fire(in)
        BY <3>3, <4>1 DEF enq_fire, kill, PathInv, resp_valid
      <4> QED
        BY <3>1, <3>3, <4>1, <4>2 DEF FetchBufferNext, if_pc_next
    <3> QED
      BY <3>2, <3>3
  <2>2. CASE ~take_pc(in) /\ (stall \/ icmiss)
    <3>1. ~enq_fire(in) /\ in.take = "none" /\ s2_valid
      BY <2>2 DEF enq_fire, stall, icmiss, resp_valid, take_pc
    <3>2. expected' = expected
      BY <3>1 DEF FetchBufferNext
    <3> QED
      BY <2>2, <3>1, <3>2 DEF Frontend, s2_valid_next, PathInv, npc, stall, resp_valid, icmiss
  <2>3. CASE ~take_pc(in) /\ ~stall /\ ~icmiss
    <3>1. s2_valid' /\ s2_pc' = s1_pc
      BY <2>3 DEF Frontend, s2_valid_next
    <3>2. in.take = "none" /\ in.bp2 = None
      BY <2>3 DEF take_pc
    <3>3. CASE s2_valid
      <4>1. resp_valid /\ enq_ready /\ ~kill(in)
        BY <2>3, <3>2, <3>3 DEF resp_valid, icmiss, stall, kill, PathInv
      <4> QED
        BY <3>1, <3>2, <4>1 DEF FetchBufferNext, enq_fire, PathInv
    <3>4. CASE ~s2_valid
      BY <3>1, <3>2, <3>4 DEF FetchBufferNext, enq_fire, PathInv, resp_valid
    <3> QED
      BY <3>3, <3>4
  <2> QED
    BY <2>1, <2>2, <2>3
<1>2. ASSUME resp_valid' PROVE s1_pc' = IF s2_pred' # None THEN s2_pred' ELSE Next4(s2_pc')
  <2>1. ~take_pc(in) /\ (stall \/ ~icmiss)
    BY <1>2 DEF Frontend, s2_valid_next, resp_valid
  <2>2. CASE stall
    BY <2>1, <2>2 DEF Frontend, PathInv, stall
  <2>3. CASE ~stall
    BY <2>1, <2>3 DEF Frontend, npc, predicted_npc
  <2> QED
    BY <2>2, <2>3
<1>3. (fetchbuffer_kill => ~s2_valid)'
  BY DEF FetchBufferNext, Frontend, s2_valid_next, take_pc
<1>4. ASSUME ~fetchbuffer_kill' PROVE \A j \in DOMAIN FetchBuffer' : FetchBuffer'[j]
  <2> DEFINE entered == IF enq_fire(in) THEN Append(FetchBuffer, TRUE) ELSE FetchBuffer
             left == IF in.deq /\ entered # << >> THEN Tail(entered) ELSE entered
  <2>1. FetchBuffer \in Seq(BOOLEAN)
    BY DEF TypeOK
  <2>2. CASE kill(in)
    BY <2>2 DEF FetchBufferNext
  <2>3. CASE ~kill(in)
    <3>1. FetchBuffer' = left
      BY <1>4, <2>3 DEF FetchBufferNext
    <3>2. \A j \in 1 .. Len(FetchBuffer) : FetchBuffer[j] = TRUE
      BY <2>1, <2>3 DEF PathInv, kill
    <3>3. entered \in Seq(BOOLEAN) /\ \A j \in 1 .. Len(entered) : entered[j] = TRUE
      <4>1. CASE enq_fire(in)
        BY <2>1, <3>2, <4>1, AppendProperties
      <4>2. CASE ~enq_fire(in)
        BY <2>1, <3>2, <4>2
      <4> QED
        BY <4>1, <4>2
    <3> HIDE DEF entered
    <3>4. left \in Seq(BOOLEAN) /\ \A j \in 1 .. Len(left) : left[j] = TRUE
      <4>1. CASE in.deq /\ entered # << >>
        BY <3>3, <4>1, HeadTailProperties
      <4>2. CASE ~(in.deq /\ entered # << >>)
        BY <3>3, <4>2
      <4> QED
        BY <4>1, <4>2
    <3> QED
      BY <3>1, <3>4
  <2> QED
    BY <2>2, <2>3
<1> QED
  BY <1>1, <1>2, <1>3, <1>4 DEF PathInv, Next4

-----------------------------------------------------------------------------
LEMMA TypeStep ==
    ASSUME TypeOK, Stages, Arrays, NEW in \in Inputs, Clock(in)
    PROVE  TypeOK'
<1> USE DEF Clock
<1>1. s1_pc' \in Pcs /\ s2_pc' \in Pcs /\ i1_pgoff' \in Pcs
  BY NextPcs DEF Frontend, ICachePipeline
<1>2. i2_addr' \in Pcs
  BY NextPcs, StageOne DEF ICachePipeline
<1>3. expected' \in Pcs
  BY NextPcs, InputFacts, Fields, TargetAssumption DEF FetchBufferNext, TypeOK
<1>4. s2_pred' \in Targets \cup {None}
  BY InputFacts DEF Frontend, TypeOK
<1>5. s1_same_block' \in BOOLEAN /\ s2_valid' \in BOOLEAN /\ fetchbuffer_kill' \in BOOLEAN
  BY DEF Frontend, s2_valid_next, s0_same_block, FetchBufferNext, TypeOK
<1>6. invalidated' \in BOOLEAN /\ acquired' \in BOOLEAN /\ ack_q' \in BOOLEAN
  BY DEF ICacheControl, invalidated_next
<1>7. i1_valid' \in BOOLEAN /\ i2_valid' \in BOOLEAN /\ i2_hit' \in BOOLEAN
  BY DEF ICachePipeline, TypeOK
<1>8. ic_state' \in {"ready", "request", "refill_wait", "refill"}
  BY RefillStates DEF TypeOK
<1>9. refill_cnt' \in Beats
  <2>1. refill_cnt \in Beats /\ refill_cnt + 1 \in Int
    BY DEF TypeOK, Beats
  <2>2. (refill_cnt + 1) % LineRows \in Beats
    BY <2>1, Sizes, DivMod, Zenon DEF Beats
  <2> QED
    BY <2>1, <2>2 DEF ICacheControl, refill_cnt_next
<1>10. repl_way' \in Ways
  BY InputFacts DEF ICacheControl, TypeOK
<1>11. i0_pgoff(in) \in Pcs
  BY NextPcs DEF i0_pgoff
<1>12. tag_raddr' \in Sets
  BY <1>11, Fields DEF ICachePipeline, TypeOK
<1>13. i1_raddr' \in [Ways -> Sets \X Beats]
  <2>1. << Idx(i0_pgoff(in)), Beat(i0_pgoff(in)) >> \in Sets \X Beats
    BY <1>11, Fields
  <2> QED
    BY <2>1 DEF ICachePipeline, TypeOK
<1>14. i2_dout' \in Data
  BY OutputStep
<1>15. vb_array' \subseteq Lines /\ tag_array' \in [Lines -> 0 .. NumPages - 1]
  BY VictimStays, Fields DEF ICacheArrays, vb_array_next, TypeOK
<1>16. data_array' \in [Lines \X Beats -> Data]
  <2>1. DOMAIN data_array' = Lines \X Beats /\ data_array' = [d \in Lines \X Beats |-> data_array'[d]]
    BY DEF ICacheArrays, TypeOK
  <2>2. ASSUME NEW d \in Lines \X Beats PROVE data_array'[d] \in Data
    <3> DEFINE new == [row |-> Row(i2_addr) - Beat(i2_addr) + refill_cnt, fresh |-> acquired]
               old == IF refill_valid(in) /\ d = << Victim, refill_cnt >> THEN new ELSE data_array[d]
    <3>1. data_array'[d] = [old EXCEPT !.fresh = @ /\ ~invalidate(in)]
      BY <2>2 DEF ICacheArrays, TypeOK
    <3>2. new \in Data
      <4>1. i2_addr \in Pcs /\ refill_cnt \in Beats /\ acquired \in BOOLEAN
        BY DEF TypeOK
      <4>2. PICK c \in Pcs : Row(c) = LineOf(i2_addr) + refill_cnt
        BY <4>1, RowsOfLine
      <4> QED
        BY <4>1, <4>2 DEF Data, LineOf
    <3>3. old \in Data
      BY <2>2, <3>2 DEF TypeOK
    <3> HIDE DEF old
    <3> QED
      BY <3>1, <3>3 DEF Data
  <2> QED
    BY <2>1, <2>2
<1>17. FetchBuffer' \in Seq(BOOLEAN) /\ Len(FetchBuffer') <= FETCH_BUFFER_SZ
  <2> DEFINE entered == IF enq_fire(in) THEN Append(FetchBuffer, TRUE) ELSE FetchBuffer
             left == IF in.deq /\ entered # << >> THEN Tail(entered) ELSE entered
  <2>1. FetchBuffer \in Seq(BOOLEAN) /\ Len(FetchBuffer) <= FETCH_BUFFER_SZ /\ FETCH_BUFFER_SZ \in Nat
    BY FetchAssumption DEF TypeOK
  <2>2. entered \in Seq(BOOLEAN) /\ Len(entered) <= FETCH_BUFFER_SZ
    <3>1. CASE enq_fire(in)
      BY <2>1, <3>1, AppendProperties DEF enq_fire, enq_ready
    <3>2. CASE ~enq_fire(in)
      BY <2>1, <3>2
    <3> QED
      BY <3>1, <3>2
  <2> HIDE DEF entered
  <2>3. left \in Seq(BOOLEAN) /\ Len(left) <= FETCH_BUFFER_SZ
    <3>1. CASE in.deq /\ entered # << >>
      BY <2>1, <2>2, <3>1, HeadTailProperties
    <3>2. CASE ~(in.deq /\ entered # << >>)
      BY <2>2, <3>2
    <3> QED
      BY <3>1, <3>2
  <2>4. FetchBuffer' = IF kill(in) THEN << >>
                       ELSE IF in.take # "none" THEN [j \in DOMAIN left |-> FALSE] ELSE left
    BY Zenon DEF FetchBufferNext, entered
  <2> HIDE DEF left
  <2> DEFINE n == Len(left)
             marked == [j \in 1 .. n |-> FALSE]
  <2>5. n \in Nat /\ DOMAIN left = 1 .. n
    BY <2>3, LenProperties
  <2> HIDE DEF n
  <2>6. marked \in [1 .. n -> BOOLEAN] /\ DOMAIN marked = 1 .. n
    OBVIOUS
  <2> HIDE DEF marked
  <2>7. marked \in Seq(BOOLEAN)
    BY <2>5, <2>6, SeqDef, Zenon
  <2>8. Len(marked) = n
    <3>1. Len(marked) \in Nat /\ DOMAIN marked = 1 .. Len(marked)
      BY <2>7, LenProperties
    <3> DEFINE m == Len(marked)
    <3>2. m \in Nat /\ 1 .. m = 1 .. n
      BY <3>1, <2>6
    <3> HIDE DEF m
    <3>3. m = n
      <4>1. \A k \in Int : k \in 1 .. m <=> k \in 1 .. n
        BY <3>2
      <4> QED
        BY <4>1, <3>2, <2>5
    <3> QED
      BY <3>3 DEF m
  <2>9. [j \in DOMAIN left |-> FALSE] = marked
    BY <2>5 DEF marked
  <2>10. CASE kill(in)
    BY <2>1, <2>4, <2>10
  <2>11. CASE ~kill(in) /\ in.take # "none"
    <3>1. FetchBuffer' = marked
      BY <2>4, <2>9, <2>11, Zenon
    <3> QED
      BY <3>1, <2>3, <2>7, <2>8 DEF n
  <2>12. CASE ~kill(in) /\ in.take = "none"
    <3>1. FetchBuffer' = left
      BY <2>4, <2>12
    <3> QED
      BY <3>1, <2>3
  <2> QED
    BY <2>10, <2>11, <2>12, Zenon
<1> QED
  BY <1>1, <1>2, <1>3, <1>4, <1>5, <1>6, <1>7, <1>8, <1>9, <1>10, <1>12, <1>13, <1>14, <1>15, <1>16,
     <1>17 DEF TypeOK, Data, Lines, Sets, Beats

LEMMA FetchInit == Init => FetchInv
<1> SUFFICES ASSUME Init PROVE FetchInv
  OBVIOUS
<1>1. 0 \in Pcs /\ 0 \in Sets /\ 0 \in Beats /\ 0 \in 0 .. NumPages - 1
  BY Sizes DEF Pcs, Sets, Beats
<1>2. TypeOK
  <2>1. NoData \in Data
    BY DEF NoData, Data
  <2>2. FetchBuffer \in Seq(BOOLEAN) /\ Len(FetchBuffer) <= FETCH_BUFFER_SZ
    BY FetchAssumption DEF Init
  <2>3. data_array \in [Lines \X Beats -> Data] /\ tag_array \in [Lines -> 0 .. NumPages - 1]
        /\ i1_raddr \in [Ways -> Sets \X Beats] /\ i2_dout \in Data /\ vb_array \subseteq Lines
    BY <1>1, <2>1 DEF Init
  <2> QED
    BY <1>1, <2>2, <2>3, TargetAssumption DEF Init, TypeOK
<1>3. CacheInv
  BY <1>1 DEF Init, CacheInv, Stages, Refill, Arrays, Answer, i2_miss, resp_valid, i2_resp, Refilling
<1>4. PathInv
  BY DEF Init, PathInv, resp_valid, i2_resp
<1> QED
  BY <1>2, <1>3, <1>4 DEF FetchInv

LEMMA FetchStep == FetchInv /\ [Next]_vars => FetchInv'
<1> SUFFICES ASSUME FetchInv, [Next]_vars PROVE FetchInv'
  OBVIOUS
<1>1. ASSUME NEW in \in Inputs, Clock(in) PROVE FetchInv'
  <2>1. TypeOK'
    BY <1>1, TypeStep DEF FetchInv, CacheInv
  <2>2. Stages'
    BY <1>1, StagesStep DEF FetchInv, CacheInv, Clock
  <2>3. Refill'
    BY <1>1, RefillStep DEF FetchInv, CacheInv, Clock
  <2>4. Arrays'
    BY <1>1, ArraysStep DEF FetchInv, CacheInv, Clock
  <2>5. Answer'
    BY <1>1, AnswerStep DEF FetchInv, Clock
  <2>6. PathInv'
    BY <1>1, PathStep DEF FetchInv, Clock
  <2> QED
    BY <2>1, <2>2, <2>3, <2>4, <2>5, <2>6 DEF FetchInv, CacheInv
<1>2. CASE UNCHANGED vars
  BY <1>2 DEF vars, frontVars, icacheVars, FetchInv, TypeOK, CacheInv, PathInv, Stages, Refill, Arrays,
     Answer, Holds, Refilling, Victim, resp_valid, i2_resp, i2_miss
<1> QED
  BY <1>1, <1>2 DEF Next

(* What leaves fetch, after redirects, misses and stalls in any order, is  *)
(* what decode has to get next (dpath.scala, boom icache.scala).           *)
THEOREM PathKept == Spec => []OnThePath
<1>1. FetchInv => OnThePath
  BY DEF FetchInv, PathInv, OnThePath, resp_valid
<1> QED
  BY <1>1, FetchInit, FetchStep, PTL DEF Spec

(* What the cache delivers is the row of the pc it is delivered for, for   *)
(* every number of sets, ways and rows (rocket icache.scala).              *)
THEOREM RowRight == Spec => []RightRow
<1>1. FetchInv => RightRow
  BY DEF FetchInv, CacheInv, Answer, RightRow
<1> QED
  BY <1>1, FetchInit, FetchStep, PTL DEF Spec

(* No row asked for before a fence.i is delivered after it, whatever the   *)
(* invalidation meets under way (rocket icache.scala, invalidated).        *)
THEOREM FenceRespected == Spec => []FreshAfterFence
<1>1. FetchInv => FreshAfterFence
  BY DEF FetchInv, CacheInv, Answer, FreshAfterFence
<1> QED
  BY <1>1, FetchInit, FetchStep, PTL DEF Spec

(* The registers of fetch and of its cache keep their types; the fetch     *)
(* buffer never holds more than it has room for (icache.scala).            *)
THEOREM FetchTypeCorrect == Spec => []TypeOK
<1>1. FetchInv => TypeOK
  BY DEF FetchInv
<1> QED
  BY <1>1, FetchInit, FetchStep, PTL DEF Spec
=============================================================================
