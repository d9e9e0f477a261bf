----------------------------- MODULE HostProofs -----------------------------
(***************************************************************************)
(* The answers of the host interface, the memory it writes and the mailbox *)
(* of the tile, for lines, memories and packets of every size.             *)
(***************************************************************************)
EXTENDS HostPackets, IntegerLemmas, SequenceTheorems

-----------------------------------------------------------------------------
(* The invariant.                                                          *)

Base(p)  == p.addr \div LineWords       \* the first line of a memory packet
Total(p) == p.size \div LineWords       \* the lines of a memory packet
Done == Total(packet) - pos             \* the lines the interface is through with
WordsAt(l) == [i \in Slots |-> words[(l - Base(packet)) * LineWords + i + 1]]

\* Memory with the first k lines of the packet written.
Written(k) == [l \in Lines |->
    IF packet.cmd = "writemem" /\ l \in Base(packet) .. Base(packet) + k - 1 THEN WordsAt(l) ELSE due[l]]

\* The line of the packet that is under way has been written.
Stored == state = "state_mem_finish" \/ mem_acked \/ pending # << >>

\* The packet's header is in its registers until the next one comes.
Registers ==
    /\ cmd = packet.cmd /\ size = packet.size /\ seqno = packet.seqno /\ reg = packet.reg
    /\ packet \in Packets \/ (packet = NoPacket /\ Idle)
    /\ words \in Seq(Values) /\ due \in [Lines -> [Slots -> Values]]
    /\ taken \in Values \cup {Junk} /\ sent \in Nat /\ owed \in Seq(Values)

Counts ==
    /\ Idle => tx_word_count = 0 /\ sent = AnswerSize + 1
    /\ ~Idle => sent = tx_word_count /\ rx_word_count = Len(words) + 1
    /\ ~IsWrite(packet) => words = << >>
    /\ packet.cmd \in {"writemem", "other"} => tx_word_count = 0
    /\ state # "state_tx" /\ packet.cmd # "readmem" => tx_word_count = 0
    /\ state = "state_tx" /\ ~IsMem(packet) => tx_word_count <= AnswerSize

\* The acquire of the line under way is in the queue, with the agent, or over.
Acquired ==
    LET a == << [write |-> cmd = "writemem", line |-> Base(packet) + Done] >>
    IN  /\ acq_q # << >> => /\ state \in {"state_mem_rresp", "state_mem_wresp"} /\ acq_q = a
                            /\ pending = << >> /\ ~mem_acked
        /\ pending # << >> => /\ state \in {"state_mem_rresp", "state_mem_wresp"} /\ pending = a
                              /\ acq_q = << >> /\ ~mem_acked
        /\ mem_acked => state = "state_mem_wresp"

\* Which commands a state serves.
Serves ==
    /\ state \in {"state_mem_rreq", "state_mem_rresp"} => packet.cmd = "readmem"
    /\ state \in {"state_mem_wreq", "state_mem_wresp"} => packet.cmd = "writemem"
    /\ state = "state_mem_finish" => IsMem(packet)
    /\ state \in {"state_pcr_req", "state_pcr_resp"} => packet.cmd \in {"readcr", "writecr"}
    /\ state = "state_rx" /\ ~Idle => IsWrite(packet)

\* How far a memory packet is.
Progress ==
    ~Idle /\ IsMem(packet) =>
        /\ pos \in Nat /\ Done \in Nat /\ addr = (Base(packet) + Done) * LineWords
        /\ state # "state_tx" => pos > 0

Reading ==
    ~Idle /\ packet.cmd = "readmem" =>
        /\ state \in {"state_mem_rreq", "state_mem_rresp", "state_mem_finish"} =>
              tx_word_count = IF Done = 0 THEN 0 ELSE Done * LineWords + 1
        /\ state = "state_mem_finish" => packet_ram = due[Base(packet) + Done]
        /\ state = "state_tx" =>
              /\ Done > 0 /\ packet_ram = due[Base(packet) + Done - 1]
              /\ \/ Done = 1 /\ tx_word_count = 0
                 \/ tx_word_count \in (Done - 1) * LineWords + 1 .. Done * LineWords

Writing ==
    ~Idle /\ packet.cmd = "writemem" =>
        /\ state = "state_rx" =>
              /\ Len(words) \in Done * LineWords .. Done * LineWords + LineWords - 1
              /\ \A i \in Slots : i < Len(words) - Done * LineWords =>
                                    packet_ram[i] = words[Done * LineWords + i + 1]
        /\ state \in {"state_mem_wreq", "state_mem_wresp", "state_mem_finish"} =>
              /\ Len(words) = (Done + 1) * LineWords
              /\ packet_ram = WordsAt(Base(packet) + Done)
        /\ state = "state_tx" => pos = 0 /\ Len(words) = Done * LineWords

Stores == mem = IF ~Idle /\ packet.cmd = "writemem" THEN Written(IF Stored THEN Done + 1 ELSE Done)
                ELSE due

\* The request of a register access is in the queue, with the tile, or its
\* answer is on the way back; nothing is anywhere at any other time.
Access ==
    LET asked(r) == r.reg = reg /\ r.rw = (cmd = "writecr") /\ (r.rw => r.data \in Values)
    IN  /\ packet.cmd = "writecr" => Len(words) = (IF state = "state_rx" /\ ~Idle THEN 0 ELSE 1)
        /\ packet.cmd = "writecr" /\ ~Idle /\ state # "state_rx" => packet_ram[0] \in Values
        /\ pcr_req # << >> => /\ state = "state_pcr_resp" /\ asked(Head(pcr_req)) /\ taken = Junk
                              /\ csr.state = "idle" /\ pcr_rep = << >>
        /\ csr.state = "req" => /\ state = "state_pcr_resp" /\ asked(csr.bits) /\ taken = Junk
                                /\ pcr_rep = << >>
        /\ csr.state = "rep" => /\ state = "state_pcr_resp" /\ csr.bits.data = taken /\ taken \in Values
                                /\ pcr_rep = << >>
        /\ pcr_rep # << >> => /\ state = "state_pcr_resp" /\ pcr_rep = << taken >> /\ taken \in Values
                              /\ csr.state = "idle"
        /\ state = "state_pcr_resp" => reg \in {"tohost", "fromhost"}
        /\ ~Idle /\ (state \in {"state_rx", "state_pcr_req"} \/ IsMem(packet)) => taken = Junk
        /\ state = "state_tx" /\ packet.cmd \in {"readcr", "writecr"} =>
              pcrReadData = taken /\ taken \in Values
        /\ my_reset => tohost = 0 /\ fromhost = 0

\* A message has left tohost and has not reached the host.
OnItsWay == packet.cmd = "readcr" /\ packet.reg = "tohost" /\ sent < 2 /\ taken \notin {0, Junk}

Mailbox ==
    owed = IF OnItsWay THEN IF tohost = 0 THEN << taken >> ELSE << taken, tohost >>
           ELSE IF tohost = 0 THEN << >> ELSE << tohost >>

HostInv ==
    /\ TypeOK /\ Registers /\ Counts /\ Acquired /\ Serves /\ Progress
    /\ Reading /\ Writing /\ Stores /\ Access /\ Mailbox

-----------------------------------------------------------------------------
(* Packets.                                                                *)

LEMMA Widths ==
    /\ LineWords \in Nat \ {0} /\ LineWords > 1 /\ NumLines \in Nat \ {0}
    /\ NumLines * LineWords \in Nat \ {0}
    /\ 0 \in Slots /\ LineWords - 1 \in Slots /\ 0 \in Values /\ 1 \in Values /\ Junk \notin Values
<1> DEFINE w == LineWords
           n == NumLines
<1>1. w \in Nat \ {0} /\ n \in Nat \ {0}
  BY HostAssumption
<1> HIDE DEF w, n
<1>2. n * w \in Nat \ {0}
  BY <1>1
<1> QED
  BY <1>2, HostAssumption DEF Slots, Junk, w, n

(* A memory packet covers whole lines of memory, at least one.             *)
LEMMA MemPacket ==
    ASSUME NEW p \in Packets, IsMem(p)
    PROVE  /\ Base(p) \in Nat /\ Total(p) \in Nat \ {0} /\ Base(p) + Total(p) <= NumLines
           /\ p.addr = Base(p) * LineWords /\ p.size = Total(p) * LineWords
           /\ p.addr \in Nat /\ p.size \in Nat
<1> DEFINE w == LineWords
           b == Base(p)
           t == Total(p)
<1>1. p.addr \in Nat /\ p.size \in Nat /\ p.size > 0 /\ (p.size % w) = 0 /\ (p.addr % w) = 0
      /\ p.addr + p.size <= NumLines * w
  BY HostAssumption DEF Header
<1>2. w \in Nat \ {0} /\ NumLines \in Nat
  BY Widths
<1>0. p.addr \in Int /\ p.size \in Int
  BY <1>1
<1>3. b \in Int /\ p.addr = b * w + (p.addr % w)
  BY <1>0, <1>2, DivMod, Zenon DEF Base
<1>4. t \in Int /\ p.size = t * w + (p.size % w)
  BY <1>0, <1>2, DivMod, Zenon DEF Total
<1> HIDE DEF w, b, t
<1>5. p.addr = b * w /\ p.size = t * w
  BY <1>1, <1>2, <1>3, <1>4
<1>6. 0 <= b
  BY <1>1, <1>2, <1>3, <1>5, MultiplesOrdered
<1>7. 0 < t
  BY <1>1, <1>2, <1>4, <1>5, MultiplesOrdered
<1>8. (b + t) * w <= NumLines * w
  BY <1>1, <1>2, <1>3, <1>4, <1>5
<1>9. b + t <= NumLines
  BY <1>2, <1>3, <1>4, <1>8, MultiplesOrdered
<1> QED
  BY <1>1, <1>3, <1>4, <1>5, <1>6, <1>7, <1>9 DEF w, b, t

(* Any other packet is one word long.                                      *)
LEMMA OtherPacket ==
    ASSUME NEW p \in Packets
    PROVE  /\ p.cmd \in Cmds /\ p.reg \in Regs /\ p.seqno \in Nat /\ p.addr \in Nat /\ p.size \in Nat
           /\ ~IsMem(p) => p.size = 1 /\ Total(p) = 0
           /\ ~(p.cmd = "writecr" /\ p.reg = "tohost")
<1>1. 1 \div LineWords = 0
  <2>1. 0 \in Int /\ 1 \in 0 .. LineWords - 1 /\ 0 * LineWords + 1 = 1
    BY Widths
  <2> QED
    BY <2>1, Widths, QuotientIs
<1> QED
  BY <1>1, HostAssumption, MailboxAssumption DEF Header, Total

(* The mailbox holds no more than two messages.                            *)
LEMMA Appended ==
    ASSUME NEW a, NEW b
    PROVE  /\ Append(<< >>, b) = << b >> /\ Append(<< a >>, b) = << a, b >>
           /\ Tail(<< a >>) = << >> /\ Tail(<< a, b >>) = << b >>
           /\ << >> \o << >> = << >> /\ << a >> \o << >> = << a >>
           /\ << >> \o << b >> = << b >> /\ << a >> \o << b >> = << a, b >>
<1>1. Append(<< >>, b) = << b >>
  OBVIOUS
<1>2. Append(<< a >>, b) = << a, b >>
  <2> DEFINE S == {a, b}
             t == Append(<< a >>, b)
  <2>1. << a >> \in Seq(S) /\ << b >> \in Seq(S) /\ << a, b >> \in Seq(S) /\ Len(<< a >>) = 1 /\ Len(<< b >>) = 1
        /\ Len(<< a, b >>) = 2 /\ << a >>[1] = a /\ << b >>[1] = b /\ << a, b >>[1] = a /\ << a, b >>[2] = b
        /\ a \in S /\ b \in S
    OBVIOUS
  <2> HIDE DEF S
  <2>2. t \in Seq(S) /\ Len(t) = 2 /\ t[1] = a /\ t[2] = b
    BY <2>1, AppendProperties
  <2> HIDE DEF t
  <2>3. t = << a, b >>
    BY <2>1, <2>2, SeqEqual
  <2> QED
    BY <2>3 DEF t
<1>3. Tail(<< a >>) = << >>
  OBVIOUS
<1>4. Tail(<< a, b >>) = << b >>
  OBVIOUS
<1>5. << >> \o << >> = << >>
  OBVIOUS
<1>6. << a >> \o << >> = << a >>
  OBVIOUS
<1>7. << >> \o << b >> = << b >>
  OBVIOUS
<1>8. << a >> \o << b >> = << a, b >>
  <2> DEFINE S == {a, b}
             t == << a >> \o << b >>
  <2>1. << a >> \in Seq(S) /\ << b >> \in Seq(S) /\ << a, b >> \in Seq(S) /\ Len(<< a >>) = 1 /\ Len(<< b >>) = 1
        /\ Len(<< a, b >>) = 2 /\ << a >>[1] = a /\ << b >>[1] = b /\ << a, b >>[1] = a /\ << a, b >>[2] = b
        /\ a \in S /\ b \in S
    OBVIOUS
  <2> HIDE DEF S
  <2>2. t \in Seq(S) /\ Len(t) = 2 /\ t[1] = a /\ t[2] = b
    BY <2>1, ConcatProperties
  <2> HIDE DEF t
  <2>3. t = << a, b >>
    BY <2>1, <2>2, SeqEqual
  <2> QED
    BY <2>3 DEF t
<1> QED
  BY <1>1, <1>2, <1>3, <1>4, <1>5, <1>6, <1>7, <1>8

(* The words of a packet's line lie within the words of the packet.        *)
LEMMA WordsWithin ==
    ASSUME NEW l \in Int, NEW b \in Nat, NEW k \in Nat, l \in b .. b + k - 1, NEW i \in Slots
    PROVE  (l - b) * LineWords + i + 1 \in 1 .. k * LineWords
<1> DEFINE w == LineWords
           m == l - b
<1>1. w \in Nat \ {0} /\ m \in Int /\ 0 <= m /\ m < k /\ i \in 0 .. w - 1
  BY Widths DEF Slots
<1> HIDE DEF w, m
<1>2. 0 * w <= m * w /\ m * w + w <= k * w
  BY <1>1, MultiplesOrdered
<1>3. m * w \in Int /\ k * w \in Int /\ 0 * w = 0
  BY <1>1
<1> DEFINE x == m * w
           y == k * w
<1> HIDE DEF x, y
<1>4. x + i + 1 \in 1 .. y
  BY <1>1, <1>2, <1>3 DEF x, y
<1> QED
  BY <1>4 DEF x, y, m, w

-----------------------------------------------------------------------------
(* Steps that leave the transfer alone.                                    *)

Transfer == Counts /\ Acquired /\ Serves /\ Progress /\ Reading /\ Writing /\ Stores

LEMMA TransferKept ==
    ASSUME Transfer, UNCHANGED << state, pos, addr, packet_ram, rxVars, memVars, txVars >>
    PROVE  Transfer'
<1>1. Counts' /\ Serves' /\ Progress'
  BY DEF Transfer, Counts, Serves, Progress, Done, Idle, AnswerSize, rxVars, memVars, txVars
<1>2. Acquired'
  BY DEF Transfer, Acquired, Done, rxVars, memVars
<1>3. Reading'
  BY DEF Transfer, Reading, Done, Idle, rxVars, memVars, txVars
<1>4. Writing'
  BY DEF Transfer, Writing, WordsAt, Done, Idle, rxVars, memVars
<1>5. Stores'
  BY DEF Transfer, Stores, Written, Stored, WordsAt, Done, Idle, rxVars, memVars, txVars
<1> QED
  BY <1>1, <1>2, <1>3, <1>4, <1>5 DEF Transfer

(* The state moves on in the course of a register access.                  *)
LEMMA TransferOfAccess ==
    ASSUME Transfer, TypeOK, Registers, state \in {"state_pcr_req", "state_pcr_resp"},
           state' \in {"state_pcr_req", "state_pcr_resp", "state_tx"},
           UNCHANGED << pos, addr, packet_ram, rxVars, memVars, txVars >>
    PROVE  Transfer'
<1>1. packet.cmd \in {"readcr", "writecr"} /\ ~Idle /\ ~Idle' /\ packet' = packet /\ packet \in Packets
  BY DEF Transfer, Serves, Idle, Registers, rxVars
<1>2. Counts'
  BY <1>1, OtherPacket DEF Transfer, Counts, Idle, AnswerSize, IsMem, IsWrite, rxVars, txVars
<1>3. acq_q = << >> /\ pending = << >> /\ ~mem_acked
  BY DEF Transfer, Acquired
<1>4. Acquired' /\ Serves' /\ Progress' /\ Reading' /\ Writing'
  BY <1>1, <1>3 DEF Acquired, Serves, Progress, Reading, Writing, IsMem, Idle, memVars
<1>5. Stores'
  BY <1>1 DEF Transfer, Stores, memVars, txVars
<1> QED
  BY <1>2, <1>4, <1>5 DEF Transfer

-----------------------------------------------------------------------------
(* The steps of the tile.                                                  *)

LEMMA CoreFromhostStep ==
    ASSUME HostInv, CoreFromhost
    PROVE  HostInv'
<1>1. TypeOK' /\ Registers'
  BY Widths DEF CoreFromhost, HostInv, TypeOK, Registers, Idle, memVars, rxVars, crVars, txVars
<1>2. Transfer'
  BY TransferKept DEF HostInv, Transfer, CoreFromhost
<1>3. Access' /\ Mailbox'
  BY Widths DEF CoreFromhost, HostInv, Access, Mailbox, OnItsWay, Idle, rxVars, crVars, txVars
<1> QED
  BY <1>1, <1>2, <1>3 DEF HostInv, Transfer

LEMMA CoreTohostStep ==
    ASSUME HostInv, NEW v \in Values, CoreTohost(v)
    PROVE  HostInv'
<1>1. TypeOK'
  BY DEF CoreTohost, HostInv, TypeOK, memVars, rxVars, crVars, txVars
<1>2. Registers'
  BY DEF CoreTohost, HostInv, Registers, Idle, memVars, rxVars, crVars, txVars
<1>3. Transfer'
  BY TransferKept DEF HostInv, Transfer, CoreTohost
<1>4. Access'
  BY DEF CoreTohost, HostInv, Access, Idle, rxVars, crVars
<1>5. Mailbox'
  <2>1. OnItsWay' <=> OnItsWay
    BY DEF CoreTohost, OnItsWay, rxVars, crVars, txVars
  <2> QED
    BY <2>1, Appended DEF CoreTohost, HostInv, Mailbox, crVars
<1> QED
  BY <1>1, <1>2, <1>3, <1>4, <1>5 DEF HostInv, Transfer

LEMMA CsrAcceptStep ==
    ASSUME HostInv, CsrAccept
    PROVE  HostInv'
<1>1. Head(pcr_req) \in PcrReq /\ << >> \in Seq(PcrReq) /\ Len(<< >>) = 0
  <2>1. pcr_req \in Seq(PcrReq) /\ pcr_req # << >>
    BY DEF HostInv, TypeOK, CsrAccept
  <2> QED
    BY <2>1, EmptySeq, HeadTailProperties
<1>2. TypeOK'
  BY <1>1 DEF CsrAccept, HostInv, TypeOK, memVars, rxVars, crVars, txVars
<1>3. Registers'
  BY DEF CsrAccept, HostInv, Registers, Idle, memVars, rxVars, crVars, txVars
<1>4. Transfer'
  BY TransferKept DEF HostInv, Transfer, CsrAccept
<1>5. Access'
  BY DEF CsrAccept, HostInv, Access, Idle, rxVars, crVars
<1>6. Mailbox'
  BY DEF CsrAccept, HostInv, Mailbox, OnItsWay, rxVars, crVars, txVars
<1> QED
  BY <1>2, <1>3, <1>4, <1>5, <1>6 DEF HostInv, Transfer

LEMMA CsrFireStep ==
    ASSUME HostInv, CsrFire
    PROVE  HostInv'
<1> DEFINE value == IF csr.bits.reg = "tohost" THEN tohost ELSE fromhost
<1>1. value \in Values /\ csr \in [state : {"idle", "req", "rep"}, bits : PcrReq] /\ csr.state = "req"
  BY DEF HostInv, TypeOK, CsrFire
<1>2. /\ state = "state_pcr_resp" /\ csr.bits.reg = reg /\ csr.bits.rw = (cmd = "writecr")
      /\ csr.bits.rw => csr.bits.data \in Values
      /\ taken = Junk /\ pcr_rep = << >> /\ pcr_req = << >>
  BY <1>1 DEF HostInv, Access
<1>3. /\ csr' = [csr EXCEPT !.state = "rep", !.bits.data = value] /\ taken' = value
      /\ UNCHANGED << state, pos, addr, packet_ram, owed, pcr_req, pcr_rep, pcrReadData, my_reset,
                      memVars, rxVars, txVars >>
  BY DEF CsrFire
<1>4. packet \in Packets /\ packet.cmd \in {"readcr", "writecr"} /\ ~Idle /\ cmd = packet.cmd /\ reg = packet.reg
  BY <1>2 DEF HostInv, Serves, Registers, Idle
<1>5. ~(csr.bits.reg = "tohost" /\ csr.bits.rw)
  BY <1>2, <1>4, OtherPacket
<1>6. tohost' = (IF reg = "tohost" /\ ~my_reset THEN 0 ELSE tohost)
  BY <1>2, <1>5 DEF CsrFire, TohostAfter
<1>7. fromhost' \in Values
  BY <1>1, <1>2 DEF CsrFire, HostInv, TypeOK
<1> HIDE DEF value
<1>8. csr' \in [state : {"idle", "req", "rep"}, bits : PcrReq] /\ csr'.state = "rep" /\ csr'.bits.data = value
  BY <1>1, <1>3 DEF PcrReq
<1>9. TypeOK'
  BY <1>3, <1>6, <1>7, <1>8, Widths DEF HostInv, TypeOK, memVars, rxVars, txVars
<1>10. Registers'
  BY <1>1, <1>3 DEF HostInv, Registers, Idle, memVars, rxVars, txVars
<1>11. Transfer'
  BY <1>3, TransferKept DEF HostInv, Transfer
<1>12. my_reset' => tohost' = 0 /\ fromhost' = 0
  BY <1>3, <1>6 DEF HostInv, Access, CsrFire
<1>13. Access'
  BY <1>1, <1>2, <1>3, <1>4, <1>8, <1>12 DEF HostInv, Access, Idle, IsMem, rxVars
<1>14. Mailbox'
  <2>1. ~OnItsWay /\ sent = 0
    BY <1>2, <1>4 DEF OnItsWay, HostInv, Counts
  <2>2. OnItsWay' <=> (packet.cmd = "readcr" /\ packet.reg = "tohost" /\ value # 0)
    BY <1>1, <1>3, <2>1, Widths DEF OnItsWay, rxVars, txVars
  <2>3. value = IF reg = "tohost" THEN tohost ELSE fromhost
    BY <1>2 DEF value
  <2>4. my_reset => tohost = 0
    BY DEF HostInv, Access
  <2>5. reg = "tohost" => packet.cmd = "readcr"
    BY <1>4, OtherPacket
  <2> QED
    BY <1>3, <1>4, <1>6, <2>1, <2>2, <2>3, <2>4, <2>5 DEF HostInv, Mailbox
<1> QED
  BY <1>9, <1>10, <1>11, <1>13, <1>14 DEF HostInv, Transfer

LEMMA CsrReplyStep ==
    ASSUME HostInv, CsrReply
    PROVE  HostInv'
<1>1. csr.bits.data = taken /\ taken \in Values /\ state = "state_pcr_resp" /\ pcr_req = << >>
  BY DEF HostInv, Access, CsrReply
<1>2. csr' \in [state : {"idle", "req", "rep"}, bits : PcrReq] /\ csr'.state = "idle"
  BY DEF CsrReply, IdleCsr, PcrReq, Regs
<1>3. pcr_rep' = << taken >> /\ << taken >> \in Seq(Values) /\ Len(<< taken >>) = 1
  BY <1>1 DEF CsrReply
<1>4. TypeOK'
  BY <1>2, <1>3 DEF CsrReply, HostInv, TypeOK, memVars, rxVars, crVars, txVars
<1>5. Registers'
  BY DEF CsrReply, HostInv, Registers, Idle, memVars, rxVars, crVars, txVars
<1>6. Transfer'
  BY TransferKept DEF HostInv, Transfer, CsrReply
<1>7. Access'
  BY <1>1, <1>2, <1>3 DEF CsrReply, HostInv, Access, Idle, rxVars, crVars
<1>8. Mailbox'
  BY DEF CsrReply, HostInv, Mailbox, OnItsWay, rxVars, crVars, txVars
<1> QED
  BY <1>4, <1>5, <1>6, <1>7, <1>8 DEF HostInv, Transfer

-----------------------------------------------------------------------------
(* The interface's steps of a register access.                             *)

LEMMA PcrRequestStep ==
    ASSUME HostInv, PcrRequest
    PROVE  HostInv'
<1> DEFINE r == [rw |-> cmd = "writecr", reg |-> reg, data |-> packet_ram[0]]
<1>1. pcr_req' = << r >> /\ state = "state_pcr_req" /\ state' = "state_pcr_resp" /\ reg \in {"tohost", "fromhost"}
  BY DEF PcrRequest
<1>2. r \in PcrReq /\ r.rw = (cmd = "writecr") /\ r.reg = reg /\ r.data = packet_ram[0]
  BY Widths DEF HostInv, TypeOK, PcrReq
<1> HIDE DEF r
<1>3. << r >> \in Seq(PcrReq) /\ Len(<< r >>) = 1 /\ Head(<< r >>) = r
  BY <1>2
<1>4. csr.state = "idle" /\ pcr_rep = << >> /\ taken = Junk /\ ~Idle /\ ~Idle'
  BY <1>1 DEF HostInv, Access, TypeOK, Idle
<1>5. cmd = "writecr" => packet_ram[0] \in Values
  BY <1>1, <1>4 DEF HostInv, Registers, Access
<1>6. TypeOK'
  BY <1>1, <1>2, <1>3 DEF PcrRequest, HostInv, TypeOK, memVars, rxVars, crVars, txVars
<1>7. Registers'
  BY <1>4 DEF PcrRequest, HostInv, Registers, memVars, rxVars, crVars, txVars
<1>8. Transfer'
  BY <1>1, TransferOfAccess DEF HostInv, Transfer, PcrRequest
<1>9. Access'
  BY <1>1, <1>2, <1>3, <1>4, <1>5 DEF PcrRequest, HostInv, Access, Idle, rxVars, crVars
<1>10. Mailbox'
  BY DEF PcrRequest, HostInv, Mailbox, OnItsWay, rxVars, crVars, txVars
<1> QED
  BY <1>6, <1>7, <1>8, <1>9, <1>10 DEF HostInv, Transfer

LEMMA PcrResetStep ==
    ASSUME HostInv, PcrReset
    PROVE  HostInv'
<1>1. state = "state_pcr_req" /\ state' = "state_tx" /\ reg = "reset" /\ pcrReadData' \in {0, 1}
      /\ taken' = pcrReadData' /\ my_reset' \in BOOLEAN
  BY DEF PcrReset, AfterAccess, HostInv, TypeOK
<1>2. csr.state = "idle" /\ pcr_rep = << >> /\ pcr_req = << >> /\ ~Idle /\ ~Idle' /\ packet.reg = "reset"
      /\ packet.cmd \in {"readcr", "writecr"}
  BY <1>1 DEF HostInv, Access, Serves, TypeOK, Idle, Registers
<1>3. \/ my_reset' /\ tohost' = 0 /\ fromhost' = 0 /\ owed' = << >>
      \/ ~my_reset' /\ UNCHANGED << tohost, fromhost, owed >>
  BY DEF PcrReset
<1>4. UNCHANGED << pos, addr, packet_ram, pcr_req, pcr_rep, csr, memVars, rxVars, txVars >>
  BY DEF PcrReset
<1>5. TypeOK'
  BY <1>1, <1>3, <1>4, Widths DEF HostInv, TypeOK, memVars, rxVars, txVars
<1>6. Registers'
  <2>1. owed' \in Seq(Values) /\ taken' \in Values
    BY <1>1, <1>3, Widths, EmptySeq DEF HostInv, Registers
  <2> QED
    BY <1>2, <1>4, <2>1 DEF HostInv, Registers, rxVars, txVars
<1>7. Transfer'
  BY <1>1, <1>4, TransferOfAccess DEF HostInv, Transfer
<1>8. Access'
  BY <1>1, <1>2, <1>3, <1>4, Widths DEF HostInv, Access, IsMem, rxVars
<1>9. Mailbox'
  BY <1>2, <1>3, <1>4 DEF HostInv, Mailbox, OnItsWay, rxVars
<1> QED
  BY <1>5, <1>6, <1>7, <1>8, <1>9 DEF HostInv, Transfer

LEMMA ScrAccessStep ==
    ASSUME HostInv, NEW v \in Values, ScrAccess(v)
    PROVE  HostInv'
<1>1. state = "state_pcr_req" /\ state' = "state_tx" /\ reg = "scr"
  BY DEF ScrAccess, AfterAccess
<1>2. csr.state = "idle" /\ pcr_rep = << >> /\ pcr_req = << >> /\ ~Idle /\ ~Idle' /\ packet.reg = "scr"
      /\ packet.cmd \in {"readcr", "writecr"}
  BY <1>1 DEF HostInv, Access, Serves, TypeOK, Idle, Registers
<1>3. TypeOK'
  BY <1>1 DEF ScrAccess, HostInv, TypeOK, memVars, rxVars, tileVars, txVars
<1>4. Registers'
  BY <1>2 DEF ScrAccess, HostInv, Registers, memVars, rxVars, txVars
<1>5. Transfer'
  BY <1>1, TransferOfAccess DEF HostInv, Transfer, ScrAccess
<1>6. Access'
  BY <1>1, <1>2 DEF ScrAccess, HostInv, Access, IsMem, rxVars, tileVars
<1>7. Mailbox'
  BY <1>2 DEF ScrAccess, HostInv, Mailbox, OnItsWay, rxVars, tileVars
<1> QED
  BY <1>3, <1>4, <1>5, <1>6, <1>7 DEF HostInv, Transfer

LEMMA PcrReplyStep ==
    ASSUME HostInv, PcrReply
    PROVE  HostInv'
<1>1. state = "state_pcr_resp" /\ state' = "state_tx" /\ pcr_rep = << taken >> /\ taken \in Values
      /\ csr.state = "idle" /\ pcr_req = << >>
  BY DEF PcrReply, AfterAccess, HostInv, Access
<1>2. pcrReadData' = taken
  BY <1>1 DEF PcrReply
<1>3. ~Idle /\ ~Idle' /\ << >> \in Seq(Values) /\ Len(<< >>) = 0
  BY <1>1 DEF Idle
<1>4. TypeOK'
  BY <1>1, <1>2, <1>3 DEF PcrReply, HostInv, TypeOK, memVars, rxVars, txVars
<1>5. Registers'
  BY <1>3 DEF PcrReply, HostInv, Registers, memVars, rxVars, txVars
<1>6. Transfer'
  BY <1>1, TransferOfAccess DEF HostInv, Transfer, PcrReply
<1>7. Access'
  BY <1>1, <1>2, <1>3 DEF PcrReply, HostInv, Access, rxVars
<1>8. Mailbox'
  BY DEF PcrReply, HostInv, Mailbox, OnItsWay, rxVars, txVars
<1> QED
  BY <1>4, <1>5, <1>6, <1>7, <1>8 DEF HostInv, Transfer

-----------------------------------------------------------------------------
(* Steps of a memory transfer.                                             *)

LEMMA AccessKept ==
    ASSUME Access, Mailbox, ~Idle, IsMem(packet), state \notin {"state_pcr_req", "state_pcr_resp"},
           state' \notin {"state_pcr_req", "state_pcr_resp"},
           UNCHANGED << cmd, size, seqno, reg, packet, tileVars, crVars, owed >>
    PROVE  Access' /\ Mailbox'
<1>1. packet.cmd \notin {"readcr", "writecr"} /\ taken = Junk
  BY DEF Access, IsMem
<1>2. ~OnItsWay /\ ~OnItsWay'
  BY <1>1 DEF OnItsWay
<1>3. Mailbox'
  BY <1>2 DEF Mailbox, tileVars
<1>4. Access'
  BY <1>1 DEF Access, IsMem, tileVars, crVars
<1> QED
  BY <1>3, <1>4

(* The line under way is one of the packet's and of memory's.              *)
LEMMA LineUnderWay ==
    ASSUME HostInv, ~Idle, IsMem(packet), state # "state_tx"
    PROVE  /\ Base(packet) \in Nat /\ Done \in Nat /\ pos \in Nat \ {0} /\ Total(packet) \in Nat
           /\ Base(packet) + Done \in Lines /\ Base(packet) + Total(packet) <= NumLines
           /\ addr = (Base(packet) + Done) * LineWords
<1>1. packet \in Packets
  BY DEF HostInv, Registers
<1>2. Base(packet) \in Nat /\ Total(packet) \in Nat /\ Base(packet) + Total(packet) <= NumLines
  BY <1>1, MemPacket
<1>3. pos \in Nat \ {0} /\ Done \in Nat /\ addr = (Base(packet) + Done) * LineWords
  BY DEF HostInv, Progress
<1> QED
  BY <1>2, <1>3, Widths DEF Lines, Done

LEMMA MemRequestStep ==
    ASSUME HostInv, MemRequest
    PROVE  HostInv'
<1> DEFINE a == [write |-> cmd = "writemem", line |-> Base(packet) + Done]
<1>1. /\ \/ state = "state_mem_rreq" /\ state' = "state_mem_rresp" /\ packet.cmd = "readmem"
         \/ state = "state_mem_wreq" /\ state' = "state_mem_wresp" /\ packet.cmd = "writemem"
      /\ ~Idle /\ ~Idle' /\ IsMem(packet) /\ packet \in Packets
  BY DEF MemRequest, HostInv, Serves, Idle, IsMem, Registers
<1>2. /\ Base(packet) \in Nat /\ Done \in Nat /\ Base(packet) + Done \in Lines
      /\ addr = (Base(packet) + Done) * LineWords
  BY <1>1, LineUnderWay
<1>3. addr \div LineWords = Base(packet) + Done
  <2> DEFINE q == Base(packet) + Done
  <2>1. q \in Int /\ 0 \in 0 .. LineWords - 1 /\ LineWords \in Nat \ {0} /\ addr = q * LineWords + 0
    BY <1>2, Widths
  <2> HIDE DEF q
  <2>2. (q * LineWords + 0) \div LineWords = q
    BY <2>1, QuotientIs, Zenon
  <2> QED
    BY <2>1, <2>2 DEF q
<1>4. acq_q' = << a >> /\ a \in [write : BOOLEAN, line : Lines]
  BY <1>2, <1>3 DEF MemRequest
<1>5. pending = << >> /\ ~mem_acked /\ acq_q = << >>
  BY <1>1 DEF HostInv, Acquired, MemRequest
<1>6. UNCHANGED << pos, addr, packet_ram, owed, mem, pending, mem_acked, rxVars, tileVars, crVars, txVars >>
  BY DEF MemRequest
<1>7. Done' = Done
  BY <1>6 DEF Done, rxVars
<1> HIDE DEF a
<1>8. << a >> \in Seq([write : BOOLEAN, line : Lines]) /\ Len(<< a >>) = 1
  BY <1>4
<1>9. TypeOK'
  BY <1>1, <1>4, <1>6, <1>8 DEF HostInv, TypeOK, rxVars, tileVars, crVars, txVars
<1>10. Registers'
  BY <1>1, <1>6 DEF HostInv, Registers, rxVars, crVars, txVars
<1>11. Access' /\ Mailbox'
  BY <1>1, <1>6, AccessKept DEF HostInv, rxVars
<1>12. Counts' /\ Serves' /\ Progress'
  BY <1>1, <1>6, <1>7 DEF HostInv, Counts, Serves, Progress, AnswerSize, IsMem, IsWrite, rxVars, txVars
<1>13. Acquired'
  BY <1>1, <1>4, <1>5, <1>6, <1>7 DEF Acquired, a, rxVars
<1>14. Reading' /\ Writing'
  BY <1>1, <1>6, <1>7 DEF HostInv, Reading, Writing, WordsAt, rxVars, txVars
<1>15. Stores'
  BY <1>1, <1>5, <1>6, <1>7 DEF HostInv, Stores, Stored, Written, WordsAt, rxVars, txVars
<1> QED
  BY <1>9, <1>10, <1>11, <1>12, <1>13, <1>14, <1>15 DEF HostInv

LEMMA MemAcceptStep ==
    ASSUME HostInv, MemAccept
    PROVE  HostInv'
<1> DEFINE a == [write |-> cmd = "writemem", line |-> Base(packet) + Done]
           l == Base(packet) + Done
<1>1. state \in {"state_mem_rresp", "state_mem_wresp"} /\ acq_q = << a >> /\ pending = << >> /\ ~mem_acked
  BY DEF MemAccept, HostInv, Acquired
<1>2. /\ \/ state = "state_mem_rresp" /\ packet.cmd = "readmem"
         \/ state = "state_mem_wresp" /\ packet.cmd = "writemem"
      /\ ~Idle /\ ~Idle' /\ IsMem(packet) /\ packet \in Packets /\ cmd = packet.cmd
  BY <1>1 DEF MemAccept, HostInv, Serves, Idle, IsMem, Registers
<1>3. Base(packet) \in Nat /\ Done \in Nat /\ l \in Lines /\ l \in Int
  BY <1>1, <1>2, LineUnderWay
<1>4. /\ acq_q' = << >> /\ pending' = << a >>
      /\ mem' = IF cmd = "writemem" THEN [mem EXCEPT ![l] = packet_ram] ELSE mem
      /\ UNCHANGED << state, pos, addr, packet_ram, owed, mem_acked, rxVars, tileVars, crVars, txVars >>
  <2>1. a.write = (cmd = "writemem") /\ a.line = l
    OBVIOUS
  <2> HIDE DEF a, l
  <2>2. Head(acq_q) = a
    BY <1>1
  <2> QED
    BY <1>1, <2>1, <2>2 DEF MemAccept
<1>5. Done' = Done /\ a \in [write : BOOLEAN, line : Lines]
  BY <1>3, <1>4 DEF Done, rxVars
<1> HIDE DEF a
<1>6. << a >> \in Seq([write : BOOLEAN, line : Lines]) /\ Len(<< a >>) = 1 /\ << a >> # << >>
      /\ << >> \in Seq([write : BOOLEAN, line : Lines]) /\ Len(<< >>) = 0
  BY <1>5
<1>7. cmd = "writemem" => mem = Written(Done) /\ packet_ram = WordsAt(l) /\ Len(words) = (Done + 1) * LineWords
  BY <1>1, <1>2 DEF HostInv, Stores, Stored, Writing
<1>8. cmd = "writemem" => packet_ram \in [Slots -> Values]
  <2> SUFFICES ASSUME cmd = "writemem", NEW i \in Slots PROVE packet_ram[i] \in Values
    BY DEF HostInv, TypeOK
  <2> DEFINE j == (l - Base(packet)) * LineWords + i + 1
  <2>1. j \in 1 .. (Done + 1) * LineWords
    <3>1. l \in Base(packet) .. Base(packet) + (Done + 1) - 1 /\ Done + 1 \in Nat
      BY <1>3
    <3> QED
      BY <3>1, <1>3, WordsWithin
  <2>2. packet_ram[i] = words[j]
    BY <1>7 DEF WordsAt
  <2> HIDE DEF j
  <2> QED
    BY <2>1, <2>2, <1>7, ElementOfSeq DEF HostInv, Registers
<1>9. TypeOK'
  <2>1. mem' \in [Lines -> [Slots -> Values]]
    BY <1>3, <1>4, <1>8 DEF HostInv, TypeOK
  <2> QED
    BY <1>4, <1>6, <2>1 DEF HostInv, TypeOK, rxVars, tileVars, crVars, txVars
<1>10. Registers'
  BY <1>2, <1>4 DEF HostInv, Registers, rxVars, crVars, txVars
<1>11. Access' /\ Mailbox'
  BY <1>2, <1>4, AccessKept DEF HostInv, rxVars
<1>12. Counts' /\ Serves' /\ Progress'
  BY <1>2, <1>4, <1>5 DEF HostInv, Counts, Serves, Progress, AnswerSize, rxVars, txVars
<1>13. Acquired'
  BY <1>1, <1>4, <1>5 DEF Acquired, a, rxVars
<1>14. Reading' /\ Writing'
  BY <1>2, <1>4, <1>5 DEF HostInv, Reading, Writing, WordsAt, rxVars, txVars
<1>15. Stores'
  <2>1. CASE packet.cmd = "readmem"
    BY <1>2, <1>4, <2>1 DEF HostInv, Stores, rxVars, txVars
  <2>2. CASE packet.cmd = "writemem"
    <3>1. Stored' /\ Done' = Done
      BY <1>4, <1>5, <1>6 DEF Stored
    <3>2. Written(Done + 1)' = Written(Done + 1)
      BY <1>4, <1>5 DEF Written, WordsAt, rxVars, txVars
    <3>3. mem' = [mem EXCEPT ![l] = WordsAt(l)] /\ mem = Written(Done)
      BY <1>2, <1>4, <1>7, <2>2
    <3>4. [mem EXCEPT ![l] = WordsAt(l)] = Written(Done + 1)
      <4>1. ASSUME NEW x \in Lines
            PROVE  [Written(Done) EXCEPT ![l] = WordsAt(l)][x] = Written(Done + 1)[x]
        <5>1. x \in Int
          BY Widths DEF Lines
        <5>2. (x \in Base(packet) .. Base(packet) + (Done + 1) - 1)
              <=> (x \in Base(packet) .. Base(packet) + Done - 1 \/ x = l)
          BY <1>3, <5>1
        <5> QED
          BY <1>3, <2>2, <5>2 DEF Written
      <4> QED
        BY <3>3, <4>1 DEF Written
    <3>5. mem' = Written(Done + 1)'
      BY <3>2, <3>3, <3>4
    <3> HIDE DEF l
    <3> QED
      BY <1>2, <1>4, <2>2, <3>1, <3>5 DEF Stores, rxVars
  <2> QED
    BY <1>2, <2>1, <2>2
<1> QED
  BY <1>9, <1>10, <1>11, <1>12, <1>13, <1>14, <1>15 DEF HostInv

LEMMA MemGrantStep ==
    ASSUME HostInv, MemGrant
    PROVE  HostInv'
<1> DEFINE l == Base(packet) + Done
<1>1. /\ state \in {"state_mem_rresp", "state_mem_wresp"} /\ acq_q = << >> /\ ~mem_acked
      /\ pending = << [write |-> cmd = "writemem", line |-> l] >>
  BY DEF MemGrant, HostInv, Acquired
<1>2. /\ \/ state = "state_mem_rresp" /\ packet.cmd = "readmem" /\ state' = "state_mem_finish"
         \/ state = "state_mem_wresp" /\ packet.cmd = "writemem" /\ state' = state
      /\ ~Idle /\ ~Idle' /\ IsMem(packet) /\ packet \in Packets /\ cmd = packet.cmd
  BY <1>1 DEF MemGrant, HostInv, Serves, Idle, IsMem, Registers
<1>3. Base(packet) \in Nat /\ Done \in Nat /\ l \in Lines
  BY <1>1, <1>2, LineUnderWay
<1>4. /\ pending' = << >> /\ mem_acked' = (state = "state_mem_wresp")
      /\ packet_ram' = IF state = "state_mem_rresp" THEN mem[l] ELSE packet_ram
      /\ UNCHANGED << pos, addr, owed, acq_q, mem, rxVars, tileVars, crVars, txVars >>
  <2> DEFINE a == [write |-> cmd = "writemem", line |-> l]
  <2>1. a.line = l /\ pending = << a >>
    BY <1>1
  <2> HIDE DEF a, l
  <2>2. Head(pending) = a
    BY <2>1
  <2> QED
    BY <1>1, <2>1, <2>2 DEF MemGrant, AckedByGrant
<1>5. Done' = Done
  BY <1>4 DEF Done, rxVars
<1>6. TypeOK'
  <2>1. packet_ram' \in [Slots -> Values \cup {Junk}] /\ << >> \in Seq([write : BOOLEAN, line : Lines]) /\ Len(<< >>) = 0
    BY <1>3, <1>4 DEF HostInv, TypeOK
  <2> QED
    BY <1>2, <1>4, <2>1 DEF HostInv, TypeOK, rxVars, tileVars, crVars, txVars
<1>7. Registers'
  BY <1>2, <1>4 DEF HostInv, Registers, rxVars, crVars, txVars
<1>8. Access' /\ Mailbox'
  BY <1>2, <1>4, AccessKept DEF HostInv, rxVars
<1>9. Counts' /\ Serves' /\ Progress'
  BY <1>2, <1>4, <1>5 DEF HostInv, Counts, Serves, Progress, AnswerSize, IsMem, rxVars, txVars
<1>10. Acquired'
  BY <1>1, <1>2, <1>4 DEF Acquired
<1>11. Reading'
  <2>1. packet.cmd = "readmem" => mem = due
    BY DEF HostInv, Stores
  <2> QED
    BY <1>2, <1>4, <1>5, <2>1 DEF HostInv, Reading, rxVars, txVars
<1>12. Writing'
  BY <1>2, <1>4, <1>5 DEF HostInv, Writing, WordsAt, rxVars
<1>13. Stores'
  <2>1. packet.cmd = "writemem" => Stored /\ Stored'
    BY <1>1, <1>2, <1>4 DEF Stored
  <2>2. Written(Done + 1)' = Written(Done + 1)
    BY <1>4, <1>5 DEF Written, WordsAt, rxVars, txVars
  <2> QED
    BY <1>2, <1>4, <1>5, <2>1, <2>2 DEF HostInv, Stores, rxVars, txVars
<1> QED
  BY <1>6, <1>7, <1>8, <1>9, <1>10, <1>11, <1>12, <1>13 DEF HostInv

LEMMA MemWriteAckedStep ==
    ASSUME HostInv, MemWriteAcked
    PROVE  HostInv'
<1>1. /\ state = "state_mem_wresp" /\ state' = "state_mem_finish" /\ packet.cmd = "writemem"
      /\ ~Idle /\ ~Idle' /\ IsMem(packet) /\ packet \in Packets
      /\ mem_acked /\ ~mem_acked' /\ acq_q = << >> /\ pending = << >>
  BY DEF MemWriteAcked, HostInv, Acquired, Serves, Idle, IsMem, Registers
<1>2. UNCHANGED << pos, addr, packet_ram, owed, acq_q, mem, pending, rxVars, tileVars, crVars, txVars >>
  BY DEF MemWriteAcked
<1>3. Done' = Done
  BY <1>2 DEF Done, rxVars
<1>4. TypeOK'
  BY <1>1, <1>2 DEF MemWriteAcked, HostInv, TypeOK, rxVars, tileVars, crVars, txVars
<1>5. Registers'
  BY <1>1, <1>2 DEF HostInv, Registers, rxVars, crVars, txVars
<1>6. Access' /\ Mailbox'
  BY <1>1, <1>2, AccessKept DEF HostInv, rxVars
<1>7. Counts' /\ Serves' /\ Progress'
  BY <1>1, <1>2, <1>3 DEF HostInv, Counts, Serves, Progress, AnswerSize, IsMem, rxVars, txVars
<1>8. Acquired' /\ Reading' /\ Writing'
  BY <1>1, <1>2, <1>3 DEF HostInv, Acquired, Reading, Writing, WordsAt, rxVars
<1>9. Stores'
  <2>1. Stored /\ Stored'
    BY <1>1 DEF Stored
  <2>2. Written(Done + 1)' = Written(Done + 1)
    BY <1>2, <1>3 DEF Written, WordsAt, rxVars, txVars
  <2> QED
    BY <1>1, <1>2, <1>3, <2>1, <2>2 DEF HostInv, Stores, rxVars
<1> QED
  BY <1>4, <1>5, <1>6, <1>7, <1>8, <1>9 DEF HostInv

LEMMA MemFinishStep ==
    ASSUME HostInv, MemFinish
    PROVE  HostInv'
<1>1. /\ state = "state_mem_finish" /\ ~Idle /\ IsMem(packet) /\ packet \in Packets /\ cmd = packet.cmd
      /\ acq_q = << >> /\ pending = << >> /\ ~mem_acked /\ packet.cmd \in {"readmem", "writemem"}
  BY DEF MemFinish, HostInv, Acquired, Serves, Idle, IsMem, Registers
<1>2. /\ Base(packet) \in Nat /\ Done \in Nat /\ pos \in Nat \ {0} /\ Total(packet) \in Nat
      /\ addr = (Base(packet) + Done) * LineWords /\ Base(packet) + Total(packet) <= NumLines
  BY <1>1, LineUnderWay
<1>3. /\ state' = IF cmd = "readmem" \/ pos = 1 THEN "state_tx" ELSE "state_rx"
      /\ pos' = pos - 1 /\ addr' = addr + LineWords
      /\ UNCHANGED << packet_ram, owed, memVars, rxVars, tileVars, crVars, txVars >>
  BY DEF MemFinish, LastLine
<1>4. Done' = Done + 1 /\ Done + 1 \in Nat
  BY <1>2, <1>3 DEF Done, rxVars
<1>5. addr' = (Base(packet) + (Done + 1)) * LineWords
  <2> DEFINE q == Base(packet) + Done
             w == LineWords
  <2>1. q \in Nat /\ w \in Nat /\ addr = q * w /\ Base(packet) + (Done + 1) = q + 1 /\ addr' = addr + w
    BY <1>2, <1>3, Widths
  <2> HIDE DEF q, w
  <2>2. q * w + w = (q + 1) * w
    BY <2>1
  <2> QED
    BY <2>1, <2>2 DEF w
<1>6. rx_word_count = Len(words) + 1 /\ Len(words) \in Nat /\ ~Idle'
  BY <1>1, <1>3 DEF HostInv, Counts, Registers, Idle, rxVars
<1>7. TypeOK'
  <2>1. pos' \in 0 .. NumLines /\ addr' \in Nat
    <3>1. addr \in Nat /\ pos \in 0 .. NumLines /\ pos # 0
      BY <1>2 DEF HostInv, TypeOK
    <3> QED
      BY <1>3, <3>1, Widths
  <2>2. state' \in {"state_rx", "state_tx"}
    BY <1>3
  <2> QED
    BY <1>3, <2>1, <2>2 DEF HostInv, TypeOK, memVars, rxVars, tileVars, crVars, txVars
<1>8. Registers'
  BY <1>1, <1>3 DEF HostInv, Registers, rxVars, crVars, txVars
<1>9. Access' /\ Mailbox'
  BY <1>1, <1>3, AccessKept DEF HostInv, rxVars
<1>10. Serves' /\ Progress'
  BY <1>1, <1>2, <1>3, <1>4, <1>5 DEF Serves, Progress, IsMem, IsWrite, rxVars
<1>11. Counts'
  BY <1>1, <1>3, <1>6 DEF HostInv, Counts, rxVars, txVars
<1>12. Acquired'
  BY <1>1, <1>3 DEF Acquired, memVars
<1>13. Reading'
  <2> SUFFICES ASSUME packet.cmd = "readmem" PROVE Reading'
    BY <1>3 DEF Reading, rxVars
  <2> DEFINE d == Done
             w == LineWords
             b == Base(packet)
  <2>1. /\ tx_word_count = (IF d = 0 THEN 0 ELSE d * w + 1) /\ packet_ram = due[b + d]
        /\ d \in Nat /\ w \in Nat \ {0} /\ b \in Nat
    BY <1>1, <1>2, Widths DEF HostInv, Reading
  <2>2. state' = "state_tx" /\ tx_word_count' = tx_word_count /\ packet_ram' = due'[b + (d + 1) - 1]
        /\ Base(packet)' = b /\ Done' = d + 1
    <3>1. b + d = b + (d + 1) - 1
      BY <2>1
    <3>2. packet_ram' = packet_ram /\ due' = due
      BY <1>3 DEF txVars
    <3> QED
      BY <1>1, <1>3, <1>4, <2>1, <3>1, <3>2 DEF Base, rxVars, txVars
  <2> HIDE DEF d, w, b
  <2>3. \/ d + 1 = 1 /\ tx_word_count = 0
        \/ tx_word_count \in (d + 1 - 1) * w + 1 .. (d + 1) * w
    <3>1. CASE d = 0
      BY <2>1, <3>1
    <3>2. CASE d # 0
      <4>1. d * w \in Nat /\ (d + 1) * w = d * w + w /\ d + 1 - 1 = d
        BY <2>1
      <4>2. d * w + 1 \in d * w + 1 .. d * w + w
        BY <2>1, <4>1
      <4> QED
        BY <2>1, <3>2, <4>1, <4>2
    <3> QED
      BY <3>1, <3>2
  <2> QED
    BY <1>4, <2>1, <2>2, <2>3 DEF Reading, w, d
<1>14. Writing'
  <2> SUFFICES ASSUME packet.cmd = "writemem" PROVE Writing'
    BY <1>3 DEF Writing, rxVars
  <2> DEFINE n == (Done + 1) * LineWords
  <2>1. Len(words) = n /\ n \in Int
    BY <1>1, <1>2, <1>6 DEF HostInv, Writing
  <2>2. state' = (IF pos = 1 THEN "state_tx" ELSE "state_rx") /\ pos' = pos - 1 /\ words' = words
    BY <1>1, <1>3 DEF rxVars
  <2>3. Len(words)' = n /\ Done' * LineWords = n
    BY <1>4, <2>1, <2>2
  <2> HIDE DEF n
  <2>4. n \in n .. n + LineWords - 1 /\ \A i \in Slots : ~(i < n - n)
    BY <2>1, Widths DEF Slots
  <2> QED
    BY <2>2, <2>3, <2>4 DEF Writing
<1>15. Stores'
  <2>1. packet.cmd = "writemem" => Stored /\ ~Stored'
    BY <1>1, <1>3 DEF Stored, memVars
  <2>2. Written(Done)' = Written(Done + 1)
    BY <1>3, <1>4 DEF Written, WordsAt, rxVars, txVars
  <2> QED
    BY <1>1, <1>3, <1>4, <1>6, <2>1, <2>2 DEF HostInv, Stores, rxVars, memVars, txVars
<1> QED
  BY <1>7, <1>8, <1>9, <1>10, <1>11, <1>12, <1>13, <1>14, <1>15 DEF HostInv

-----------------------------------------------------------------------------
(* Receiving.                                                              *)

LEMMA RxHeaderStep ==
    ASSUME HostInv, NEW p \in Packets, RxHeader(p)
    PROVE  HostInv'
<1>1. /\ state = "state_rx" /\ Idle /\ ~Idle' /\ acq_q = << >> /\ pending = << >> /\ ~mem_acked
      /\ pcr_req = << >> /\ csr.state = "idle" /\ pcr_rep = << >> /\ tx_word_count = 0 /\ mem = due
      /\ sent = AnswerSize + 1
  BY DEF RxHeader, HostInv, Idle, Acquired, Access, Counts, Stores, TypeOK
<1>2. /\ p.cmd \in Cmds /\ p.reg \in Regs /\ p.seqno \in Nat /\ p.addr \in Nat /\ p.size \in Nat
      /\ ~IsMem(p) => p.size = 1 /\ Total(p) = 0
  BY OtherPacket
<1>3. IsMem(p) => Total(p) \in Nat \ {0} /\ Total(p) <= NumLines /\ p.addr = (Base(p) + 0) * LineWords
  <2> SUFFICES ASSUME IsMem(p) PROVE Total(p) \in Nat \ {0} /\ Total(p) <= NumLines
                                     /\ p.addr = (Base(p) + 0) * LineWords
    OBVIOUS
  <2>1. /\ Base(p) \in Nat /\ Total(p) \in Nat \ {0} /\ Base(p) + Total(p) <= NumLines
        /\ p.addr = Base(p) * LineWords
    BY MemPacket
  <2>2. Base(p) + 0 = Base(p)
    BY <2>1
  <2> QED
    BY <2>1, <2>2, Widths
<1>4. /\ state' = IF IsWrite(p) THEN "state_rx" ELSE AfterRx(p.cmd)
      /\ packet' = p /\ words' = << >> /\ sent' = 0 /\ taken' = Junk /\ rx_word_count' = 1
      /\ cmd' = p.cmd /\ size' = p.size /\ seqno' = p.seqno /\ reg' = p.reg
      /\ pos' = Total(p) /\ addr' = p.addr
      /\ packet_ram' = [packet_ram EXCEPT ![Place(0)] = Junk]
      /\ UNCHANGED << tx_word_count, due, owed, memVars, tileVars, pcrReadData, my_reset >>
  BY <1>1 DEF RxHeader, Total
<1>5. \/ p.cmd = "readmem" /\ state' = "state_mem_rreq"
      \/ p.cmd = "writemem" /\ state' = "state_rx"
      \/ p.cmd = "readcr" /\ state' = "state_pcr_req"
      \/ p.cmd = "writecr" /\ state' = "state_rx"
      \/ p.cmd = "other" /\ state' = "state_tx"
  BY <1>2, <1>4 DEF Cmds, IsWrite, AfterRx
<1>6. Done' = 0 /\ Base(packet)' = Base(p) /\ Total(p) \in Nat
  BY <1>2, <1>3, <1>4 DEF Done, Base, Total
<1>7. TypeOK'
  <2>1. state' \in {"state_mem_rreq", "state_rx", "state_pcr_req", "state_tx"}
    BY <1>5
  <2>2. pos' \in 0 .. NumLines
    BY <1>2, <1>3, <1>4, Widths
  <2>3. packet_ram' \in [Slots -> Values \cup {Junk}]
    BY <1>4 DEF HostInv, TypeOK
  <2>4. rx_word_count' \in 0 .. NumLines * LineWords + 1
    BY <1>4, Widths
  <2> QED
    BY <1>2, <1>4, <2>1, <2>2, <2>3, <2>4 DEF HostInv, TypeOK, memVars, tileVars
<1>8. Registers'
  BY <1>4, EmptySeq DEF HostInv, Registers
<1>9. Counts'
  <2>1. Len(words') = 0
    BY <1>4
  <2> QED
    BY <1>1, <1>2, <1>4, <1>5, <2>1 DEF Counts, AnswerSize, IsWrite, IsMem
<1>10. Acquired' /\ Serves'
  BY <1>1, <1>4, <1>5 DEF Acquired, Serves, IsMem, IsWrite, memVars
<1>11. Progress'
  BY <1>3, <1>4, <1>6 DEF Progress, Done
<1>12. Reading'
  BY <1>1, <1>4, <1>5, <1>6 DEF Reading
<1>13. Writing'
  <2>1. Len(words') = 0 /\ 0 * LineWords = 0 /\ 0 \in 0 .. 0 + LineWords - 1 /\ \A i \in Slots : ~(i < 0 - 0)
    BY <1>4, Widths DEF Slots
  <2> QED
    BY <1>4, <1>5, <1>6, <2>1 DEF Writing
<1>14. Stores'
  <2>1. ~Stored'
    BY <1>1, <1>4, <1>5 DEF Stored, memVars
  <2>2. Written(Done)' = due
    <3>1. \A l \in Lines : ~(l \in Base(p) .. Base(p) + 0 - 1)
      <4>1. Base(p) \in Int
        BY <1>2, Widths DEF Base
      <4> QED
        BY <4>1, Widths DEF Lines
    <3>2. due = [l \in Lines |-> due[l]]
      BY DEF HostInv, Registers
    <3> QED
      BY <1>4, <1>6, <3>1, <3>2 DEF Written
  <2> QED
    BY <1>1, <1>4, <2>1, <2>2 DEF Stores, memVars
<1>15. Access'
  <2>1. p.cmd = "writecr" => Len(words') = 0
    BY <1>4
  <2> QED
    BY <1>1, <1>4, <1>5, <2>1 DEF HostInv, Access, tileVars
<1>16. Mailbox'
  <2>1. ~OnItsWay
    BY <1>1, OtherPacket DEF OnItsWay, HostInv, Registers, NoPacket, AnswerSize, IsMem
  <2>2. ~OnItsWay'
    BY <1>4 DEF OnItsWay
  <2> QED
    BY <1>4, <2>1, <2>2 DEF HostInv, Mailbox, tileVars
<1> QED
  BY <1>7, <1>8, <1>9, <1>10, <1>11, <1>12, <1>13, <1>14, <1>15, <1>16 DEF HostInv

(* Where word n of a line falls in packet_ram.                             *)
LEMMA PlaceIs ==
    ASSUME NEW q \in Int, NEW r \in Slots
    PROVE  Place(q * LineWords + r + 1) = r
<1> DEFINE w == LineWords
           x == q * w
<1>1. w \in Nat \ {0} /\ r \in 0 .. w - 1
  BY Widths DEF Slots
<1>2. x \in Int
  BY <1>1
<1>3. (x + r) % w = r
  BY <1>1, QuotientIs, Zenon
<1> HIDE DEF x
<1>4. x + r + 1 - 1 = x + r
  BY <1>1, <1>2
<1>5. Place(x + r + 1) = (x + r + 1 - 1) % w
  BY <1>1, <1>2 DEF Place
<1> QED
  BY <1>3, <1>4, <1>5 DEF x

(* A word of a register packet.                                            *)
LEMMA RxRegisterStep ==
    ASSUME HostInv, NEW v \in Values, RxData(v), packet.cmd = "writecr"
    PROVE  HostInv'
<1>1. /\ state = "state_rx" /\ ~Idle /\ acq_q = << >> /\ pending = << >> /\ ~mem_acked
      /\ pcr_req = << >> /\ csr.state = "idle" /\ pcr_rep = << >> /\ tx_word_count = 0 /\ mem = due
      /\ sent = 0 /\ Len(words) = 0 /\ rx_word_count = 1 /\ packet \in Packets /\ size = 1 /\ taken = Junk
      /\ cmd = "writecr" /\ words = << >>
  <2>1. state = "state_rx" /\ ~Idle
    BY DEF RxData, Idle
  <2>2. packet \in Packets /\ size = 1 /\ cmd = "writecr" /\ words \in Seq(Values)
    BY <2>1, OtherPacket DEF HostInv, Registers, IsMem
  <2>3. Len(words) = 0 /\ rx_word_count = 1 /\ sent = tx_word_count /\ tx_word_count = 0
    BY <2>1, <2>2 DEF HostInv, Access, Counts
  <2>4. acq_q = << >> /\ pending = << >> /\ ~mem_acked /\ mem = due
    BY <2>1 DEF HostInv, Acquired, Stores
  <2>5. pcr_req = << >> /\ csr.state = "idle" /\ pcr_rep = << >> /\ taken = Junk
    BY <2>1 DEF HostInv, TypeOK, Access
  <2> QED
    BY <2>1, <2>2, <2>3, <2>4, <2>5, EmptySeq
<1>2. /\ state' = "state_pcr_req" /\ rx_word_count' = 2 /\ words' = Append(words, v)
      /\ packet_ram' = [packet_ram EXCEPT ![0] = v]
      /\ UNCHANGED << cmd, size, seqno, reg, packet, pos, addr, owed, memVars, tileVars, crVars, txVars >>
  <2>1. Place(1) = 0
    <3>1. 0 * LineWords + 0 + 1 = 1 /\ 0 \in Slots
      BY Widths
    <3> QED
      BY <3>1, PlaceIs
  <2>2. rx_done /\ AfterRx(cmd) = "state_pcr_req"
    BY <1>1 DEF rx_done, AfterRx
  <2>3. /\ rx_word_count' = rx_word_count + 1 /\ state' = (IF rx_done THEN AfterRx(cmd) ELSE state)
        /\ packet_ram' = [packet_ram EXCEPT ![Place(rx_word_count)] = v] /\ words' = Append(words, v)
    BY DEF RxData
  <2>4. UNCHANGED << cmd, size, seqno, reg, packet, pos, addr, owed, memVars, tileVars, crVars, txVars >>
    BY DEF RxData
  <2>5. rx_word_count + 1 = 2
    BY <1>1
  <2> QED
    BY <1>1, <2>1, <2>2, <2>3, <2>4, <2>5, Zenon
<1>3. words' \in Seq(Values) /\ Len(words') = 1 /\ ~Idle'
  BY <1>1, <1>2, AppendProperties DEF HostInv, Registers, Idle
<1>4. packet_ram' \in [Slots -> Values \cup {Junk}] /\ packet_ram'[0] = v
  BY <1>2, Widths DEF HostInv, TypeOK
<1>5. TypeOK'
  <2>1. rx_word_count' \in 0 .. NumLines * LineWords + 1
    BY <1>2, Widths
  <2> QED
    BY <1>2, <1>4, <2>1 DEF HostInv, TypeOK, memVars, tileVars, crVars, txVars
<1>6. Registers'
  BY <1>1, <1>2, <1>3 DEF HostInv, Registers, crVars, txVars
<1>7. Counts' /\ Acquired' /\ Serves'
  BY <1>1, <1>2, <1>3 DEF Counts, Acquired, Serves, IsMem, IsWrite, memVars, txVars
<1>8. Progress' /\ Reading' /\ Writing' /\ Stores'
  BY <1>1, <1>2 DEF Progress, Reading, Writing, Stores, IsMem, memVars, txVars
<1>9. Access'
  BY <1>1, <1>2, <1>3, <1>4 DEF HostInv, Access, tileVars, crVars
<1>10. Mailbox'
  BY <1>2 DEF HostInv, Mailbox, OnItsWay, tileVars, crVars, txVars
<1> QED
  BY <1>5, <1>6, <1>7, <1>8, <1>9, <1>10 DEF HostInv

(* A word of a memory packet.                                              *)
LEMMA RxMemoryStep ==
    ASSUME HostInv, NEW v \in Values, RxData(v), packet.cmd = "writemem"
    PROVE  HostInv'
<1> DEFINE b == Base(packet)
           d == Done
           w == LineWords
           x == d * w
           n == Len(words)
           i == n - x
<1>1. /\ state = "state_rx" /\ ~Idle /\ IsMem(packet) /\ packet \in Packets /\ IsWrite(packet)
      /\ acq_q = << >> /\ pending = << >> /\ ~mem_acked /\ tx_word_count = 0
      /\ n \in Nat /\ sent = 0 /\ rx_word_count = n + 1 /\ cmd = "writemem" /\ size = packet.size
      /\ words \in Seq(Values) /\ n < packet.size
  <2>1. state = "state_rx" /\ ~Idle /\ IsMem(packet) /\ IsWrite(packet) /\ n < packet.size
    BY DEF RxData, Idle, IsMem, IsWrite
  <2>2. packet \in Packets /\ cmd = "writemem" /\ words \in Seq(Values) /\ size = packet.size /\ n \in Nat
    BY <2>1 DEF HostInv, Registers
  <2>3. acq_q = << >> /\ pending = << >> /\ ~mem_acked
    BY <2>1 DEF HostInv, Acquired
  <2>4. tx_word_count = 0 /\ sent = 0 /\ rx_word_count = n + 1
    BY <2>1 DEF HostInv, Counts
  <2> QED
    BY <2>1, <2>2, <2>3, <2>4
<1>2. /\ b \in Nat /\ d \in Nat /\ w \in Nat \ {0} /\ Total(packet) \in Nat /\ pos \in Nat \ {0}
      /\ b + Total(packet) <= NumLines
  BY <1>1, LineUnderWay, Widths
<1>3. x \in Nat /\ n \in x .. x + w - 1 /\ i \in 0 .. w - 1 /\ n = x + i /\ i \in Slots
  <2>1. n \in x .. x + w - 1
    BY <1>1 DEF HostInv, Writing
  <2>2. x \in Nat
    BY <1>2
  <2> HIDE DEF x, n, w
  <2> QED
    BY <1>1, <1>2, <2>1, <2>2 DEF Slots, w
<1>4. Place(rx_word_count) = i
  <2> HIDE DEF i, n, x
  <2>0. d \in Int
    BY <1>2
  <2>1. Place(d * w + i + 1) = i
    BY <2>0, <1>3, PlaceIs, Zenon
  <2> HIDE DEF w
  <2>2. rx_word_count = x + i + 1
    BY <1>1, <1>3
  <2> QED
    BY <2>1, <2>2 DEF x
<1>5. rx_done <=> i = w - 1
  <2> DEFINE t == Total(packet)
  <2>1. size = t * w /\ t \in Int /\ d \in Int /\ t \in Nat
    BY <1>1, MemPacket, <1>2
  <2>2. CASE i = w - 1
    <3>1. ((d + 1) * w + 0) % w = 0
      <4>1. d + 1 \in Int /\ 0 \in 0 .. w - 1
        BY <1>2
      <4> QED
        BY <4>1, <1>2, QuotientIs, Zenon
    <3>2. (d + 1) * w + 0 = x + w
      BY <1>2
    <3> HIDE DEF x, i, n, w
    <3>3. rx_word_count = x + w
      BY <1>1, <1>2, <1>3, <2>2
    <3>4. rx_word_count % w = 0
      BY <3>1, <3>2, <3>3
    <3> QED
      BY <2>2, <3>4 DEF rx_done, w
  <2>3. CASE i # w - 1
    <3>1. i + 1 \in 1 .. w - 1
      BY <1>2, <1>3, <2>3
    <3>2. (d * w + (i + 1)) % w = i + 1
      <4>1. d \in Int /\ i + 1 \in 0 .. w - 1
        BY <1>2, <3>1
      <4> HIDE DEF i
      <4> QED
        BY <1>2, <4>1, QuotientIs, Zenon
    <3>3. rx_word_count = d * w + (i + 1)
      <4> HIDE DEF i, n, w
      <4> QED
        BY <1>1, <1>2, <1>3 DEF x
    <3>4. size % w = 0
      <4>1. (t * w + 0) % w = 0
        <5>1. 0 \in 0 .. w - 1
          BY <1>2
        <5> QED
          BY <2>1, <1>2, <5>1, QuotientIs, Zenon
      <4>2. t * w + 0 = size
        BY <1>2, <2>1
      <4> QED
        BY <4>1, <4>2
    <3>5. rx_word_count % w = i + 1 /\ i + 1 # 0
      BY <3>1, <3>2, <3>3
    <3> QED
      BY <2>3, <3>4, <3>5 DEF rx_done, w
  <2> QED
    BY <2>2, <2>3
<1> HIDE DEF w, x, n, i
<1>6. /\ state' = (IF i = w - 1 THEN "state_mem_wreq" ELSE "state_rx")
      /\ words' = Append(words, v) /\ rx_word_count' = n + 2 /\ ~Idle'
      /\ packet_ram' = [packet_ram EXCEPT ![i] = v]
      /\ UNCHANGED << cmd, size, seqno, reg, packet, pos, addr, owed, memVars, tileVars, crVars, txVars >>
  <2>1. AfterRx(cmd) = "state_mem_wreq"
    BY <1>1 DEF AfterRx
  <2>2. rx_word_count + 1 = n + 2 /\ n + 2 # 0
    BY <1>1
  <2>3. state' = (IF rx_done THEN AfterRx(cmd) ELSE state) /\ rx_word_count' = rx_word_count + 1
        /\ packet_ram' = [packet_ram EXCEPT ![Place(rx_word_count)] = v]
    BY DEF RxData
  <2>4. rx_word_count' # 0
    BY <2>2, <2>3
  <2>5. words' = Append(words, v)
        /\ UNCHANGED << cmd, size, seqno, reg, packet, pos, addr, owed, memVars, tileVars, crVars, txVars >>
    BY DEF RxData
  <2> QED
    BY <1>1, <1>4, <1>5, <2>1, <2>2, <2>3, <2>4, <2>5, Zenon DEF Idle
<1>7. /\ words' \in Seq(Values) /\ Len(words') = n + 1 /\ words'[n + 1] = v
      /\ \A j \in 1 .. n : words'[j] = words[j]
  BY <1>1, <1>6, AppendProperties DEF n
<1>8. Done' = d /\ Base(packet)' = b
  BY <1>6 DEF Done, Base
<1>9. \A j \in Slots : j <= i => packet_ram'[j] = words'[x + j + 1]
  <2> SUFFICES ASSUME NEW j \in Slots, j <= i PROVE packet_ram'[j] = words'[x + j + 1]
    OBVIOUS
  <2>1. packet_ram \in [Slots -> Values \cup {Junk}] /\ j \in Nat
    BY Widths DEF HostInv, TypeOK, Slots
  <2>2. CASE j = i
    <3>1. x + j + 1 = n + 1
      BY <1>3, <2>2
    <3> QED
      BY <1>6, <1>7, <2>1, <2>2, <3>1
  <2>3. CASE j < i
    <3>1. packet_ram[j] = words[x + j + 1]
      BY <1>1, <1>3, <2>1, <2>3 DEF HostInv, Writing, n, x, i, w
    <3>2. x + j + 1 \in 1 .. n
      BY <1>3, <2>1, <2>3
    <3>3. packet_ram'[j] = packet_ram[j]
      BY <1>3, <1>6, <2>1, <2>3
    <3> DEFINE k == x + j + 1
    <3> HIDE DEF k
    <3>4. words'[k] = words[k]
      BY <1>7, <3>2 DEF k
    <3> QED
      BY <3>1, <3>3, <3>4 DEF k
  <2> QED
    BY <1>3, <2>1, <2>2, <2>3
<1>10. TypeOK'
  <2>1. rx_word_count' \in 0 .. NumLines * LineWords + 1
    <3> DEFINE t == Total(packet)
               y == t * w
               z == NumLines * w
    <3>1. packet.size = y /\ t \in Nat /\ t <= NumLines /\ NumLines \in Nat
      BY <1>1, <1>2, MemPacket, Widths DEF w
    <3>2. y <= z /\ y \in Int /\ z \in Int
      BY <1>2, <3>1, MultiplesOrdered
    <3> HIDE DEF y, z
    <3>3. n + 2 \in 0 .. z + 1
      BY <1>1, <3>1, <3>2
    <3> QED
      BY <1>6, <3>3 DEF z, w
  <2>2. packet_ram' \in [Slots -> Values \cup {Junk}]
    BY <1>6 DEF HostInv, TypeOK
  <2>3. state' \in {"state_mem_wreq", "state_rx"}
    BY <1>6
  <2> QED
    BY <1>6, <2>1, <2>2, <2>3 DEF HostInv, TypeOK, memVars, tileVars, crVars, txVars
<1>11. Registers'
  BY <1>1, <1>6, <1>7 DEF HostInv, Registers, crVars, txVars
<1>12. Counts'
  BY <1>1, <1>6, <1>7 DEF HostInv, Counts, txVars
<1>13. Acquired' /\ Serves'
  BY <1>1, <1>6 DEF Acquired, Serves, IsMem, memVars
<1>14. Progress' /\ Reading'
  BY <1>1, <1>6, <1>8 DEF HostInv, Progress, Reading
<1>15. Writing'
  <2>1. CASE i = w - 1
    <3>1. Len(words') = (d + 1) * w
      <4>1. (d + 1) * w = x + w
        BY <1>2 DEF x
      <4> QED
        BY <1>2, <1>3, <1>7, <2>1, <4>1
    <3>2. packet_ram' = WordsAt(Base(packet) + Done)'
      <4>1. (b + d) - b = d
        BY <1>2
      <4>2. WordsAt(Base(packet) + Done)' = [j \in Slots |-> words'[x + j + 1]]
        BY <1>8, <4>1 DEF WordsAt, x, w
      <4>3. packet_ram' \in [Slots -> Values \cup {Junk}]
        BY <1>10 DEF TypeOK
      <4>4. \A j \in Slots : j <= i
        BY <1>2, <2>1 DEF Slots, w
      <4> QED
        BY <1>9, <4>2, <4>3, <4>4
    <3> QED
      BY <1>6, <1>8, <2>1, <3>1, <3>2 DEF Writing, w
  <2>2. CASE i # w - 1
    <3>1. Len(words') \in x .. x + w - 1
      BY <1>2, <1>3, <1>7, <2>2
    <3>2. \A j \in Slots : j < Len(words') - x => j <= i
      BY <1>2, <1>3, <1>7 DEF Slots
    <3> QED
      BY <1>6, <1>8, <1>9, <2>2, <3>1, <3>2 DEF Writing, x, w
  <2> QED
    BY <2>1, <2>2
<1>16. Stores'
  <2>1. ~Stored /\ ~Stored'
    BY <1>1, <1>6 DEF Stored, memVars
  <2>2. Written(Done)' = Written(Done)
    <3>1. ASSUME NEW l \in Lines, l \in b .. b + d - 1 PROVE WordsAt(l)' = WordsAt(l)
      <4>1. ASSUME NEW j \in Slots
            PROVE  words'[(l - b) * LineWords + j + 1] = words[(l - b) * LineWords + j + 1]
        <5> DEFINE k == (l - b) * LineWords + j + 1
        <5>1. l \in Int
          BY Widths DEF Lines
        <5>2. k \in 1 .. d * LineWords
          BY <1>2, <3>1, <5>1, WordsWithin
        <5> HIDE DEF k
        <5>3. k \in 1 .. n
          BY <1>3, <5>2 DEF x, w
        <5> QED
          BY <1>7, <5>3 DEF k
      <4> QED
        BY <1>8, <4>1 DEF WordsAt
    <3>2. Base(packet)' = b /\ Done' = d /\ packet' = packet /\ due' = due
      BY <1>6, <1>8 DEF txVars
    <3> HIDE DEF b, d
    <3>3. Written(Done) = [l \in Lines |-> IF l \in b .. b + d - 1 THEN WordsAt(l) ELSE due[l]]
      BY DEF Written, b, d
    <3>4. Written(Done)' = [l \in Lines |-> IF l \in b .. b + d - 1 THEN WordsAt(l)' ELSE due[l]]
      BY <3>2 DEF Written
    <3> QED
      BY <3>1, <3>3, <3>4
  <2> QED
    BY <1>1, <1>6, <2>1, <2>2 DEF HostInv, Stores, memVars
<1>17. Access' /\ Mailbox'
  BY <1>1, <1>6, AccessKept DEF HostInv
<1> QED
  BY <1>10, <1>11, <1>12, <1>13, <1>14, <1>15, <1>16, <1>17 DEF HostInv

-----------------------------------------------------------------------------
(* Answering.                                                              *)

(* A packet that writes no memory leaves it as it is.                      *)
LEMMA PerformedNothing ==
    ASSUME Registers, packet.cmd # "writemem"
    PROVE  Performed = due
BY DEF Performed, Registers

(* A packet that writes memory writes all its lines.                       *)
LEMMA PerformedAll ==
    ASSUME packet \in Packets, packet.cmd = "writemem"
    PROVE  Performed = Written(Total(packet))
<1> DEFINE b == Base(packet)
           t == Total(packet)
           w == LineWords
<1>1. /\ b \in Nat /\ t \in Nat /\ packet.addr = b * w /\ packet.size = t * w /\ w \in Nat \ {0}
  BY MemPacket, Widths DEF IsMem
<1>2. ASSUME NEW l \in Lines
      PROVE  /\ (l * w \in packet.addr .. packet.addr + packet.size - 1) <=> l \in b .. b + t - 1
             /\ \A i \in Slots : l * w - packet.addr + i + 1 = (l - b) * w + i + 1
  <2>1. l \in Int
    BY Widths DEF Lines
  <2> DEFINE x == l * w
             y == b * w
             z == (b + t) * w
  <2> HIDE DEF b, t, w
  <2>2. x \in Int /\ y \in Int /\ z \in Int /\ z = y + t * w /\ (l - b) * w = x - y
    BY <1>1, <2>1
  <2>3. b <= l <=> y <= x
    BY <1>1, <2>1, MultiplesOrdered
  <2>4. b + t <= l <=> z <= x
    BY <1>1, <2>1, MultiplesOrdered
  <2> HIDE DEF x, y, z
  <2>5. packet.addr = y /\ packet.addr + packet.size = z
    BY <1>1, <2>2 DEF y
  <2>6. (x \in y .. z - 1) <=> l \in b .. b + t - 1
    BY <1>1, <2>1, <2>2, <2>3, <2>4
  <2>7. \A i \in Slots : x - y + i + 1 = (l - b) * w + i + 1
    BY <2>2
  <2>8. x \in packet.addr .. packet.addr + packet.size - 1 <=> l \in b .. b + t - 1
    <3>1. packet.addr .. packet.addr + packet.size - 1 = y .. z - 1
      <4>1. packet.addr \in Int /\ packet.size \in Int
        BY MemPacket DEF IsMem
      <4>2. packet.addr + packet.size - 1 = z - 1
        BY <2>2, <2>5, <4>1
      <4> QED
        BY <2>5, <4>2
    <3> QED
      BY <2>6, <3>1
  <2>9. \A i \in Slots : x - packet.addr + i + 1 = (l - b) * w + i + 1
    BY <2>5, <2>7, Zenon
  <2> QED
    BY <2>8, <2>9, Zenon DEF x
<1> HIDE DEF b, t
<1>3. ASSUME NEW l \in Lines
      PROVE  (IF l * w \in packet.addr .. packet.addr + packet.size - 1
              THEN [i \in Slots |-> words[l * w - packet.addr + i + 1]] ELSE due[l])
             = (IF l \in b .. b + t - 1 THEN [i \in Slots |-> words[(l - b) * w + i + 1]] ELSE due[l])
  <2>1. [i \in Slots |-> words[l * w - packet.addr + i + 1]] = [i \in Slots |-> words[(l - b) * w + i + 1]]
    BY <1>2
  <2> QED
    BY <1>2, <2>1
<1>4. Performed = [l \in Lines |-> IF l * w \in packet.addr .. packet.addr + packet.size - 1
                                   THEN [i \in Slots |-> words[l * w - packet.addr + i + 1]] ELSE due[l]]
  BY DEF Performed
<1>5. Written(t) = [l \in Lines |-> IF l \in b .. b + t - 1
                                    THEN [i \in Slots |-> words[(l - b) * w + i + 1]] ELSE due[l]]
  BY DEF Written, WordsAt, b
<1> QED
  BY <1>3, <1>4, <1>5 DEF t

(* The last word of an answer, in any state of the registers around it.    *)
LEMMA LastWord ==
    ASSUME HostInv, state = "state_tx", state' = "state_rx", tx_word_count' = 0, rx_word_count' = 0,
           due' = mem, sent' = AnswerSize + 1, owed' \in Seq(Values), Mailbox',
           UNCHANGED << cmd, size, seqno, reg, packet, words, pos, addr, packet_ram, memVars, tileVars, crVars >>
    PROVE  HostInv'
<1>1. ~Idle /\ Idle' /\ packet \in Packets /\ acq_q = << >> /\ pending = << >> /\ ~mem_acked
  BY DEF HostInv, Idle, Registers, Acquired
<1>2. TypeOK'
  BY Widths DEF HostInv, TypeOK, memVars, tileVars, crVars
<1>3. Registers'
  <2>1. AnswerSize + 1 \in Nat
    BY <1>1, OtherPacket DEF AnswerSize
  <2> QED
    BY <1>1, <2>1 DEF HostInv, Registers, TypeOK, crVars
<1>4. Counts'
  BY <1>1 DEF HostInv, Counts, AnswerSize
<1>5. Acquired' /\ Serves' /\ Progress' /\ Reading' /\ Writing' /\ Stores'
  BY <1>1 DEF Acquired, Serves, Progress, Reading, Writing, Stores, memVars
<1>6. Access'
  BY <1>1 DEF HostInv, Access, tileVars, crVars
<1> QED
  BY <1>2, <1>3, <1>4, <1>5, <1>6 DEF HostInv

LEMMA TxPlainStep ==
    ASSUME HostInv, TxWord, packet.cmd \in {"writemem", "other"}
    PROVE  HostInv'
<1>1. /\ state = "state_tx" /\ ~Idle /\ packet \in Packets /\ cmd = packet.cmd /\ tx_word_count = 0
      /\ sent = 0 /\ acq_q = << >> /\ pending = << >> /\ ~mem_acked
  BY DEF TxWord, HostInv, Idle, Registers, Counts, Acquired
<1>2. tx_size = 0 /\ tx_done /\ AnswerSize = 0
  BY <1>1 DEF tx_size, tx_done, AnswerSize
<1>3. state' = "state_rx" /\ tx_word_count' = 0 /\ rx_word_count' = 0 /\ due' = Performed /\ sent' = 1 /\ owed' = owed
      /\ UNCHANGED << cmd, size, seqno, reg, packet, words, pos, addr, packet_ram, memVars, tileVars, crVars >>
  BY <1>1, <1>2 DEF TxWord
<1>4. mem = Performed
  <2>1. CASE packet.cmd = "other"
    BY <2>1, PerformedNothing DEF HostInv, Stores
  <2>2. CASE packet.cmd = "writemem"
    <3>1. ~Stored /\ pos = 0
      BY <1>1, <2>2 DEF Stored, HostInv, Writing
    <3>2. Done = Total(packet)
      BY <1>1, <2>2, <3>1, MemPacket DEF Done, IsMem
    <3> QED
      BY <1>1, <2>2, <3>1, <3>2, PerformedAll DEF HostInv, Stores
  <2> QED
    BY <2>1, <2>2
<1>5. Mailbox'
  BY <1>1, <1>3 DEF HostInv, Mailbox, OnItsWay, tileVars
<1>6. owed' \in Seq(Values) /\ sent' = AnswerSize + 1
  BY <1>2, <1>3 DEF HostInv, Registers
<1> QED
  BY <1>1, <1>3, <1>4, <1>5, <1>6, LastWord

LEMMA TxRegisterStep ==
    ASSUME HostInv, TxWord, packet.cmd \in {"readcr", "writecr"}
    PROVE  HostInv'
<1>1. /\ state = "state_tx" /\ ~Idle /\ packet \in Packets /\ cmd = packet.cmd /\ reg = packet.reg
      /\ size = 1 /\ packet.size = 1 /\ ~IsMem(packet)
  BY OtherPacket DEF TxWord, HostInv, Idle, Registers, IsMem
<1>2. tx_word_count \in {0, 1} /\ sent = tx_word_count /\ AnswerSize = 1 /\ tx_size = 1
      /\ pcrReadData = taken /\ taken \in Values /\ mem = due /\ acq_q = << >> /\ pending = << >> /\ ~mem_acked
  BY <1>1 DEF HostInv, TypeOK, Counts, AnswerSize, tx_size, Access, Stores, Acquired
<1>3. UNCHANGED << cmd, size, seqno, reg, packet, words, pos, addr, packet_ram, memVars, tileVars, crVars >>
      /\ sent' = sent + 1
  BY DEF TxWord
<1>4. CASE tx_word_count = 0
  <2>1. ~tx_done
    BY <1>2, <1>4 DEF tx_done
  <2>2. state' = "state_tx" /\ tx_word_count' = 1 /\ rx_word_count' = rx_word_count /\ due' = due /\ sent' = 1
        /\ owed' = owed /\ ~Idle'
    BY <1>1, <1>2, <1>4, <2>1 DEF TxWord, Idle
  <2>3. TypeOK'
    BY <1>3, <2>2, Widths DEF HostInv, TypeOK, memVars, tileVars, crVars
  <2>4. Registers'
    BY <1>1, <1>3, <2>2 DEF HostInv, Registers, crVars
  <2>5. Counts'
    BY <1>1, <1>2, <1>3, <2>2 DEF HostInv, Counts, AnswerSize
  <2>6. Acquired' /\ Serves' /\ Progress' /\ Reading' /\ Writing' /\ Stores'
    BY <1>1, <1>2, <1>3, <2>2 DEF Acquired, Serves, Progress, Reading, Writing, Stores, IsMem, memVars
  <2>7. Access'
    BY <1>1, <1>2, <1>3, <2>2 DEF HostInv, Access, IsMem, tileVars, crVars
  <2>8. Mailbox'
    BY <1>2, <1>3, <1>4, <2>2 DEF HostInv, Mailbox, OnItsWay, tileVars, crVars
  <2> QED
    BY <2>3, <2>4, <2>5, <2>6, <2>7, <2>8 DEF HostInv
<1>5. CASE tx_word_count = 1
  <2>1. tx_done
    BY <1>2, <1>5 DEF tx_done
  <2>2. state' = "state_rx" /\ tx_word_count' = 0 /\ rx_word_count' = 0 /\ due' = Performed /\ sent' = 2
        /\ owed' = (IF cmd = "readcr" /\ reg = "tohost" /\ pcrReadData # 0 /\ owed # << >> THEN Tail(owed) ELSE owed)
    BY <1>1, <1>2, <1>5, <2>1 DEF TxWord
  <2>3. Performed = mem
    BY <1>1, <1>2, PerformedNothing DEF HostInv
  <2>4. Mailbox'
    <3>1. OnItsWay <=> (cmd = "readcr" /\ reg = "tohost" /\ pcrReadData # 0)
      BY <1>1, <1>2, <1>5, Widths DEF OnItsWay
    <3>2. ~OnItsWay'
      BY <2>2 DEF OnItsWay
    <3>3. owed = (IF OnItsWay THEN IF tohost = 0 THEN << taken >> ELSE << taken, tohost >>
                  ELSE IF tohost = 0 THEN << >> ELSE << tohost >>)
      BY DEF HostInv, Mailbox
    <3>4. OnItsWay => owed # << >> /\ Tail(owed) = IF tohost = 0 THEN << >> ELSE << tohost >>
      BY <3>3, Appended
    <3>5. owed' = (IF OnItsWay THEN Tail(owed) ELSE owed)
      BY <2>2, <3>1, <3>4
    <3> QED
      BY <1>3, <3>2, <3>3, <3>4, <3>5 DEF Mailbox, tileVars
  <2>5. owed' \in Seq(Values)
    <3>1. owed \in Seq(Values)
      BY DEF HostInv, Registers
    <3>2. owed # << >> => Tail(owed) \in Seq(Values)
      BY <3>1, HeadTailProperties
    <3> QED
      BY <2>2, <3>1, <3>2
  <2>6. sent' = AnswerSize + 1
    BY <1>2, <2>2
  <2> QED
    BY <1>1, <1>3, <2>2, <2>3, <2>4, <2>5, <2>6, LastWord
<1> QED
  BY <1>2, <1>4, <1>5

(* A word of the answer to a read of memory.                               *)
LEMMA TxReadStep ==
    ASSUME HostInv, TxWord, packet.cmd = "readmem"
    PROVE  HostInv'
<1> DEFINE b == Base(packet)
           k == Done
           t == Total(packet)
           w == LineWords
           x == (k - 1) * w
           n == tx_word_count
<1>1. /\ state = "state_tx" /\ ~Idle /\ packet \in Packets /\ cmd = "readmem" /\ size = packet.size
      /\ IsMem(packet) /\ acq_q = << >> /\ pending = << >> /\ ~mem_acked /\ mem = due /\ sent = n
      /\ AnswerSize = packet.size /\ tx_size = size
  BY DEF TxWord, HostInv, Idle, Registers, IsMem, Acquired, Stores, Counts, AnswerSize, tx_size
<1>2. /\ b \in Nat /\ t \in Nat \ {0} /\ k \in Nat \ {0} /\ pos \in Nat /\ w \in Nat \ {0} /\ n \in Nat
      /\ size = t * w /\ k = t - pos /\ addr = (b + k) * w
  <2>1. b \in Nat /\ t \in Nat \ {0} /\ size = t * w
    BY <1>1, MemPacket
  <2>2. k \in Nat /\ pos \in Nat /\ k > 0 /\ addr = (b + k) * w
    BY <1>1 DEF HostInv, Progress, Reading
  <2>3. n \in Nat
    BY Widths DEF HostInv, TypeOK
  <2> QED
    BY <2>1, <2>2, <2>3, Widths DEF Done
<1>3. x \in Nat /\ k * w = x + w /\ (k - 1) \in Int
  <2>1. k - 1 \in Nat
    BY <1>2
  <2>2. x \in Nat
    BY <1>2, <2>1
  <2> QED
    BY <1>2, <2>1, <2>2
<1>4. packet_ram = due[b + k - 1] /\ ((k = 1 /\ n = 0) \/ n \in x + 1 .. x + w)
  BY <1>1, <1>3 DEF HostInv, Reading
<1>5. /\ UNCHANGED << cmd, size, seqno, reg, packet, words, pos, addr, packet_ram, memVars, tileVars, crVars >>
      /\ sent' = n + 1 /\ owed' = owed /\ n' = (IF n = size THEN 0 ELSE n + 1)
      /\ rx_word_count' = (IF n = size THEN 0 ELSE rx_word_count)
      /\ state' = (IF ~tx_done THEN "state_tx" ELSE IF pos # 0 THEN "state_mem_rreq" ELSE "state_rx")
      /\ due' = due
  BY <1>1, PerformedNothing DEF TxWord, HostInv
<1>6. size % w = 0
  <2>1. (t * w + 0) % w = 0
    <3>1. 0 \in 0 .. w - 1 /\ t \in Int
      BY <1>2
    <3> QED
      BY <1>2, <3>1, QuotientIs, Zenon
  <2>2. t * w + 0 = size
    BY <1>2
  <2> QED
    BY <2>1, <2>2
<1>7. Mailbox'
  BY <1>1, <1>5 DEF HostInv, Mailbox, OnItsWay, tileVars
<1>8. Done' = k /\ Base(packet)' = b
  BY <1>5 DEF Done, Base
\* The answer goes on, in the line that is in packet_ram or with the next.
<1>9. ASSUME n # size, state' \in {"state_tx", "state_mem_rreq"},
             state' = "state_tx" => n + 1 \in x + 1 .. x + w,
             state' = "state_mem_rreq" => n + 1 = k * w + 1 /\ pos # 0
      PROVE  HostInv'
  <2>1. ~Idle' /\ n' = n + 1 /\ rx_word_count' = rx_word_count
    BY <1>5, <1>9 DEF Idle
  <2>2. n' \in 0 .. NumLines * LineWords
    <3> DEFINE y == t * w
               z == NumLines * w
               m == k * w
    <3>1. t <= NumLines /\ NumLines \in Nat /\ k <= t
      <4>1. b + t <= NumLines
        BY <1>1, MemPacket
      <4>2. NumLines \in Nat
        BY Widths
      <4> HIDE DEF b, t, k, w, x, n
      <4> QED
        BY <1>2, <4>1, <4>2
    <3>2. y <= z /\ y \in Int /\ z \in Int /\ m <= y /\ m \in Int
      BY <1>2, <3>1, MultiplesOrdered
    <3> HIDE DEF x, n, k, w, t, b
    <3>3. n <= m
      BY <1>2, <1>3, <1>4
    <3> HIDE DEF y, z, m
    <3>4. size = y /\ n # y
      BY <1>2, <1>9 DEF y
    <3>5. n + 1 \in 0 .. z
      BY <1>2, <3>2, <3>3, <3>4
    <3> QED
      BY <2>1, <3>5 DEF z, w
  <2>3. TypeOK'
    BY <1>5, <1>9, <2>1, <2>2 DEF HostInv, TypeOK, memVars, tileVars, crVars
  <2>4. Registers'
    <3>1. sent' \in Nat
      BY <1>2, <1>5
    <3> QED
      BY <1>1, <1>5, <3>1 DEF HostInv, Registers, crVars
  <2>5. Counts'
    BY <1>1, <1>5, <2>1 DEF HostInv, Counts, IsMem
  <2>6. Acquired' /\ Serves'
    BY <1>1, <1>5, <1>9 DEF Acquired, Serves, memVars
  <2>7. Progress'
    BY <1>1, <1>2, <1>5, <1>8, <1>9 DEF Progress
  <2>8. Writing' /\ Stores'
    BY <1>1, <1>5 DEF Writing, Stores, memVars
  <2>9. Reading'
    <3>1. state' = "state_tx" => n' \in (Done' - 1) * LineWords + 1 .. Done' * LineWords
      BY <1>3, <1>8, <1>9, <2>1
    <3>2. state' = "state_mem_rreq" => n' = Done' * LineWords + 1
      BY <1>8, <1>9, <2>1
    <3>3. packet_ram' = due'[Base(packet)' + Done' - 1] /\ Done' > 0 /\ Done' # 0
      BY <1>2, <1>4, <1>5, <1>8
    <3> QED
      BY <1>9, <3>1, <3>2, <3>3 DEF Reading
  <2>10. Access'
    BY <1>1, <1>5, <1>9, <2>1 DEF HostInv, Access, IsMem, tileVars, crVars
  <2> QED
    BY <1>7, <2>3, <2>4, <2>5, <2>6, <2>7, <2>8, <2>9, <2>10 DEF HostInv
<1>10. CASE n = 0
  <2>1. n # size
    BY <1>2, <1>10, MemPacket, <1>1
  <2>2. ~tx_done
    BY <1>1, <1>10, <2>1 DEF tx_done
  <2>3. n + 1 \in x + 1 .. x + w
    <3>1. k = 1
      BY <1>3, <1>4, <1>10
    <3>2. x = 0
      BY <1>2, <3>1
    <3> QED
      BY <1>2, <1>10, <3>2
  <2> QED
    BY <1>5, <1>9, <2>1, <2>2, <2>3
<1>11. CASE n \in x + 1 .. x + w - 1
  <2> DEFINE r == n - x
  <2>1. r \in 1 .. w - 1 /\ n = x + r
    BY <1>2, <1>3, <1>11
  <2> HIDE DEF r
  <2>2. n % w = r
    <3>1. ((k - 1) * w + r) % w = r
      <4>1. r \in 0 .. w - 1
        BY <1>2, <2>1
      <4> HIDE DEF k
      <4> QED
        BY <1>2, <1>3, <4>1, QuotientIs, Zenon
    <3> QED
      BY <2>1, <3>1
  <2>3. n # size /\ ~tx_done
    BY <1>1, <1>6, <2>1, <2>2 DEF tx_done
  <2>4. n + 1 \in x + 1 .. x + w
    BY <1>2, <1>3, <1>11
  <2> QED
    BY <1>5, <1>9, <2>3, <2>4
<1>12. CASE n = x + w
  <2>1. n = k * w /\ n > 0
    BY <1>2, <1>3, <1>12
  <2>2. n % w = 0
    <3>1. (k * w + 0) % w = 0
      <4>1. 0 \in 0 .. w - 1 /\ k \in Int
        BY <1>2
      <4> HIDE DEF k
      <4> QED
        BY <1>2, <4>1, QuotientIs, Zenon
    <3>2. k * w + 0 = n
      BY <1>2, <2>1
    <3> QED
      BY <3>1, <3>2
  <2>3. tx_done
    BY <2>1, <2>2 DEF tx_done
  <2>4. n = size <=> pos = 0
    <3>1. (k <= t <=> k * w <= t * w) /\ (k < t <=> k * w + w <= t * w) /\ k <= t
      BY <1>2, MultiplesOrdered
    <3> DEFINE y == k * w
               z == t * w
    <3>2. y \in Int /\ z \in Int
      BY <1>2
    <3> HIDE DEF y, z
    <3>3. y = z <=> k = t
      BY <1>2, <3>1, <3>2 DEF y, z
    <3> QED
      BY <1>2, <2>1, <3>3 DEF y, z
  <2>5. CASE pos # 0
    BY <1>3, <1>5, <1>9, <1>12, <2>3, <2>4, <2>5
  <2>6. CASE pos = 0
    <3>1. state' = "state_rx" /\ n' = 0 /\ rx_word_count' = 0 /\ due' = mem /\ sent' = AnswerSize + 1
      BY <1>1, <1>5, <2>3, <2>4, <2>6
    <3>2. owed' \in Seq(Values)
      BY <1>5 DEF HostInv, Registers
    <3> QED
      BY <1>1, <1>5, <1>7, <3>1, <3>2, LastWord
  <2> QED
    BY <2>5, <2>6
<1> QED
  BY <1>2, <1>3, <1>4, <1>10, <1>11, <1>12

-----------------------------------------------------------------------------
(* The invariant holds and says what the properties ask for.               *)

LEMMA HostInit == Init => HostInv
<1> SUFFICES ASSUME Init PROVE HostInv
  OBVIOUS
<1>1. Idle /\ words = << >> /\ packet = NoPacket /\ acq_q = << >> /\ pending = << >> /\ mem_acked = FALSE
      /\ pcr_req = << >> /\ pcr_rep = << >> /\ csr = IdleCsr /\ taken = Junk
  BY DEF Init, Idle
<1>2. mem \in [Lines -> [Slots -> Values]] /\ due = mem /\ packet_ram \in [Slots -> Values \cup {Junk}]
  BY Widths DEF Init
<1>3. csr \in [state : {"idle", "req", "rep"}, bits : PcrReq] /\ csr.state = "idle"
  BY <1>1 DEF IdleCsr, PcrReq, Regs
<1>4. TypeOK
  <2>1. 0 \in 0 .. NumLines /\ 0 \in 0 .. NumLines * LineWords /\ 0 \in 0 .. NumLines * LineWords + 1
    BY Widths
  <2>2. /\ acq_q \in Seq([write : BOOLEAN, line : Lines]) /\ Len(acq_q) <= 1
        /\ pending \in Seq([write : BOOLEAN, line : Lines]) /\ Len(pending) <= 1
        /\ pcr_req \in Seq(PcrReq) /\ Len(pcr_req) <= 1 /\ pcr_rep \in Seq(Values) /\ Len(pcr_rep) <= 1
    BY <1>1, EmptySeq
  <2>3. /\ state = "state_rx" /\ cmd \in Cmds /\ reg \in Regs /\ size \in Nat /\ seqno \in Nat /\ addr \in Nat
        /\ pos = 0 /\ rx_word_count = 0 /\ tx_word_count = 0 /\ my_reset \in BOOLEAN /\ pcrReadData = Junk
        /\ tohost \in Values /\ fromhost \in Values
    BY Widths DEF Init, Cmds, Regs
  <2> QED
    BY <1>1, <1>2, <1>3, <2>1, <2>2, <2>3, Zenon DEF TypeOK
<1>5. Registers
  BY <1>1, <1>2, EmptySeq DEF Init, Registers, NoPacket
<1>6. Counts
  BY <1>1 DEF Init, Counts, AnswerSize, NoPacket, IsWrite
<1>7. Acquired /\ Serves /\ Progress /\ Reading /\ Writing /\ Stores
  BY <1>1, <1>2 DEF Init, Acquired, Serves, Progress, Reading, Writing, Stores
<1>8. Access
  BY <1>1, <1>3 DEF Init, Access, NoPacket
<1>9. Mailbox
  BY <1>1 DEF Init, Mailbox, OnItsWay, NoPacket
<1> QED
  BY <1>4, <1>5, <1>6, <1>7, <1>8, <1>9 DEF HostInv

LEMMA HostStep == HostInv /\ [Next]_vars => HostInv'
<1> SUFFICES ASSUME HostInv, [Next]_vars PROVE HostInv'
  OBVIOUS
<1>1. ASSUME NEW p \in Packets, RxHeader(p) PROVE HostInv'
  BY <1>1, RxHeaderStep
<1>2. ASSUME NEW v \in Values, RxData(v) PROVE HostInv'
  <2>1. state = "state_rx" /\ ~Idle
    BY <1>2 DEF RxData, Idle
  <2>2. packet.cmd \in {"writemem", "writecr"}
    BY <2>1 DEF HostInv, Serves, IsWrite
  <2> QED
    BY <1>2, <2>2, RxRegisterStep, RxMemoryStep
<1>3. CASE MemRequest \/ MemAccept \/ MemGrant \/ MemWriteAcked \/ MemFinish
  BY <1>3, MemRequestStep, MemAcceptStep, MemGrantStep, MemWriteAckedStep, MemFinishStep
<1>4. CASE PcrRequest \/ PcrReset \/ (\E v \in Values : ScrAccess(v)) \/ PcrReply
  BY <1>4, PcrRequestStep, PcrResetStep, ScrAccessStep, PcrReplyStep
<1>5. CASE Tile
  BY <1>5, CsrAcceptStep, CsrFireStep, CsrReplyStep, CoreFromhostStep, CoreTohostStep DEF Tile
<1>6. CASE TxWord
  <2>1. packet.cmd \in Cmds
    BY DEF HostInv, Registers, TypeOK
  <2> QED
    BY <1>6, <2>1, TxPlainStep, TxRegisterStep, TxReadStep DEF Cmds
<1>7. CASE UNCHANGED vars
  <2>1. TypeOK' /\ Registers'
    BY <1>7 DEF vars, rxVars, memVars, tileVars, crVars, txVars, HostInv, TypeOK, Registers, Idle
  <2>2. Transfer'
    BY <1>7, TransferKept DEF vars, HostInv, Transfer
  <2>3. Access' /\ Mailbox'
    BY <1>7 DEF vars, rxVars, tileVars, crVars, txVars, HostInv, Access, Mailbox, OnItsWay, Idle
  <2> QED
    BY <2>1, <2>2, <2>3 DEF HostInv, Transfer
<1> QED
  BY <1>1, <1>2, <1>3, <1>4, <1>5, <1>6, <1>7 DEF Next

(* Registers, queues, buffer, memory and mailbox keep their types, for     *)
(* lines and memories of every size (htif.scala, csr.scala).               *)
THEOREM HostTypeCorrect == Spec => []TypeOK
<1>1. HostInv => TypeOK
  BY DEF HostInv
<1> QED
  BY <1>1, HostInit, HostStep, PTL DEF Spec

(* No message of the program to the host is lost or delivered twice: a     *)
(* read takes it out of tohost before the host has it (csr.scala,          *)
(* host_pcr_req_fire).                                                     *)
THEOREM MailboxKept == Spec => []MailboxInOrder
<1>1. HostInv => MailboxInOrder
  BY Appended DEF HostInv, Mailbox, OnItsWay, MailboxInOrder
<1> QED
  BY <1>1, HostInit, HostStep, PTL DEF Spec

(* Memory holds whole lines of the packets, although a line waits in       *)
(* packet_ram until its acquire has been accepted (htif.scala).            *)
THEOREM MemoryKept == Spec => []MemoryExact
<1>1. ASSUME HostInv PROVE MemoryExact
  <2>1. CASE Idle \/ packet.cmd # "writemem"
    <3>1. mem = due
      BY <1>1, <2>1 DEF HostInv, Stores
    <3>2. state = "state_tx" => Performed = due
      BY <1>1, <2>1, PerformedNothing DEF HostInv, Idle
    <3> QED
      BY <3>1, <3>2 DEF MemoryExact
  <2>2. CASE ~Idle /\ packet.cmd = "writemem"
    <3> DEFINE k == IF Stored THEN Done + 1 ELSE Done
               t == Total(packet)
               b == Base(packet)
               w == LineWords
    <3>1. packet \in Packets /\ mem = Written(k) /\ IsMem(packet)
      BY <1>1, <2>2 DEF HostInv, Registers, Stores, IsMem
    <3>2. /\ b \in Nat /\ t \in Nat /\ Done \in Nat /\ packet.addr = b * w /\ w \in Nat \ {0} /\ pos \in Nat
          /\ Len(words) \in Nat /\ k \in Nat
      <4>1. b \in Nat /\ t \in Nat /\ packet.addr = b * w
        BY <3>1, MemPacket
      <4> QED
        BY <1>1, <2>2, <3>1, <4>1, Widths DEF HostInv, Progress, Registers
    <3>3. Stored => state \in {"state_mem_rresp", "state_mem_wresp", "state_mem_finish"}
      BY <1>1, <2>2 DEF Stored, HostInv, Acquired
    <3>4. k <= t
      BY <1>1, <2>2, <3>1, <3>2, <3>3 DEF HostInv, Progress, Done
    <3>5. Len(words) >= k * w
      <4>1. state \in {"state_rx", "state_mem_wreq", "state_mem_wresp", "state_mem_finish", "state_tx"}
        BY <1>1, <2>2 DEF HostInv, Serves, TypeOK
      <4>2. Done * w \in Nat /\ (Done + 1) * w = Done * w + w
        BY <3>2
      <4>3. CASE Stored
        BY <1>1, <2>2, <3>2, <3>3, <4>1, <4>2, <4>3 DEF HostInv, Serves, Writing
      <4>4. CASE ~Stored
        BY <1>1, <2>2, <3>2, <4>1, <4>2, <4>4 DEF HostInv, Writing
      <4> QED
        BY <4>3, <4>4
    <3> HIDE DEF k
    <3>6. Performed = Written(t)
      BY <2>2, <3>1, PerformedAll
    <3>7. ASSUME NEW l \in Lines
          PROVE  mem[l] = due[l] \/ (Len(words) >= (l + 1) * w - packet.addr /\ mem[l] = Performed[l])
      <4>0. l \in Int
        BY Widths DEF Lines
      <4>1. CASE l \in b .. b + k - 1
        <5>1. l \in b .. b + t - 1
          BY <3>2, <3>4, <4>1
        <5>2. mem[l] = WordsAt(l) /\ Performed[l] = WordsAt(l)
          BY <2>2, <3>1, <3>6, <4>1, <5>1 DEF Written
        <5>3. (l + 1) * w - packet.addr <= k * w
          <6> DEFINE m == l + 1 - b
          <6>1. m <= k /\ m \in Int
            BY <3>2, <4>0, <4>1
          <6>2. m * w = (l + 1) * w - b * w
            BY <3>2, <4>0
          <6> HIDE DEF m
          <6>3. m * w <= k * w
            BY <3>2, <6>1, MultiplesOrdered
          <6> QED
            BY <3>2, <6>2, <6>3
        <5>4. (l + 1) * w - packet.addr \in Int /\ k * w \in Int
          BY <3>2, <4>0
        <5> QED
          BY <3>2, <3>5, <5>2, <5>3, <5>4
      <4>2. CASE ~(l \in b .. b + k - 1)
        BY <3>1, <4>2 DEF Written
      <4> QED
        BY <4>1, <4>2
    <3>8. state = "state_tx" => k = t
      <4>1. state = "state_tx" => ~Stored /\ pos = 0
        BY <1>1, <2>2, <3>3 DEF HostInv, Writing
      <4> QED
        BY <3>2, <4>1 DEF k, Done
    <3> QED
      BY <3>1, <3>6, <3>7, <3>8 DEF MemoryExact
  <2> QED
    BY <2>1, <2>2
<1> QED
  BY <1>1, HostInit, HostStep, PTL DEF Spec

(* Each packet gets one whole answer, every word the right one, although a *)
(* read of many lines is answered from a buffer of one (htif.scala).       *)
THEOREM AnswersKept == Spec => []AnswersRight
<1>1. ASSUME HostInv, state = "state_tx" PROVE sent <= AnswerSize /\ tx_data = DueWord(sent)
  <2>1. ~Idle /\ packet \in Packets /\ cmd = packet.cmd /\ size = packet.size /\ seqno = packet.seqno
        /\ sent = tx_word_count /\ tx_size = AnswerSize /\ tx_word_count \in Nat
    BY <1>1, Widths DEF HostInv, Registers, Counts, Idle, TypeOK, tx_size, AnswerSize
  <2>2. packet.cmd \in Cmds
    BY <2>1, OtherPacket
  <2>3. CASE packet.cmd \in {"writemem", "other"}
    <3>1. tx_word_count = 0 /\ AnswerSize = 0
      BY <1>1, <2>1, <2>3 DEF HostInv, Counts, AnswerSize
    <3> QED
      BY <2>1, <3>1 DEF tx_data, DueWord, nack
  <2>4. CASE packet.cmd \in {"readcr", "writecr"}
    <3>1. tx_word_count <= AnswerSize /\ pcrReadData = taken /\ ~IsMem(packet)
      BY <1>1, <2>4 DEF HostInv, Counts, Access, IsMem
    <3>2. CASE tx_word_count = 0
      BY <2>1, <3>1, <3>2 DEF tx_data, DueWord, nack
    <3>3. CASE tx_word_count # 0
      BY <2>1, <2>4, <3>1, <3>3 DEF tx_data, DueWord
    <3> QED
      BY <3>2, <3>3
  <2>5. CASE packet.cmd = "readmem"
    <3> DEFINE b == Base(packet)
               k == Done
               t == Total(packet)
               w == LineWords
               x == (k - 1) * w
               n == tx_word_count
    <3>1. /\ b \in Nat /\ t \in Nat \ {0} /\ packet.addr = b * w /\ packet.size = t * w /\ IsMem(packet)
          /\ w \in Nat \ {0} /\ AnswerSize = t * w
      BY <2>1, <2>5, MemPacket, Widths DEF IsMem, AnswerSize
    <3>2. k \in Nat \ {0} /\ k <= t /\ packet_ram = due[b + k - 1] /\ ((k = 1 /\ n = 0) \/ n \in x + 1 .. k * w)
      <4>1. k \in Nat /\ k > 0 /\ pos \in Nat /\ packet_ram = due[b + k - 1] /\ ((k = 1 /\ n = 0) \/ n \in x + 1 .. k * w)
        BY <1>1, <2>1, <2>5, <3>1 DEF HostInv, Progress, Reading
      <4> QED
        BY <3>1, <4>1 DEF Done
    <3>3. k * w = x + w /\ x \in Nat /\ k * w <= t * w /\ t * w \in Nat
      <4>1. k - 1 \in Nat
        BY <3>2
      <4>2. x \in Nat
        BY <3>1, <4>1
      <4> QED
        BY <3>1, <3>2, <4>2, MultiplesOrdered
    <3>4. CASE n = 0
      BY <2>1, <3>1, <3>3, <3>4 DEF tx_data, DueWord, nack
    <3>5. CASE n # 0
      <4> DEFINE r == n - x - 1
      <4>1. r \in Slots /\ n = x + r + 1 /\ n <= t * w
        BY <2>1, <3>1, <3>2, <3>3, <3>5 DEF Slots
      <4>2. Place(n) = r
        <5> HIDE DEF r, k
        <5>1. k - 1 \in Int
          BY <3>2
        <5>2. Place((k - 1) * w + r + 1) = r
          BY <4>1, <5>1, PlaceIs, Zenon
        <5> QED
          BY <4>1, <5>2
      <4>3. packet.addr + n - 1 = (b + k - 1) * w + r
        <5>1. (b + k - 1) * w = b * w + x
          BY <3>1, <3>2
        <5> HIDE DEF r, x
        <5>2. b * w \in Int /\ r \in Int
          BY <3>1, <4>1 DEF Slots
        <5> QED
          BY <3>1, <3>3, <4>1, <5>1, <5>2
      <4>4. (packet.addr + n - 1) \div w = b + k - 1 /\ (packet.addr + n - 1) % w = r
        <5> DEFINE q == b + k - 1
        <5>1. q \in Int /\ r \in 0 .. w - 1
          BY <3>1, <3>2, <4>1 DEF Slots
        <5> HIDE DEF q, r
        <5>2. (q * w + r) \div w = q /\ (q * w + r) % w = r
          BY <3>1, <5>1, QuotientIs, Zenon
        <5>3. packet.addr + n - 1 = q * w + r
          BY <4>3 DEF q
        <5> QED
          BY <5>2, <5>3 DEF q
      <4> HIDE DEF r
      <4>5. tx_data = packet_ram[r]
        BY <2>1, <2>5, <3>5, <4>2 DEF tx_data
      <4>6. DueWord(n) = due[b + k - 1][r]
        BY <3>1, <3>5, <4>4 DEF DueWord
      <4> QED
        BY <2>1, <3>1, <3>2, <4>1, <4>5, <4>6
    <3> QED
      BY <3>4, <3>5
  <2> QED
    BY <2>2, <2>3, <2>4, <2>5 DEF Cmds
<1>2. HostInv => AnswersRight
  BY <1>1 DEF AnswersRight, HostInv, Counts
<1> QED
  BY <1>2, HostInit, HostStep, PTL DEF Spec
=============================================================================
