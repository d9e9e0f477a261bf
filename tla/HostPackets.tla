---------------------------- MODULE HostPackets -----------------------------
(***************************************************************************)
(* The packet side of the host interface, uncore htif.scala, with the host *)
(* port of the tile's control registers, rocket csr.scala, for one tile.   *)
(* The serial link is abstracted to its 64-bit words.  Memory, its agent   *)
(* (see HTIFClient) and the core's program are inputs.                     *)
(*                                                                         *)
(* Packets are well-formed: the length of a memory packet is a positive    *)
(* multiple of the line's, that of a register packet is 1, and the core id *)
(* exists.  A command the interface does not know is answered with a nack. *)
(***************************************************************************)
EXTENDS Integers, Sequences

CONSTANTS
    LineWords,      \* packet_ram_depth
    NumLines,       \* lines of memory
    Values,         \* 64-bit words; 0 is the empty mailbox
    Packets         \* the headers the host may send

Cmds == {"readmem", "writemem", "readcr", "writecr", "other"}
Regs == {"tohost", "fromhost", "reset", "scr"}
Lines == 0 .. NumLines - 1
Slots == 0 .. LineWords - 1
IsMem(p)   == p.cmd \in {"readmem", "writemem"}
IsWrite(p) == p.cmd \in {"writemem", "writecr"}

\* size and addr count words; reg stands for the core id and register number.
Header == [cmd : Cmds, size : Nat, seqno : Nat, addr : Nat, reg : Regs]

ASSUME HostAssumption ==
    /\ LineWords \in Nat /\ LineWords > 1
    /\ NumLines \in Nat \ {0}
    /\ {0, 1} \subseteq Values /\ -1 \notin Values
    /\ Packets \subseteq Header
    /\ \A p \in Packets :
         IF IsMem(p) THEN /\ p.size > 0 /\ p.size % LineWords = 0 /\ p.addr % LineWords = 0
                          /\ p.addr + p.size <= NumLines * LineWords
         ELSE p.size = 1

\* The protocol of the mailbox: the host reads tohost and never writes it.
ASSUME MailboxAssumption == \A p \in Packets : ~(p.cmd = "writecr" /\ p.reg = "tohost")

Junk == -1          \* part of a header in packet_ram, or nothing yet
NoPacket == [cmd |-> "other", size |-> 0, seqno |-> 0, addr |-> 0, reg |-> "scr"]

VARIABLES
    state, cmd, size, pos, seqno, addr, reg,
    rx_word_count, tx_word_count, packet_ram, mem_acked, pcrReadData, my_reset,
    acq_q,          \* the acquire in its queue; the data stay in packet_ram
    mem, pending,   \* external: memory, and the acquire its agent has accepted
    pcr_req, pcr_rep,   \* the queues of the chip between the interface and the tile
    csr,            \* host_pcr_req_valid, host_pcr_rep_valid and host_pcr_bits
    tohost, fromhost,
    packet, words,  \* history: the packet's header and the data words that came
    sent, taken,    \* history: answer words sent; the register's value when it was read
    due, owed       \* history: memory after the packets answered; messages to be delivered

rxVars   == << cmd, size, seqno, reg, rx_word_count, packet, words >>
memVars  == << acq_q, mem, pending, mem_acked >>
tileVars == << pcr_req, pcr_rep, csr, tohost, fromhost >>
crVars   == << pcrReadData, my_reset, taken >>
txVars   == << tx_word_count, sent, due >>
vars == << state, pos, addr, packet_ram, owed, rxVars, memVars, tileVars, crVars, txVars >>

PcrReq  == [rw : BOOLEAN, reg : Regs, data : Values \cup {Junk}]
Acquire == [write : BOOLEAN, line : Nat]
IdleCsr == [state |-> "idle", bits |-> [rw |-> FALSE, reg |-> "scr", data |-> Junk]]

TypeOK ==
    /\ state \in {"state_rx", "state_pcr_req", "state_pcr_resp", "state_mem_rreq", "state_mem_wreq",
                  "state_mem_rresp", "state_mem_wresp", "state_mem_finish", "state_tx"}
    /\ cmd \in Cmds /\ reg \in Regs /\ size \in Nat /\ seqno \in Nat
    /\ pos \in 0 .. NumLines /\ addr \in Nat
    /\ rx_word_count \in 0 .. NumLines * LineWords + 1
    /\ tx_word_count \in 0 .. NumLines * LineWords
    /\ packet_ram \in [Slots -> Values \cup {Junk}]
    /\ mem_acked \in BOOLEAN /\ my_reset \in BOOLEAN /\ pcrReadData \in Values \cup {Junk}
    /\ acq_q \in Seq([write : BOOLEAN, line : Lines]) /\ Len(acq_q) <= 1
    /\ pending \in Seq([write : BOOLEAN, line : Lines]) /\ Len(pending) <= 1
    /\ mem \in [Lines -> [Slots -> Values]]
    /\ pcr_req \in Seq(PcrReq) /\ Len(pcr_req) <= 1
    /\ pcr_rep \in Seq(Values) /\ Len(pcr_rep) <= 1
    /\ csr \in [state : {"idle", "req", "rep"}, bits : PcrReq]
    /\ tohost \in Values /\ fromhost \in Values

Init ==
    /\ state = "state_rx" /\ cmd = "other" /\ size = 0 /\ pos = 0 /\ seqno = 0 /\ addr = 0 /\ reg = "scr"
    /\ rx_word_count = 0 /\ tx_word_count = 0 /\ packet_ram = [i \in Slots |-> Junk]
    /\ mem_acked = FALSE /\ pcrReadData = Junk /\ my_reset = TRUE
    /\ acq_q = << >> /\ pending = << >>
    /\ mem = [l \in Lines |-> [i \in Slots |-> 0]]
    /\ pcr_req = << >> /\ pcr_rep = << >> /\ csr = IdleCsr
    /\ tohost = 0 /\ fromhost = 0
    /\ packet = NoPacket /\ words = << >> /\ sent = 1 /\ taken = Junk
    /\ due = mem /\ owed = << >>

-----------------------------------------------------------------------------
(* Receiving.  A word is written to packet_ram one place before its count, *)
(* so that the header falls into the last place.                           *)

Place(n) == (n - 1) % LineWords

AfterRx(c) == CASE c = "readmem" -> "state_mem_rreq"
                [] c = "writemem" -> "state_mem_wreq"
                [] c \in {"readcr", "writecr"} -> "state_pcr_req"
                [] OTHER -> "state_tx"

RxHeader(p) ==
    /\ state = "state_rx" /\ rx_word_count = 0
    /\ cmd' = p.cmd /\ size' = p.size /\ seqno' = p.seqno /\ reg' = p.reg
    /\ pos' = p.size \div LineWords /\ addr' = p.addr
    /\ rx_word_count' = 1
    /\ packet_ram' = [packet_ram EXCEPT ![Place(0)] = Junk]
    /\ state' = IF IsWrite(p) THEN state ELSE AfterRx(p.cmd)
    /\ packet' = p /\ words' = << >> /\ sent' = 0 /\ taken' = Junk
    /\ UNCHANGED << tx_word_count, due, owed, memVars, tileVars, pcrReadData, my_reset >>

rx_done == rx_word_count = size \/ rx_word_count % LineWords = 0

\* The host sends as many words as it has announced.
RxData(v) ==
    /\ state = "state_rx" /\ rx_word_count # 0 /\ Len(words) < packet.size
    /\ packet_ram' = [packet_ram EXCEPT ![Place(rx_word_count)] = v]
    /\ rx_word_count' = rx_word_count + 1
    /\ state' = IF rx_done THEN AfterRx(cmd) ELSE state
    /\ words' = Append(words, v)
    /\ UNCHANGED << cmd, size, seqno, reg, packet, pos, addr, owed, memVars, tileVars, crVars, txVars >>

-----------------------------------------------------------------------------
(* Memory.                                                                 *)

MemRequest ==
    /\ state \in {"state_mem_rreq", "state_mem_wreq"} /\ acq_q = << >>
    /\ acq_q' = << [write |-> cmd = "writemem", line |-> addr \div LineWords] >>
    /\ state' = IF state = "state_mem_rreq" THEN "state_mem_rresp" ELSE "state_mem_wresp"
    /\ UNCHANGED << pos, addr, packet_ram, owed, mem, pending, mem_acked, rxVars, tileVars, crVars, txVars >>

\* External: the agent takes the acquire, with packet_ram as it is now, and
\* performs it; later it answers.
MemAccept ==
    /\ acq_q # << >> /\ pending = << >>
    /\ acq_q' = << >> /\ pending' = acq_q
    /\ mem' = IF Head(acq_q).write THEN [mem EXCEPT ![Head(acq_q).line] = packet_ram] ELSE mem
    /\ UNCHANGED << state, pos, addr, packet_ram, owed, mem_acked, rxVars, tileVars, crVars, txVars >>

\* Mutant: the grant of a read is remembered like that of a write.
AckedByAnyGrant == TRUE

AckedByGrant == state # "state_mem_rresp"

MemGrant ==
    /\ pending # << >>
    /\ pending' = << >>
    /\ mem_acked' = AckedByGrant
    /\ packet_ram' = IF state = "state_mem_rresp" THEN mem[Head(pending).line] ELSE packet_ram
    /\ state' = IF state = "state_mem_rresp" THEN "state_mem_finish" ELSE state
    /\ UNCHANGED << pos, addr, owed, acq_q, mem, rxVars, tileVars, crVars, txVars >>

MemWriteAcked ==
    /\ state = "state_mem_wresp" /\ mem_acked
    /\ state' = "state_mem_finish"
    /\ mem_acked' = FALSE
    /\ UNCHANGED << pos, addr, packet_ram, owed, acq_q, mem, pending, rxVars, tileVars, crVars, txVars >>

LastLine == pos = 1

MemFinish ==
    /\ state = "state_mem_finish"
    /\ state' = IF cmd = "readmem" \/ LastLine THEN "state_tx" ELSE "state_rx"
    /\ pos' = pos - 1
    /\ addr' = addr + LineWords
    /\ UNCHANGED << packet_ram, owed, memVars, rxVars, tileVars, crVars, txVars >>

-----------------------------------------------------------------------------
(* Registers: the tile's, its reset, and the chip's.                       *)

\* Mutant: only a write is answered when its access is done.
AnswerWritesOnly == IF cmd = "writecr" THEN "state_tx" ELSE "state_pcr_req"

AfterAccess == "state_tx"

PcrRequest ==
    /\ state = "state_pcr_req" /\ reg \in {"tohost", "fromhost"} /\ pcr_req = << >>
    /\ pcr_req' = << [rw |-> cmd = "writecr", reg |-> reg, data |-> packet_ram[0]] >>
    /\ state' = "state_pcr_resp"
    /\ UNCHANGED << pos, addr, packet_ram, owed, pcr_rep, csr, tohost, fromhost, memVars, rxVars, crVars, txVars >>

\* The tile's registers hold 0 while it is in reset (the two registers that
\* delay the reset on its way are left out).
PcrReset ==
    /\ state = "state_pcr_req" /\ reg = "reset"
    /\ my_reset' = IF cmd = "writecr" THEN packet_ram[0] = 1 ELSE my_reset
    /\ pcrReadData' = IF my_reset THEN 1 ELSE 0
    /\ state' = AfterAccess
    /\ taken' = pcrReadData'
    /\ IF my_reset'
       THEN tohost' = 0 /\ fromhost' = 0 /\ owed' = << >>
       ELSE UNCHANGED << tohost, fromhost, owed >>
    /\ UNCHANGED << pos, addr, packet_ram, pcr_req, pcr_rep, csr, memVars, rxVars, txVars >>

\* What the chip's registers hold is an input.
ScrAccess(v) ==
    /\ state = "state_pcr_req" /\ reg = "scr"
    /\ pcrReadData' = v
    /\ state' = AfterAccess
    /\ taken' = v
    /\ UNCHANGED << pos, addr, packet_ram, owed, my_reset, memVars, rxVars, tileVars, txVars >>

CsrAccept ==
    /\ csr.state = "idle" /\ pcr_req # << >>
    /\ csr' = [state |-> "req", bits |-> Head(pcr_req)]
    /\ pcr_req' = << >>
    /\ UNCHANGED << state, pos, addr, packet_ram, owed, pcr_rep, tohost, fromhost, memVars, rxVars, crVars, txVars >>

\* Mutant: the host's read leaves the message where it is.
TohostKept == IF csr.bits.rw THEN csr.bits.data ELSE tohost

TohostAfter == IF csr.bits.rw THEN csr.bits.data ELSE 0

\* host_pcr_req_fire: not in a cycle in which the core uses the registers.
CsrFire ==
    LET value == IF csr.bits.reg = "tohost" THEN tohost ELSE fromhost
    IN  /\ csr.state = "req"
        /\ csr' = [csr EXCEPT !.state = "rep", !.bits.data = value]
        /\ tohost' = IF csr.bits.reg = "tohost" /\ ~my_reset THEN TohostAfter ELSE tohost
        /\ fromhost' = IF csr.bits.reg = "fromhost" /\ csr.bits.rw /\ fromhost = 0 /\ ~my_reset
                       THEN csr.bits.data ELSE fromhost
        /\ taken' = value
        /\ UNCHANGED << state, pos, addr, packet_ram, owed, pcr_req, pcr_rep, pcrReadData, my_reset,
                        memVars, rxVars, txVars >>

CsrReply ==
    /\ csr.state = "rep" /\ pcr_rep = << >>
    /\ pcr_rep' = << csr.bits.data >>
    /\ csr' = IdleCsr
    /\ UNCHANGED << state, pos, addr, packet_ram, owed, pcr_req, tohost, fromhost, memVars, rxVars, crVars, txVars >>

PcrReply ==
    /\ pcr_rep # << >>
    /\ pcr_rep' = << >>
    /\ pcrReadData' = Head(pcr_rep)
    /\ state' = AfterAccess
    /\ UNCHANGED << pos, addr, packet_ram, owed, my_reset, taken, pcr_req, csr, tohost, fromhost,
                    memVars, rxVars, txVars >>

\* The program leaves a message for the host, which is ignored while another
\* one is there, or takes the host's.
CoreTohost(v) ==
    /\ ~my_reset /\ v # 0
    /\ tohost' = IF tohost = 0 THEN v ELSE tohost
    /\ owed' = IF tohost = 0 THEN Append(owed, v) ELSE owed
    /\ UNCHANGED << state, pos, addr, packet_ram, pcr_req, pcr_rep, csr, fromhost, memVars, rxVars, crVars, txVars >>

CoreFromhost ==
    /\ ~my_reset /\ fromhost # 0
    /\ fromhost' = 0
    /\ UNCHANGED << state, pos, addr, packet_ram, owed, pcr_req, pcr_rep, csr, tohost, memVars, rxVars, crVars, txVars >>

-----------------------------------------------------------------------------
(* Answering.                                                              *)

nack    == cmd = "other"
tx_size == IF cmd \in {"readmem", "readcr", "writecr"} THEN size ELSE 0
Answer(c, sz, n) == [cmd |-> c, size |-> sz, seqno |-> n]

tx_data == IF tx_word_count = 0 THEN Answer(IF nack THEN "nack" ELSE "ack", tx_size, seqno)
           ELSE IF cmd \in {"readcr", "writecr"} THEN pcrReadData
           ELSE packet_ram[Place(tx_word_count)]

\* Mutant: the end of packet_ram does not end a burst of answer words.
BurstIgnoresBuffer == tx_word_count = tx_size

tx_done == tx_word_count = tx_size \/ (tx_word_count > 0 /\ tx_word_count % LineWords = 0)

\* The packet with the lines it asks for written.
Performed ==
    [l \in Lines |->
        IF packet.cmd = "writemem" /\ l * LineWords \in packet.addr .. packet.addr + packet.size - 1
        THEN [i \in Slots |-> words[l * LineWords - packet.addr + i + 1]]
        ELSE due[l]]

TxWord ==
    /\ state = "state_tx"
    /\ LET last == tx_word_count = tx_size
       IN  /\ tx_word_count' = IF last THEN 0 ELSE tx_word_count + 1
           /\ rx_word_count' = IF last THEN 0 ELSE rx_word_count
           /\ state' = IF ~tx_done THEN state
                       ELSE IF cmd = "readmem" /\ pos # 0 THEN "state_mem_rreq" ELSE "state_rx"
           /\ due' = IF last THEN Performed ELSE due
    /\ sent' = sent + 1
    /\ owed' = IF cmd = "readcr" /\ reg = "tohost" /\ tx_word_count = 1 /\ pcrReadData # 0 /\ owed # << >>
               THEN Tail(owed) ELSE owed
    /\ UNCHANGED << cmd, size, seqno, reg, packet, words, pos, addr, packet_ram, memVars, tileVars, crVars >>

-----------------------------------------------------------------------------
Tile == CsrAccept \/ CsrFire \/ CsrReply \/ CoreFromhost \/ \E v \in Values : CoreTohost(v)

Next ==
    \/ \E p \in Packets : RxHeader(p)
    \/ \E v \in Values : RxData(v)
    \/ MemRequest \/ MemAccept \/ MemGrant \/ MemWriteAcked \/ MemFinish
    \/ PcrRequest \/ PcrReset \/ (\E v \in Values : ScrAccess(v)) \/ PcrReply
    \/ Tile
    \/ TxWord

Spec == Init /\ [][Next]_vars

\* The host sends the rest of a packet it has begun and takes what is sent to
\* it, memory answers, and the core leaves the registers alone now and then.
FairSpec ==
    /\ Spec
    /\ WF_vars(\E v \in Values : RxData(v)) /\ WF_vars(TxWord)
    /\ WF_vars(MemRequest \/ MemAccept \/ MemGrant \/ MemWriteAcked \/ MemFinish)
    /\ WF_vars(PcrRequest \/ PcrReset \/ (\E v \in Values : ScrAccess(v)) \/ PcrReply)
    /\ WF_vars(CsrAccept) /\ WF_vars(CsrFire) /\ WF_vars(CsrReply)

-----------------------------------------------------------------------------
(* Properties.                                                             *)

AnswerSize == IF packet.cmd \in {"readmem", "readcr", "writecr"} THEN packet.size ELSE 0

\* Word n of the answer, from the packet and from memory before it.
DueWord(n) ==
    IF n = 0 THEN Answer(IF packet.cmd = "other" THEN "nack" ELSE "ack", AnswerSize, packet.seqno)
    ELSE IF IsMem(packet)
         THEN due[(packet.addr + n - 1) \div LineWords][(packet.addr + n - 1) % LineWords]
         ELSE taken

Idle == state = "state_rx" /\ rx_word_count = 0

\* Every packet gets one whole answer before the next is looked at, word by
\* word the right one, although a long read is answered line by line from a
\* buffer of one line.
AnswersRight ==
    /\ state = "state_tx" => sent <= AnswerSize /\ tx_data = DueWord(sent)
    /\ Idle => sent = AnswerSize + 1

\* Memory holds what the packets answered so far have written and, of the one
\* under way, whole lines with that packet's words; once the answer is under
\* way, all of them.  The data of a write are never queued, so this rests on
\* packet_ram being left alone until the write has been granted.
MemoryExact ==
    /\ \A l \in Lines : mem[l] = due[l] \/ (/\ Len(words) >= (l + 1) * LineWords - packet.addr
                                            /\ mem[l] = Performed[l])
    /\ state = "state_tx" => mem = Performed

\* The messages the program has left and the host has not been given are the
\* one on its way, if any, and the one in tohost, in this order: none is lost
\* and none is delivered twice, however reads and writes of tohost interleave.
MailboxInOrder ==
    LET under == packet.cmd = "readcr" /\ packet.reg = "tohost" /\ sent < 2 /\ taken \notin {0, Junk}
    IN  owed = (IF under THEN << taken >> ELSE << >>) \o (IF tohost = 0 THEN << >> ELSE << tohost >>)

\* Every packet is answered and the interface listens again.
PacketsAnswered == ~Idle ~> Idle
=============================================================================
