--------------------------- MODULE MCHostPackets ----------------------------
(***************************************************************************)
(* Lines of two words.  Memory packets of one, two and three lines, so     *)
(* that packet_ram is used again within a packet, and one of each register *)
(* packet.                                                                 *)
(***************************************************************************)
EXTENDS HostPackets

Mem(c, n, a, s) == [cmd |-> c, size |-> n * LineWords, seqno |-> s, addr |-> a * LineWords, reg |-> "scr"]
Cr(c, r)        == [cmd |-> c, size |-> 1, seqno |-> 1, addr |-> 0, reg |-> r]

MCPackets ==
    {Mem("readmem", 3, 0, 0), Mem("readmem", 1, 1, 1), Mem("writemem", 2, 1, 1), Mem("writemem", 1, 0, 0),
     Cr("readcr", "tohost"), Cr("writecr", "fromhost"), Cr("writecr", "reset"), Cr("readcr", "scr"),
     Cr("other", "scr")}
=============================================================================
