--------------------------- MODULE MCMemPipeline ----------------------------
(* Instances of MemPipeline for TLC. *)
EXTENDS MemPipeline

Words    == {[bytes |-> {1}, typ |-> "W"]}
Signs    == Words \cup {[bytes |-> {1}, typ |-> "WU"]}
Zero     == [b \in Bytes |-> 0]
Own(i)   == {1 + (i % 2)}     \* neighbours in the store queue differ
Same(i)  == {0}
=============================================================================
