----------------------------- MODULE HTIFClient -----------------------------
(***************************************************************************)
(* The memory side of the host interface, uncore/src/main/scala/htif.scala:*)
(* an uncached client with one transaction at a time.  The packet that     *)
(* asks for the transaction is an input.                                   *)
(***************************************************************************)
EXTENDS TileLink

VARIABLE htif   \* [state, a_type, addr, mem_gxid]

IdleHtif == [state |-> "state_rx", a_type |-> "readUncached",
             addr |-> CHOOSE a \in Addrs : TRUE, mem_gxid |-> 0]

HtifTypeOK(ids) ==
    htif \in [state : {"state_rx", "state_mem_resp", "state_mem_finish"},
              a_type : {"readUncached", "writeUncached"}, addr : Addrs, mem_gxid : ids]

HtifInit == htif = IdleHtif

\* state_mem_rreq and state_mem_wreq.
HtifRequest(a_type, a, v) ==
    /\ htif.state = "state_rx"
    /\ HasRoom(acquire, HTIF)
    /\ acquire' = Send(acquire, HTIF, [a_type |-> a_type, addr |-> a, data |-> v])
    /\ htif' = [IdleHtif EXCEPT !.state = "state_mem_resp", !.a_type = a_type, !.addr = a]
    /\ UNCHANGED << probe, release, grant, grant_ack, latest >>

\* state_mem_rresp and state_mem_wresp.
HtifGrant ==
    /\ htif.state = "state_mem_resp"
    /\ grant[HTIF] # << >>
    /\ grant' = Receive(grant, HTIF)
    /\ htif' = [htif EXCEPT !.state = "state_mem_finish",
                            !.mem_gxid = Head(grant[HTIF]).master_xact_id]
    /\ UNCHANGED << acquire, probe, release, grant_ack, latest >>

HtifFinish ==
    /\ htif.state = "state_mem_finish"
    /\ HasRoom(grant_ack, HTIF)
    /\ grant_ack' = Send(grant_ack, HTIF, htif.mem_gxid)
    /\ htif' = IdleHtif
    /\ UNCHANGED << acquire, probe, release, grant, latest >>
============================================================================
