--------------------------- MODULE MCIssueWindow ---------------------------
(* Instances of IssueWindow for TLC. *)
EXTENDS IssueWindow

I(k, l, s1, s2) == [kind |-> k, ldst |-> l, lrs1 |-> s1, lrs2 |-> s2]

\* All but the multiplication wait for the last writer of one register, so
\* that each may wait for any other; multiplications follow on each other.
Chain == {I("alu", 1, 1, 1), I("jalr", 1, 1, 0), I("muld", 1, 0, 0),
          I("load", 1, 1, 0), I("store", 0, 1, 1)}
=============================================================================
