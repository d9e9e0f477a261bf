----------------------------- MODULE MCRenameRob -----------------------------
EXTENDS RenameRob

Uop(k, l, x) == [kind |-> k, ldst |-> l, exception |-> x]

\* Width 2: what two instructions of a bundle can do to each other.  One may
\* fault in memory, one takes a branch tag and a register, one is alone in the
\* machine and flushes it, one faults in decode and writes no register.
WideUops == {Uop("load", 1, FALSE), Uop("jalr", 1, FALSE), Uop("csr", 1, FALSE), Uop("alu", 0, TRUE)}

\* Width 1: one of each that blocks the others.
LiveUops == {Uop("load", 1, FALSE), Uop("jalr", 1, FALSE), Uop("fence", 0, FALSE)}

\* A tag no branch in flight holds: its copy and its list are dead until the
\* next branch that gets the tag overwrites them.
LiveTags == {rob_uop[b].br_tag : b \in Unresolved}
LiveView == <<map_table, free_list, branch_mask, robVars, brinfo,
              [t \in LiveTags |-> br_copies[t]], [t \in LiveTags |-> allocation_lists[t]]>>
=============================================================================
