-------------------------- MODULE CoherencePolicy --------------------------
(***************************************************************************)
(* The coherence policies of uncore/src/main/scala/coherence.scala.  A     *)
(* policy object is a record of tables; the chip is built with one of them *)
(* (ReferenceChip.scala, Top.co).  The enumerations of the four classes    *)
(* are merged: MICoherence's tileValid is "ExclusiveDirty", because it is  *)
(* writable and always written back, and MEICoherence's                    *)
(* acquireReadExclusiveDirty is "readExclusive".  The word and atomic      *)
(* uncached types are left out: no agent of the chip issues them.          *)
(***************************************************************************)

\* Memory commands; an AMO is a store as far as a policy can tell.
Cmds == {"load", "store", "lr", "sc", "pfr", "pfw"}

isPrefetch(cmd) == cmd \in {"pfr", "pfw"}
isRead(cmd) == cmd \in {"load", "lr"}
isWrite(cmd) == cmd \in {"store", "sc"}
isWriteIntent(cmd) == isWrite(cmd) \/ cmd \in {"pfw", "lr"}

TileStates == {"Invalid", "Shared", "ExclusiveClean", "ExclusiveDirty"}
AcquireTypes == {"readShared", "readExclusiveClean", "readExclusive",
                 "readUncached", "writeUncached"}
ProbeTypes == {"invalidate", "downgrade", "copy"}
ReleaseTypes == {"voluntaryInvalidateData",
                 "invalidateData", "downgradeData", "copyData",
                 "invalidateAck", "downgradeAck", "copyAck"}
GrantTypes == {"voluntaryAck", "readShared", "readExclusive",
               "readUncached", "writeUncached"}

\* What the four classes define alike.
isValid(st) == st # "Invalid"
newStateOnFlush == "Invalid"
messageIsUncached(a_type) == a_type \in {"readUncached", "writeUncached"}
acquireHasData(a_type) == a_type = "writeUncached"
releaseHasData(r_type) ==
    r_type \in {"voluntaryInvalidateData", "invalidateData", "downgradeData", "copyData"}
messageUpdatesDataArray(g_type) == g_type \in {"readShared", "readExclusive"}
isVoluntary(r_type) == r_type = "voluntaryInvalidateData"
needsOuterRead(a_type) == a_type # "writeUncached"
requiresAckForGrant(g_type) == g_type # "voluntaryAck"
isCoherenceConflict(addr1, addr2) == addr1 = addr2

UncachedProbe(a_type) == IF a_type = "writeUncached" THEN "invalidate" ELSE "copy"
UncachedGrant(a_type) == IF a_type = "writeUncached" THEN "writeUncached" ELSE "readUncached"

\* Mutant: the answer to a probe never says that data comes with it.
ReleaseOnProbe_ack_only(p_type, dirty) ==
    CASE p_type = "invalidate" -> "invalidateAck"
      [] p_type = "downgrade"  -> "downgradeAck"
      [] p_type = "copy"       -> "copyAck"

\* Mux(needsWriteback(state), with_data, without_data)
ReleaseOnProbe(p_type, dirty) ==
    CASE p_type = "invalidate" -> IF dirty THEN "invalidateData" ELSE "invalidateAck"
      [] p_type = "downgrade"  -> IF dirty THEN "downgradeData" ELSE "downgradeAck"
      [] p_type = "copy"       -> IF dirty THEN "copyData" ELSE "copyAck"

\* Mutant: a probed line keeps its permissions.
NewStateOnProbe_kept(p_type, st, downgraded) == st

NewStateOnProbe(p_type, st, downgraded) ==
    CASE p_type = "invalidate" -> "Invalid"
      [] p_type = "downgrade"  -> downgraded
      [] p_type = "copy"       -> st

MICoherence ==
    [ isHit          |-> [cmd \in Cmds |-> {"ExclusiveDirty"}],
      newStateOnHit  |-> [cmd \in Cmds |-> [st \in TileStates |-> st]],
      needsWriteback |-> {"ExclusiveDirty"},
      newStateOnGrant |-> [g \in GrantTypes |-> [a \in AcquireTypes |->
          IF g = "readExclusive" THEN "ExclusiveDirty" ELSE "Invalid"]],
      newStateOnProbe |-> [p \in ProbeTypes |-> [st \in TileStates |->
          NewStateOnProbe(p, st, st)]],
      acquireOnMiss  |-> [cmd \in Cmds |-> "readExclusive"],
      acquireOnSecondary |-> [cmd \in Cmds |-> [a \in AcquireTypes |-> "readExclusive"]],
      needsTransactionOnSecondaryMiss |-> [cmd \in Cmds |-> [a \in AcquireTypes |->
          a # "readExclusive"]],
      getProbeType   |-> [a \in AcquireTypes |->
          IF a = "readExclusive" THEN "invalidate" ELSE UncachedProbe(a)],
      getGrantType   |-> [a \in AcquireTypes |-> [sharers \in BOOLEAN |->
          IF a = "readExclusive" THEN "readExclusive" ELSE UncachedGrant(a)]] ]

MEICoherence ==
    [ isHit          |-> [cmd \in Cmds |-> {"ExclusiveClean", "ExclusiveDirty"}],
      newStateOnHit  |-> [cmd \in Cmds |-> [st \in TileStates |->
          IF isWrite(cmd) THEN "ExclusiveDirty" ELSE st]],
      needsWriteback |-> {"ExclusiveDirty"},
      newStateOnGrant |-> [g \in GrantTypes |-> [a \in AcquireTypes |->
          IF g # "readExclusive" THEN "Invalid"
          ELSE IF a = "readExclusive" THEN "ExclusiveDirty" ELSE "ExclusiveClean"]],
      newStateOnProbe |-> [p \in ProbeTypes |-> [st \in TileStates |->
          NewStateOnProbe(p, st, "ExclusiveClean")]],
      acquireOnMiss  |-> [cmd \in Cmds |->
          IF isWriteIntent(cmd) THEN "readExclusive" ELSE "readExclusiveClean"],
      acquireOnSecondary |-> [cmd \in Cmds |-> [a \in AcquireTypes |->
          IF isWriteIntent(cmd) THEN "readExclusive" ELSE a]],
      needsTransactionOnSecondaryMiss |-> [cmd \in Cmds |-> [a \in AcquireTypes |->
          \/ isRead(cmd) /\ messageIsUncached(a)
          \/ isWriteIntent(cmd) /\ a # "readExclusive"]],
      getProbeType   |-> [a \in AcquireTypes |->
          IF a \in {"readExclusive", "readExclusiveClean"} THEN "invalidate"
          ELSE UncachedProbe(a)],
      getGrantType   |-> [a \in AcquireTypes |-> [sharers \in BOOLEAN |->
          IF a \in {"readExclusive", "readExclusiveClean"} THEN "readExclusive"
          ELSE UncachedGrant(a)]] ]

MSICoherence ==
    [ isHit          |-> [cmd \in Cmds |->
          IF isWriteIntent(cmd) THEN {"ExclusiveDirty"} ELSE {"Shared", "ExclusiveDirty"}],
      newStateOnHit  |-> [cmd \in Cmds |-> [st \in TileStates |->
          IF isWrite(cmd) THEN "ExclusiveDirty" ELSE st]],
      needsWriteback |-> {"ExclusiveDirty"},
      newStateOnGrant |-> [g \in GrantTypes |-> [a \in AcquireTypes |->
          CASE g = "readShared" -> "Shared"
            [] g = "readExclusive" -> "ExclusiveDirty"
            [] OTHER -> "Invalid"]],
      newStateOnProbe |-> [p \in ProbeTypes |-> [st \in TileStates |->
          NewStateOnProbe(p, st, "Shared")]],
      acquireOnMiss  |-> [cmd \in Cmds |->
          IF isWriteIntent(cmd) THEN "readExclusive" ELSE "readShared"],
      acquireOnSecondary |-> [cmd \in Cmds |-> [a \in AcquireTypes |->
          IF isWriteIntent(cmd) THEN "readExclusive" ELSE a]],
      needsTransactionOnSecondaryMiss |-> [cmd \in Cmds |-> [a \in AcquireTypes |->
          \/ isRead(cmd) /\ messageIsUncached(a)
          \/ isWriteIntent(cmd) /\ a # "readExclusive"]],
      getProbeType   |-> [a \in AcquireTypes |->
          CASE a = "readShared" -> "downgrade"
            [] a = "readExclusive" -> "invalidate"
            [] OTHER -> UncachedProbe(a)],
      getGrantType   |-> [a \in AcquireTypes |-> [sharers \in BOOLEAN |->
          CASE a = "readShared" -> IF sharers THEN "readShared" ELSE "readExclusive"
            [] a = "readExclusive" -> "readExclusive"
            [] OTHER -> UncachedGrant(a)]] ]

\* The policy the chip is built with (ENABLE_SHARING, ENABLE_CLEAN_EXCLUSIVE).
MESICoherence ==
    [ isHit          |-> [cmd \in Cmds |->
          IF isWriteIntent(cmd) THEN {"ExclusiveClean", "ExclusiveDirty"}
          ELSE {"Shared", "ExclusiveClean", "ExclusiveDirty"}],
      newStateOnHit  |-> [cmd \in Cmds |-> [st \in TileStates |->
          IF isWrite(cmd) THEN "ExclusiveDirty" ELSE st]],
      needsWriteback |-> {"ExclusiveDirty"},
      newStateOnGrant |-> [g \in GrantTypes |-> [a \in AcquireTypes |->
          CASE g = "readShared" -> "Shared"
            [] g = "readExclusive" ->
                 IF a = "readExclusive" THEN "ExclusiveDirty" ELSE "ExclusiveClean"
            [] OTHER -> "Invalid"]],
      newStateOnProbe |-> [p \in ProbeTypes |-> [st \in TileStates |->
          NewStateOnProbe(p, st, "Shared")]],
      acquireOnMiss  |-> [cmd \in Cmds |->
          IF isWriteIntent(cmd) THEN "readExclusive" ELSE "readShared"],
      acquireOnSecondary |-> [cmd \in Cmds |-> [a \in AcquireTypes |->
          IF isWriteIntent(cmd) THEN "readExclusive" ELSE a]],
      needsTransactionOnSecondaryMiss |-> [cmd \in Cmds |-> [a \in AcquireTypes |->
          \/ isRead(cmd) /\ messageIsUncached(a)
          \/ isWriteIntent(cmd) /\ a # "readExclusive"]],
      getProbeType   |-> [a \in AcquireTypes |->
          CASE a = "readShared" -> "downgrade"
            [] a = "readExclusive" -> "invalidate"
            [] OTHER -> UncachedProbe(a)],
      getGrantType   |-> [a \in AcquireTypes |-> [sharers \in BOOLEAN |->
          CASE a = "readShared" -> IF sharers THEN "readShared" ELSE "readExclusive"
            [] a = "readExclusive" -> "readExclusive"
            [] OTHER -> UncachedGrant(a)]] ]
============================================================================
