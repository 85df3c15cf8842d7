-------------------------- MODULE MCCopyApprovals --------------------------
EXTENDS CopyProperties, TLC

(* Row ids are interchangeable, and so are approval requests. *)
ApprovalSymmetry ==
    Permutations(Trades) \cup Permutations(Approvers)

(* A restriction of Next for the violation run: no cooldown expires, so    *)
(* that the trace does not owe anything to a TTL that ran out.             *)
LastingCooldown == cooldown \subseteq cooldown'
LastingCooldownSpec == Init /\ [][Next /\ LastingCooldown]_vars
=============================================================================
