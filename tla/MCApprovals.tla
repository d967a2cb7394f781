---------------------------- MODULE MCApprovals ----------------------------
(* Small instances of Approvals for TLC. *)
EXTENDS Approvals, TLC

CONSTANTS w1, w2, v1, v2, reset, disable

\* reset is a safe_write and disable is destructive, as in tools/src/identity.ts.
MCTier == (reset :> "safe_write") @@ (disable :> "destructive")
DisableTier == (disable :> "destructive")

=============================================================================
