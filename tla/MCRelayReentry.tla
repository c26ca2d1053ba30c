--------------------------- MODULE MCRelayReentry ---------------------------
(***************************************************************************)
(* Small instances of RelayReentry.                                        *)
(***************************************************************************)
EXTENDS RelayReentry, TLC

(* Users are told apart by nothing but their end points, and Realm objects *)
(* by nothing at all.  Not for liveness.                                   *)
Symmetry == Permutations(EndPoint) \cup Permutations(Object)
=============================================================================
