--------------------------- MODULE MCInboxDelivery ---------------------------
(* Small instances of InboxDelivery for TLC.                                *)
EXTENDS InboxDelivery, TLC

ProcessSymmetry == Permutations(Writers) \cup Permutations(Dispatchers)

=============================================================================
