---------------------------- MODULE MCInboxSync ----------------------------
(* Small instances of InboxSync for TLC.                                    *)
EXTENDS InboxSync, TLC

CONSTANTS u1, v1

OneDevice == v1 :> u1

ProcessSymmetry == Permutations(Writers) \cup Permutations(Dispatchers)

(* Behaviours that start with the users as members, so that the bound on    *)
(* changes leaves room for one to leave and to return.                      *)
MemberInit == Init /\ \A c \in Conversations : conv[c].members = Users
MemberSpec == MemberInit /\ [][Next]_vars

=============================================================================
