--------------------------- MODULE MCInviteTokens ---------------------------
(* Instance of InviteTokens for TLC.                                       *)
EXTENDS InviteTokens, TLC

Symmetry == Permutations(Token) \cup Permutations(Invitee) \cup Permutations(Handler)
=============================================================================
