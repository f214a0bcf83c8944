----------------------------- MODULE MCMessages -----------------------------
(* Instances of Messages for TLC.                                            *)
EXTENDS Messages, TLC

CONSTANTS amy, ben, cal

Sent == {[declared |-> "none", mimes |-> {}],
         [declared |-> "none", mimes |-> {"audio", "video"}]}

RequestSymmetry == Permutations(Requests)
=============================================================================
