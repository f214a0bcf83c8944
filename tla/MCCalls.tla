------------------------------ MODULE MCCalls ------------------------------
(* Instances of Calls for TLC.                                              *)
EXTENDS Calls, TLC

CONSTANTS ann, bob, cat, duo, trio

(* One direct chat *)
DirectOnly == duo :> {ann, bob}

(* A direct chat inside the membership of a group *)
GroupAndDirect == duo :> {ann, bob} @@ trio :> {ann, bob, cat}

(* Calls, and members of the same chats, are interchangeable. *)
PairSymmetry == Permutations({ann, bob}) \cup Permutations(CallIds)
=============================================================================
