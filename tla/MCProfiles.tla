----------------------------- MODULE MCProfiles -----------------------------
(* Instances of Profiles for TLC: both e-mails suggest the same username.     *)
EXTENDS Profiles

CONSTANTS amy, ben, team, m1, m2, n1, n2, n3, google, github, r1, r2

SameRoot(e) == n1
=============================================================================
