----------------------------- MODULE MCContacts -----------------------------
(* Instances of Contacts for TLC.                                            *)
EXTENDS Contacts

CONSTANTS amy, ben
=============================================================================
