---------------------------- MODULE MCAdmission ----------------------------
(* A small instance of Admission for TLC: two slots for three users, so that *)
(* both caps can be the one that binds.                                      *)
EXTENDS Admission

CONSTANTS a1, a2, b1, b2, c1, ann, ben, cho

UserOf == [r \in Request |-> IF r \in {a1, a2} THEN ann ELSE IF r \in {b1, b2} THEN ben ELSE cho]
=============================================================================
