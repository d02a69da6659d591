----------------------------- MODULE MCAdmission -----------------------------
(* Two calls, two slots and a closer.                                      *)
EXTENDS Admission

CONSTANTS c1, c2, k1

MCCalls == {c1, c2}
MCClosers == {k1}
=============================================================================
