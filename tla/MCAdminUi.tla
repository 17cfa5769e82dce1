----------------------------- MODULE MCAdminUi ------------------------------
(* Values for the TLC runs of AdminUi. *)
EXTENDS AdminUi

CONSTANTS a1, a2, t1, t2

\* A person who waits, and one who does not while other things happen.
PatientAndNot == {{"expire"}, {"impatient", "expire", "rename"}}

=============================================================================
