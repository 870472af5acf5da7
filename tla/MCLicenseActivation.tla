------------------------ MODULE MCLicenseActivation ------------------------
(* Model-checking instance of LicenseActivation. *)
EXTENDS LicenseActivation, TLC

\* No property tells handlers, machines or row ids apart.
Symmetric == Permutations(Handlers) \cup Permutations(Machines) \cup Permutations(RowIds)
=============================================================================
