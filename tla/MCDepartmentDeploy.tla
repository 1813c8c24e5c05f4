------------------------- MODULE MCDepartmentDeploy -------------------------
(***************************************************************************)
(* Instances of DepartmentDeploy for TLC.                                  *)
(***************************************************************************)
EXTENDS DepartmentDeployProps

CONSTANTS s1, s2, admin
=============================================================================
