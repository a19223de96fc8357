----------------------------- MODULE MCCommands -----------------------------
(* The instance of the control tool that takes every command, and what its *)
(* theorems assume of the descriptors, evaluated on all of the instances.  *)
EXTENDS MCId14ctl

(* The entities of these instances are what their bytes parse to, so that  *)
(* the declared entities of a world, whole or cut, are what they are said  *)
(* to be (CutFromDeclared in Id14ctlPlanProofs).                           *)
ASSUME DeclaredIsParsed ==
  \A ac \in {AllKinds, Loop, Mk2Entities, Small} :
    ParseEntities(EncodeAll(ac)) = Parsed("none", ac)
=============================================================================
