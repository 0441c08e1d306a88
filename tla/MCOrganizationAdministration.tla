-------------------- MODULE MCOrganizationAdministration --------------------
(***************************************************************************)
(* What staff and operators set up for an Organization: access, Issues,    *)
(* the collection of areas, the resident experience and its domain, on its *)
(* own and through the operators' commands. But for the domain and its     *)
(* commands they share no variable, so one run checks them one at a time:  *)
(* `focus` says which of them acts. Their people, and the other values     *)
(* that only need to be told apart, are the same model values.             *)
(***************************************************************************)
EXTENDS AccessManagement, IssueConfiguration, IntakeSettings, ResidentExperience,
        OperatorCommands, TLC

CONSTANTS p1, p2, p3, v1, v2, i1, i2, e1, e2, e3

VARIABLE focus

AdministrationVars ==
  <<accessVars, issueVars, intakeVars, residentVars, tenantVars, operatorVars, focus>>

ElevationsDef == {{"request"}, {"request", "execute"}, {"approve", "execute"}}
Symmetry == Permutations({p1, p2}) \cup Permutations({v1, v2}) \cup Permutations({e1, e2, e3})

Init ==
  /\ focus \in {"access", "issues", "intake", "resident", "tenant", "operators"}
  /\ AccessInit /\ IssueInit /\ IntakeInit /\ ResidentInit /\ OperatorInit
  /\ focus # "operators" => TenantInit

Next ==
  /\ UNCHANGED focus
  /\ \/ /\ focus = "access" /\ AccessNext
        /\ UNCHANGED <<issueVars, intakeVars, residentVars, tenantVars, operatorVars>>
     \/ /\ focus = "issues" /\ IssueNext
        /\ UNCHANGED <<accessVars, intakeVars, residentVars, tenantVars, operatorVars>>
     \/ /\ focus = "intake" /\ IntakeNext
        /\ UNCHANGED <<accessVars, issueVars, residentVars, tenantVars, operatorVars>>
     \/ /\ focus = "resident" /\ ResidentNext
        /\ UNCHANGED <<accessVars, issueVars, intakeVars, tenantVars, operatorVars>>
     \/ /\ focus = "tenant" /\ TenantNext
        /\ UNCHANGED <<accessVars, issueVars, intakeVars, residentVars, operatorVars>>
     \/ /\ focus = "operators" /\ OperatorNext
        /\ UNCHANGED <<accessVars, issueVars, intakeVars, residentVars>>

Spec == Init /\ [][Next]_AdministrationVars

TypeOK == AccessTypeOK /\ IssueTypeOK /\ IntakeTypeOK /\ ResidentTypeOK /\ TenantTypeOK
          /\ OperatorTypeOK
-----------------------------------------------------------------------------
(* EveryChangeAccounted, of a domain that is changed through the operators' commands; `TenantNext`
   alone is the registry's functions, whoever calls them (tenant-domain-operator-cli.ts:461). *)
CommandsAccounted == focus = "operators" => EveryChangeAccounted
=============================================================================
