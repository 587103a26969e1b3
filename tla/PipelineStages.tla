--------------------------- MODULE PipelineStages ---------------------------
(***************************************************************************)
(* The application pipeline's stages and the rule table that says which    *)
(* stage may follow which: backend/app/pipeline and                        *)
(* backend/app/services/stage_progression.py.                              *)
(*                                                                         *)
(* A tenant may override single platform-default rules, in either          *)
(* direction.  Nothing in the application writes a tenant rule or          *)
(* deactivates a default one (only operators do, in the database), so both *)
(* are constants.                                                          *)
(***************************************************************************)
EXTENDS FiniteSets

CONSTANTS
  TenantRules,          \* records [from, to, is_active] of the tenant's rows
  DeactivatedDefaults   \* default pairs whose row has is_active = FALSE

ForwardPath ==
  {<<"registered", "counseling">>,
   <<"counseling", "university_shortlisting">>,
   <<"university_shortlisting", "application_submitted">>,
   <<"application_submitted", "document_verification">>,
   <<"document_verification", "offer_letter">>,
   <<"offer_letter", "visa_processing">>,
   <<"visa_processing", "enrolled">>}

LoanLoop ==
  {<<"visa_processing", "loan_processing">>,
   <<"loan_processing", "visa_processing">>}

TerminalStages == {"enrolled", "rejected", "withdrawn"}

Stages ==
  {"registered", "counseling", "university_shortlisting",
   "application_submitted", "document_verification", "offer_letter",
   "visa_processing", "loan_processing"} \cup TerminalStages

NonTerminalStages == Stages \ TerminalStages

\* Every open application may be rejected or withdrawn.
DefaultTransitions ==
  ForwardPath \cup LoanLoop \cup (NonTerminalStages \X {"rejected", "withdrawn"})

ASSUME TenantRulesAssumption ==
  /\ TenantRules \subseteq [from : Stages, to : Stages, is_active : BOOLEAN]
  /\ DeactivatedDefaults \subseteq DefaultTransitions
  \* A rule leads somewhere else (it would otherwise write nothing).
  /\ \A r \in TenantRules : r.from # r.to
  \* UNIQUE (from_stage, to_stage, tenant_id)
  /\ \A r, s \in TenantRules : r.from = s.from /\ r.to = s.to => r = s

HasTenantRule(from, to) ==
  \E r \in TenantRules : r.from = from /\ r.to = to

(* The tenant's own rule wins, whatever it says; else the default counts.  *)
IsValidTransition(from, to) ==
  /\ from \notin TerminalStages
  /\ IF HasTenantRule(from, to)
     THEN [from |-> from, to |-> to, is_active |-> TRUE] \in TenantRules
     ELSE <<from, to>> \in DefaultTransitions \ DeactivatedDefaults
=============================================================================
