-------------------------- MODULE MCDocumentReview --------------------------
(* Small instances of DocumentReview. *)
EXTENDS DocumentReview, TLC

CONSTANTS passport, essay, visa_form

(* The passport and the essay are asked for in the application's stage,    *)
(* the essay for its program only; the visa form belongs to a later stage. *)
MCTemplateStage ==
  [tpl \in Templates |->
     IF tpl = visa_form THEN "visa_processing" ELSE "document_collection"]

MCTemplateProgram ==
  [tpl \in Templates |-> IF tpl = essay THEN "msc" ELSE "any"]

(* Neither the code nor a property tells two threads or two verifiers      *)
(* apart.                                                                  *)
MCSymmetry == Permutations(Threads) \cup Permutations(Verifiers)

=============================================================================
