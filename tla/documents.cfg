SPECIFICATION Spec
CONSTANTS
  passport = passport
  essay = essay
  visa_form = visa_form
  Threads = {t1, t2}
  NoThread = NoThread
  Verifiers = {vera, vito}
  Nobody = Nobody
  Student = student
  Templates = {passport, essay, visa_form}
  NoTemplate = NoTemplate
  AskedTemplates = {NoTemplate, passport, foreign}
  TemplateStage <- MCTemplateStage
  TemplateProgram <- MCTemplateProgram
  NoProgram = "any"
  Required = {passport}
  AppStage = "document_collection"
  AppProgram = "msc"
  InitialDocs = 1
  MaxDocs = 3
  MaxRequests = 4
  Faults = {"read", "body", "store", "flush", "reload", "mail", "commit", "refresh", "crash"}
  MaxFaults = 1
SYMMETRY MCSymmetry
INVARIANTS DocumentInv RowsAreVerdicts VerdictsAreTold ReplacementsAreSound
PROPERTIES VerdictsStand
