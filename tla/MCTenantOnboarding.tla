------------------------- MODULE MCTenantOnboarding -------------------------
EXTENDS TenantOnboarding

CONSTANTS t1, t2

MCFiles ==
  {[extension |-> ".png", type |-> "image/png", size |-> "small"],
   [extension |-> ".png", type |-> "text/html", size |-> "small"],
   [extension |-> ".webp", type |-> "image/webp", size |-> "over 2 MB"]}
=============================================================================
