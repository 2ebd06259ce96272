--------------------------- MODULE MC_TenantEpoch ---------------------------
EXTENDS TenantEpoch
=============================================================================
