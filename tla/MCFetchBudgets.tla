--------------------------- MODULE MCFetchBudgets ---------------------------
EXTENDS FetchBudgets, TLC

MCHosts == {"careers", "provider"}
=============================================================================
