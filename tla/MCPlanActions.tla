---------------------------- MODULE MCPlanActions ----------------------------
\* TLC instance of PlanActions.
EXTENDS PlanActions
=============================================================================
