---------------------------- MODULE MCFastState ----------------------------
EXTENDS FastState
============================================================================
