---------------------------- MODULE MCGameState ----------------------------
EXTENDS GameState
============================================================================
