---------------------------- MODULE MCManagement ----------------------------
(* Instances of Management for TLC.                                        *)
EXTENDS Management, TLC

LeftTwo == <<"match", "selfplay">>
LeftNone == <<>>
=============================================================================
