---------------------------- MODULE MCRunCommand ----------------------------
(* Instances of RunCommand for TLC.                                        *)
EXTENDS RunCommand
=============================================================================
