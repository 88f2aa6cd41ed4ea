------------------------------- MODULE MCFlow -------------------------------
(* One browser with two files to upload, and a project that is analyzed three *)
(* times and rendered once.                                                    *)
EXTENDS FlowProperties
=============================================================================
