------------------------------ MODULE MCContainers ------------------------------
(* Constants for TLC.                                                        *)
EXTENDS Containers

CONSTANTS web, main, db, q

MCNoFound == {}
MCFound == {<<main, db>>}
================================================================================
