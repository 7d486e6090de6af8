------------------------------ MODULE Processes ------------------------------
(* The processes that share the two key tables of one database. *)
CONSTANTS
    Instances,  \* server processes, each with its own memory and mutex
    Commands,   \* runs of a rotation command beside them
    None

ASSUME CommandsAssumption == Commands \cap Instances = {}
=============================================================================
