------------------------------- MODULE MCDPKeys -------------------------------
(* DPKeys on small instances.  Keys and processes are interchangeable. *)
EXTENDS DPKeys, TLC

RingSymmetry == Permutations(RingKeys) \cup Permutations(Instances)
                \cup Permutations(Commands)
=============================================================================
