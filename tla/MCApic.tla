------------------------------- MODULE MCApic -------------------------------
(* Processors with and without bit 9 of either feature register (the APIC  *)
(* in EDX, SSSE3 in ECX), and a firmware that may leave all interrupts     *)
(* below its task priority.                                                *)
EXTENDS Apic

MCFeatures   == {9}
MCPriorities == {0, 240}

=============================================================================
