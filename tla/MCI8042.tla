------------------------------ MODULE MCI8042 ------------------------------
(* Configuration bytes with and without the keyboard's interrupt, one      *)
(* shift key, short polls.                                                 *)
EXTENDS I8042

MCConfigs == {69, 68}
MCKeys    == {42}

=============================================================================
