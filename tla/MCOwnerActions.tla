--------------------------- MODULE MCOwnerActions ---------------------------
(* Two entries and one contract. *)
EXTENDS OwnerActions

TwoEntries  == <<"removePynth", "addPynths">>
OneContract == <<"Issuer">>
=============================================================================
