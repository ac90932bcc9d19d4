------------------------ MODULE MCConfirmationGate ------------------------
(* Small instances of the confirmation gate for TLC.                        *)
EXTENDS ConfirmationGate, TLC

=============================================================================
