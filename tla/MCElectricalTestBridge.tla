---------------------- MODULE MCElectricalTestBridge ----------------------
(* Two-tick deadlines, one earlier run's markers stamped 0, this run's     *)
(* clock starting at 1.                                                    *)
EXTENDS ElectricalTestBridge

MCUploadTimeout == 2
MCDownloadTimeout == 2
MCOldStamps == {0}
MCRunStart == 1

=============================================================================
