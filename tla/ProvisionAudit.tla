--------------------------- MODULE ProvisionAudit ---------------------------
(***************************************************************************)
(* The audit record's keys, shared by the model of main() and the model of *)
(* run_bricklet_tests().                                                   *)
(***************************************************************************)
EXTENDS Integers

(* The keys main() and run_bricklet_tests() write into `result`.          *)
AuditKey == {"start", "serial", "qr_code", "accessories_qr_code", "uid",
             "firmware", "front_panel_button_tested", "front_panel_led_tested",
             "evse_version", "evse_uid", "master_uid", "jumper_config_checked",
             "diode_checked", "resistor_checked", "energy_meter_reachable",
             "nfc_tags_configured", "evse_firmware", "evse_test_report_found",
             "electrical_tests_passed", "end"}

(* The keys run_bricklet_tests() adds to `result` when it returns.         *)
BrickletKeys(c) ==
    {"front_panel_button_tested", "evse_version", "evse_uid",
     "jumper_config_checked", "diode_checked", "resistor_checked"}
    \cup (IF c.gen >= 3 THEN {"front_panel_led_tested"} ELSE {})
    \cup (IF c.variant = "B" THEN {"master_uid"} ELSE {})
    \cup (IF c.variant = "P" THEN {"energy_meter_reachable"} ELSE {})

=============================================================================
