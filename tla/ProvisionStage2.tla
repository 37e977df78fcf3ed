-------------------------- MODULE ProvisionStage2 --------------------------
(***************************************************************************)
(* The stage-2 provisioning run of a WARP2/WARP3 charger, as driven by     *)
(* main(), led_wrap() and the __main__ block of                            *)
(* src/provisioning/provision_stage_2_warp2.py.                            *)
(*                                                                         *)
(* The run is one thread of control.  Every call to the charger (HTTP,     *)
(* bricklet RPC), to the test rig or to the electrical tester is one step  *)
(* whose outcome the environment chooses: it answers ("ok"), the code      *)
(* calls fatal_error() ("fatal", a FatalError), or a Python exception      *)
(* escapes that no handler turns into a FatalError ("exc").  A step only   *)
(* gets the outcomes its code can produce.  The charger itself is reduced  *)
(* to the state the run changes: its firmware version and its user list.   *)
(*                                                                         *)
(* run_bricklet_tests() is one step here (BrickletTests); its own checks   *)
(* are modelled in a module of their own.                                  *)
(***************************************************************************)
EXTENDS Integers, FiniteSets, ProvisionAudit

CONSTANTS
    MaxComponent,   \* version numbers range over 0..MaxComponent
    MaxUsers,       \* the charger holds at most MaxUsers users at the start
    FlashAttempts   \* for i in range(5) around the firmware upload

ASSUME ConstantsAssumption ==
    /\ MaxComponent \in Nat
    /\ MaxUsers \in Nat /\ MaxUsers >= 4
    /\ FlashAttempts \in Nat \ {0}

VARIABLES
    pc,        \* where main()/led_wrap()/__main__ is
    cfg,       \* what the Scanner decoded from the QR codes
    fw,        \* firmware version installed on the charger's ESP brick
    latest,    \* version of the latest released firmware image
    users,     \* the charger's user configuration
    flashTry,  \* i of the firmware upload loop
    result,    \* keys of the audit record dict `result`
    report,    \* the *_report_stage_2.json file has been written
    err,       \* the exception unwinding main(): "none", "fatal" or "exc"
    rig,       \* the rig's LED strip: blue, the tag countdown ("blink"),
               \* green or red
    exitCode   \* process exit status, -1 while running; 1 stands for
               \* any non-zero status

vars == <<pc, cfg, fw, latest, users, flashTry, result, report, err, rig,
          exitCode>>

-----------------------------------------------------------------------------
(* Data.                                                                   *)

Version == (0..MaxComponent) \X (0..MaxComponent) \X (0..MaxComponent)

(* (mutant) the patch component ignored.                                   *)
VersionLessMajorMinor(a, b) ==
    \/ a[1] < b[1]
    \/ a[1] = b[1] /\ a[2] < b[2]

(* `version < latest_version` on Python lists of three ints:               *)
(* lexicographic order.                                                    *)
VersionLess(a, b) ==
    \/ a[1] < b[1]
    \/ a[1] = b[1] /\ a[2] < b[2]
    \/ a[1] = b[1] /\ a[2] = b[2] /\ a[3] < b[3]

(* The Scanner's fields that steer main(): variant B/S/P, generation,      *)
(* accessories code present, and tagAccess = stand # '0' /\ wiring # '0'  *)
(* (both are '0' unless an accessories code was scanned).                  *)
Config == {c \in [variant : {"B", "S", "P"}, gen : {2, 3},
                  acc : BOOLEAN, tagAccess : BOOLEAN] : c.tagAccess => c.acc}

(* users: the length of users/config's "users" list and whether            *)
(* users[1:] are the three canonical "Benutzer i" users.                   *)
UserState == [n : Nat, canon : BOOLEAN]

FactoryResetUsers == [n |-> 1, canon |-> FALSE]

Outcome == {"ok", "fatal", "exc"}

Label == {"start", "power_on", "rig_tags", "event_log", "compare", "flash",
          "validate", "fw_reset", "proxy", "bricklet", "users_get",
          "users_reset", "users_add", "nfc_config", "basic_connect",
          "report_check", "electrical", "remove_charges", "write_report",
          "confirm", "upload", "download", "finished", "unwind", "exit",
          "exited"}

StartKeys(c) ==
    {"start", "serial", "qr_code"}
    \cup (IF c.acc THEN {"accessories_qr_code"} ELSE {})

-----------------------------------------------------------------------------
(* Steps.                                                                  *)

(* A step fails: the exception unwinds main() into led_wrap().            *)
Raise(kind) ==
    /\ pc' = "unwind"
    /\ err' = kind
    /\ UNCHANGED <<cfg, fw, latest, users, flashTry, result, report, rig,
                   exitCode>>

(* A step succeeds: go on at `to` having recorded `keys` in `result`.      *)
Goto(to, keys) ==
    /\ pc' = to
    /\ result' = result \cup keys
    /\ UNCHANGED <<cfg, fw, latest, users, flashTry, report, err, rig,
                   exitCode>>

(* Step with the given outcomes: "ok" goes on, the others raise.          *)
Call(from, outcomes, to, keys) ==
    /\ pc = from
    /\ \E o \in outcomes :
          IF o = "ok" THEN Goto(to, keys) ELSE Raise(o)

Init ==
    /\ pc = "start"
    /\ cfg \in Config
    /\ fw \in Version
    /\ latest \in Version
    /\ users \in {u \in [n : 0..MaxUsers, canon : BOOLEAN] : u.canon => u.n = 4}
    /\ flashTry = 0
    /\ result = {}
    /\ report = FALSE
    /\ err = "none"
    /\ rig = "blue"
    /\ exitCode = -1

(* Record serial and QR codes, resolve the latest firmware symlinks        *)
(* (os.readlink raises OSError when they are missing).                     *)
Start == Call("start", {"ok", "exc"}, "power_on", StartKeys(cfg))

(* A basic charger goes on at the local bricklet stack; a non-basic one is *)
(* powered through stage3.power_on(), a rig call that can raise, and goes  *)
(* on at the rig's NFC tags.                                               *)
PowerOn ==
    /\ pc = "power_on"
    /\ \/ cfg.variant = "B" /\ Goto("basic_connect", {})
       \/ cfg.variant # "B" /\ Goto("rig_tags", {})
       \/ cfg.variant # "B" /\ Raise("exc")

(* An exception out of collect_nfc_tag_ids() (its getter raised): the      *)
(* strip keeps what blink_tick() last showed, blue or a countdown pattern  *)
(* of orange, black and blue; stop_blink() never runs.                     *)
RaiseInTagCollection ==
    /\ pc' = "unwind"
    /\ err' = "exc"
    /\ rig' \in {rig, "blink"}
    /\ UNCHANGED <<cfg, fw, latest, users, flashTry, result, report, exitCode>>

(* Without stand and wiring (qr_stand or qr_stand_wiring '0') the three    *)
(* tags are collected through the rig's reader; the loop blinks the strip  *)
(* and ends with stop_blink() back on blue, or raises when the reader      *)
(* does.  With them, nothing happens here.                                 *)
RigTags ==
    /\ pc = "rig_tags"
    /\ \/ Goto("event_log", {})
       \/ ~cfg.tagAccess /\ RaiseInTagCollection

(* connect_to_ethernet(ssid, "event_log") and the version regex: either    *)
(* fails fatally.                                                          *)
EventLog == Call("event_log", {"ok", "fatal"}, "compare", {"uid"})

(* Compare the flashed version with the latest one.                        *)
Compare ==
    /\ pc = "compare"
    /\ \/ VersionLess(latest, fw) /\ Raise("fatal")
       \/ VersionLess(fw, latest) /\ Goto("flash", {})
       \/ /\ ~VersionLess(latest, fw) /\ ~VersionLess(fw, latest)
          /\ Goto("proxy", {})

(* One pass of the upload loop.  Success: the charger takes the image.     *)
(* HTTPError (423 or other): fatal.  URLError: the image may or may not    *)
(* have landed; retry unless this was the last attempt.                    *)
FlashOk ==
    /\ pc = "flash"
    /\ pc' = "validate"
    /\ fw' = latest
    /\ UNCHANGED <<cfg, latest, users, flashTry, result, report, err, rig,
                   exitCode>>

FlashHTTPError ==
    /\ pc = "flash"
    /\ Raise("fatal")

(* (mutant) the i != 4 test dropped: every URLError is retried.            *)
FlashURLErrorUnbounded ==
    /\ pc = "flash"
    /\ fw' \in {fw, latest}
    /\ flashTry' = flashTry + 1
    /\ UNCHANGED <<pc, cfg, latest, users, result, report, err, rig, exitCode>>

FlashURLError ==
    /\ pc = "flash"
    /\ fw' \in {fw, latest}
    /\ IF flashTry # FlashAttempts - 1
         THEN /\ flashTry' = flashTry + 1
              /\ UNCHANGED <<pc, cfg, latest, users, result, report, err, rig,
                             exitCode>>
         ELSE /\ pc' = "unwind"
              /\ err' = "fatal"
              /\ UNCHANGED <<cfg, latest, users, flashTry, result, report,
                             rig, exitCode>>

(* connect_to_ethernet(ssid, "firmware_update/validate").                  *)
Validate == Call("validate", {"ok", "fatal"}, "fw_reset", {})

(* factory_reset(ssid) after an update: the charger comes back with its    *)
(* default user list.                                                      *)
FwReset ==
    /\ pc = "fw_reset"
    /\ \/ /\ pc' = "proxy"
          /\ users' = FactoryResetUsers
          /\ UNCHANGED <<cfg, fw, latest, flashTry, result, report, err, rig,
                         exitCode>>
       \/ Raise("fatal")

(* Record the firmware, enable the hidden proxy and connect ipcon to it.   *)
Proxy == Call("proxy", {"ok", "fatal"}, "bricklet", {"firmware"})

(* run_bricklet_tests(): unwrapped RPCs and HTTP reads raise plain         *)
(* exceptions, failed checks are fatal.  With stand and wiring it collects *)
(* the tags through the charger's reader (line 144), which can raise in    *)
(* the middle of the countdown blink.                                      *)
BrickletTests ==
    \/ Call("bricklet", {"ok", "fatal", "exc"},
            IF cfg.variant = "B" THEN "report_check" ELSE "users_get",
            BrickletKeys(cfg))
    \/ pc = "bricklet" /\ cfg.tagAccess /\ RaiseInTagCollection

(* (mutant) only a list longer than four is factory reset.                *)
UsersGetNoResetShort ==
    /\ pc = "users_get"
    /\ \/ /\ users.n = 4 /\ users.canon
          /\ Goto("nfc_config", {})
       \/ /\ users.n < 4
          /\ Goto("users_add", {})
       \/ /\ users.n > 4 \/ (users.n = 4 /\ ~users.canon)
          /\ Goto("users_reset", {})
       \/ Raise("fatal")
       \/ Raise("exc")

(* Read users/config and decide (lines 653-667): a list of 4 whose last    *)
(* three are canonical is kept; a list of one gets the three users added;  *)
(* any other list is factory reset first.  A failed read is fatal for an   *)
(* HTTPError; any other error makes e.read() raise AttributeError.         *)
UsersGet ==
    /\ pc = "users_get"
    /\ \/ /\ users.n = 4 /\ users.canon
          /\ Goto("nfc_config", {})
       \/ /\ users.n = 1
          /\ Goto("users_add", {})
       \/ /\ users.n \notin {1, 4} \/ (users.n = 4 /\ ~users.canon)
          /\ Goto("users_reset", {})
       \/ Raise("fatal")
       \/ Raise("exc")

(* factory_reset(ssid) and connect_to_ethernet(ssid, "hidden_proxy/enable").*)
UsersReset ==
    /\ pc = "users_reset"
    /\ \/ /\ pc' = "users_add"
          /\ users' = FactoryResetUsers
          /\ UNCHANGED <<cfg, fw, latest, flashTry, result, report, err, rig,
                         exitCode>>
       \/ Raise("fatal")

(* PUT users/add for ids 1, 2, 3.                                          *)
UsersAdd ==
    /\ pc = "users_add"
    /\ \/ /\ pc' = "nfc_config"
          /\ users' = [n |-> users.n + 3, canon |-> users.n = 1]
          /\ UNCHANGED <<cfg, fw, latest, flashTry, result, report, err, rig,
                         exitCode>>
       \/ Raise("fatal")
       \/ Raise("exc")

(* PUT nfc/config_update binding seen_tags[0..2] to users 1..3.            *)
NfcConfig ==
    Call("nfc_config", {"ok", "fatal", "exc"}, "report_check",
         {"nfc_tags_configured"})

(* Basic charger: ipcon.connect("localhost") (a plain exception on         *)
(* failure), find the EVSE bricklet or fail, flash it.                     *)
BasicConnect ==
    Call("basic_connect", {"ok", "fatal", "exc"}, "bricklet",
         {"uid", "evse_firmware"})

(* (mutant) result["evse_test_report_found"] never set.                     *)
ReportCheckUnrecorded ==
    Call("report_check", {"ok", "fatal", "exc"}, "electrical", {})

(* exists_evse_test_report(), git pull, check again: the CSV open raises   *)
(* when the report directory is missing.                                   *)
ReportCheck ==
    Call("report_check", {"ok", "fatal", "exc"}, "electrical",
         {"evse_test_report_found"})

(* stage3.test_wallbox(); a non-basic charger also opens a browser, which  *)
(* can raise.                                                              *)
Electrical ==
    Call("electrical",
         IF cfg.variant = "B" THEN {"ok", "fatal"} ELSE {"ok", "fatal", "exc"},
         IF cfg.variant = "B" THEN "write_report" ELSE "remove_charges",
         {"electrical_tests_passed"})

(* charge_tracker/remove_all_charges polled 45 times.                      *)
RemoveCharges == Call("remove_charges", {"ok", "fatal"}, "write_report", {})

(* result["end"] and json.dump(result) into the report file.               *)
WriteReport ==
    /\ pc = "write_report"
    /\ pc' = "confirm"
    /\ result' = result \cup {"end"}
    /\ report' = TRUE
    /\ UNCHANGED <<cfg, fw, latest, users, flashTry, err, rig, exitCode>>

(* The operator connects the electrical tester and answers y.              *)
Confirm == Call("confirm", {"ok"}, "upload", {})

(* handle_electrical_test_report('upload', None, 180) and                  *)
(* handle_electrical_test_report('download', serial, 300): a timeout or a  *)
(* _failure marker is fatal; a missing monitor directory raises.           *)
Upload == Call("upload", {"ok", "fatal", "exc"}, "download", {})

Download == Call("download", {"ok", "fatal", "exc"}, "finished", {})

(* (mutant) the green colour set in a `finally:` clause instead of the     *)
(* `else:` branch, so it also follows the red of a failed run.             *)
LedWrapFinally ==
    /\ pc \in {"finished", "unwind"}
    /\ pc' = "exit"
    /\ rig' = "green"
    /\ UNCHANGED <<cfg, fw, latest, users, flashTry, result, report, err,
                   exitCode>>

(* led_wrap(): on a normal return power off, show green and beep_success() *)
(* (the else branch, 398-401); on any exception power off, show red,       *)
(* beep_failure() and re-raise (392-397).  Each of these rig calls can     *)
(* raise: before the colour is set the strip keeps its colour, and a beep  *)
(* that fails after it leaves green or red.  Either way a plain exception  *)
(* leaves led_wrap().                                                      *)
LedWrap ==
    /\ pc \in {"finished", "unwind"}
    /\ pc' = "exit"
    /\ \/ pc = "finished" /\ rig' = "green" /\ err' \in {"none", "exc"}
       \/ pc = "unwind" /\ rig' = "red" /\ err' \in {err, "exc"}
       \/ rig' = rig /\ err' = "exc"
    /\ UNCHANGED <<cfg, fw, latest, users, flashTry, result, report, exitCode>>

(* (mutant) only `except FatalError` exits 1; another exception, after    *)
(* its traceback, lets the script end with status 0.                       *)
ExitProcessFatalOnly ==
    /\ pc = "exit"
    /\ pc' = "exited"
    /\ exitCode' = IF err = "fatal" THEN 1 ELSE 0
    /\ UNCHANGED <<cfg, fw, latest, users, flashTry, result, report, err, rig>>

(* __main__: sys.exit(1) on FatalError and, after printing the traceback,  *)
(* on any other Exception.  After a normal return it still prompts (line   *)
(* 829, inside the try): status 0 when the prompt returns; an EOFError     *)
(* there takes the except Exception path to sys.exit(1), a                 *)
(* KeyboardInterrupt ends the process with a non-zero status.              *)
ExitProcess ==
    /\ pc = "exit"
    /\ pc' = "exited"
    /\ \/ err = "none" /\ exitCode' = 0
       \/ exitCode' = 1
    /\ UNCHANGED <<cfg, fw, latest, users, flashTry, result, report, err, rig>>

(* The process has ended.                                                  *)
Terminated == pc = "exited" /\ UNCHANGED vars

Next ==
    \/ Start \/ PowerOn \/ RigTags \/ EventLog \/ Compare
    \/ FlashOk \/ FlashHTTPError \/ FlashURLError \/ Validate \/ FwReset
    \/ Proxy \/ BrickletTests \/ UsersGet \/ UsersReset \/ UsersAdd
    \/ NfcConfig \/ BasicConnect \/ ReportCheck \/ Electrical
    \/ RemoveCharges \/ WriteReport \/ Confirm \/ Upload \/ Download
    \/ LedWrap \/ ExitProcess \/ Terminated

(* The run is a single thread that keeps executing; the operator's         *)
(* prompts (QR scans, tags, the y before the electrical test) are          *)
(* eventually answered.                                                    *)
Spec == Init /\ [][Next]_vars /\ WF_vars(Next)

-----------------------------------------------------------------------------
(* Properties.                                                             *)

(* The keys a complete audit record holds for a charger of config c.       *)
RequiredKeys(c) ==
    StartKeys(c) \cup BrickletKeys(c)
    \cup {"uid", "evse_test_report_found", "electrical_tests_passed", "end"}
    \cup (IF c.variant = "B" THEN {"evse_firmware"}
                             ELSE {"firmware", "nfc_tags_configured"})

TypeOK ==
    /\ pc \in Label
    /\ cfg \in Config
    /\ fw \in Version /\ latest \in Version
    /\ users \in UserState
    /\ flashTry \in 0..(FlashAttempts - 1)
    /\ result \subseteq AuditKey
    /\ report \in BOOLEAN
    /\ err \in {"none", "fatal", "exc"}
    /\ rig \in {"blue", "blink", "green", "red"}
    /\ exitCode \in {-1, 0, 1}

(* A written report file is a complete audit record: main() cannot reach   *)
(* json.dump(result) having skipped a checkpoint its variant, generation   *)
(* and accessories require.                                                *)
ReportComplete == report => RequiredKeys(cfg) \subseteq result

(* The bricklet tests of a networked charger run against, and its report   *)
(* names, the latest released firmware: the version compare and the upload *)
(* loop never let an outdated charger through.                             *)
FirmwareCurrent ==
    cfg.variant # "B" /\ (pc = "bricklet" \/ report) => fw = latest

(* When nfc/config_update binds the tags to users 1..3, the charger holds  *)
(* exactly the admin and the three canonical users, whatever user list it *)
(* came with (lines 647-702).                                              *)
UsersReadyForTags ==
    pc = "nfc_config" => users = [n |-> 4, canon |-> TRUE]

(* Status 0 means the run passed: the process exits 0 only when led_wrap() *)
(* showed green, main() raised nothing and the report file is on disk.     *)
(* led_wrap() catches every BaseException and __main__ catches FatalError  *)
(* and Exception separately; an exception of either kind must exit 1.      *)
ExitZeroMeansPassed ==
    pc = "exited" /\ exitCode = 0 => rig = "green" /\ err = "none" /\ report

(* The exit status and the LED tell the same story: status 0 exactly when  *)
(* the strip shows green (spec section 3: the success cleanup, with the    *)
(* green indicator, is normal completion, and section 5: normal completion *)
(* exits 0).                                                               *)
ExitStatusTruthful == pc = "exited" => (exitCode = 0 <=> rig = "green")

(* The strip turns green only in led_wrap()'s else branch (lines 398-400): *)
(* after main() returned normally, with the report file written.  Neither  *)
(* the tag countdown nor a failed run's cleanup ever shows it.             *)
LedVerdict ==
    [][rig' = "green" /\ rig # "green" => report /\ err = "none"]_vars

(* A report file on disk means the run passed (spec section 4.8: the       *)
(* record is persisted at normal completion only).                         *)
ReportMeansPassed == pc = "exited" /\ report => err = "none"

=============================================================================
