--------------------- MODULE ProvisionStage2Invariants ---------------------
(***************************************************************************)
(* Proofs of the safety properties of the stage-2 run that the first      *)
(* proof module leaves to TLC: FirmwareCurrent, UsersReadyForTags,         *)
(* ExitZeroMeansPassed and LedVerdict, for every value of the constants.   *)
(***************************************************************************)
EXTENDS ProvisionStage2Proofs

-----------------------------------------------------------------------------
(* Lemmas about the version order.                                         *)

(* Neither of two versions is below the other only when they are equal:  *)
(* the lexicographic compare of lines 596-598 has no blind spot, so the   *)
(* "equal" branch of Compare is taken only for the latest version.         *)
LEMMA VersionTrichotomy ==
    ASSUME NEW a \in Version, NEW b \in Version,
           ~VersionLess(a, b), ~VersionLess(b, a)
    PROVE  a = b
<1>1. a[1] = b[1] /\ a[2] = b[2] /\ a[3] = b[3]
  BY ConstantsAssumption DEF Version, VersionLess
<1>2. \E x1, x2, x3 \in 0..MaxComponent : a = <<x1, x2, x3>>
  BY DEF Version
<1>3. \E y1, y2, y3 \in 0..MaxComponent : b = <<y1, y2, y3>>
  BY DEF Version
<1>4. QED
  BY <1>1, <1>2, <1>3

(* VersionLess is irreflexive: a version is never below itself.            *)
LEMMA VersionIrreflexive ==
    ASSUME NEW a \in Version
    PROVE  ~VersionLess(a, a)
BY ConstantsAssumption DEF Version, VersionLess

-----------------------------------------------------------------------------
(* The inductive invariant.                                                *)
(*                                                                         *)
(* None of the three properties is inductive alone.  FirmwareCurrent says  *)
(* nothing before "bricklet" and must know that fw already equals latest   *)
(* when Proxy moves there, that no flash happens once the report exists    *)
(* and that a networked charger never takes the basic branch.              *)
(* UsersReadyForTags needs the state users_add starts from.                *)
(* ExitZeroMeansPassed needs err to be "none" on the normal path and never *)
(* after an exception, and green and the report to be settled by the time *)
(* led_wrap() returns with no exception.                                   *)

(* Labels a networked charger reaches only with fw = latest: after the     *)
(* upload (validate, fw_reset) or after an equal compare (proxy), and      *)
(* everything after them.                                                  *)
FwSettled == {"validate", "fw_reset", "proxy", "bricklet", "users_get",
              "users_reset", "users_add", "nfc_config", "report_check",
              "electrical", "remove_charges", "write_report", "confirm",
              "upload", "download", "finished"}

(* Labels the run can be at once the report file exists.                   *)
AfterReport == {"confirm", "upload", "download", "finished", "unwind", "exit",
                "exited"}

(* Labels after json.dump(result): the report file exists there.          *)
Written == {"confirm", "upload", "download", "finished"}

FwAt == cfg.variant # "B" /\ pc \in FwSettled => fw = latest

ReportLate == report => pc \in AfterReport

ReportFw == report /\ cfg.variant # "B" => fw = latest

BasicOnly == pc = "basic_connect" => cfg.variant = "B"

UsersAddFrom == pc = "users_add" => users.n = 1

Running == pc \notin {"unwind", "exit", "exited"} => err = "none"

Unwinding == pc = "unwind" => err # "none"

LedTells == pc \in {"exit", "exited"} /\ err = "none" => rig = "green" /\ report

ExitTells == pc = "exited" /\ exitCode = 0 => err = "none"

ReportWritten == pc \in Written => report

PInv ==
    /\ FwAt /\ ReportLate /\ ReportFw /\ BasicOnly
    /\ UsersAddFrom /\ UsersReadyForTags
    /\ Running /\ Unwinding /\ LedTells /\ ExitTells
    /\ ReportWritten

(* A successful step keeps PInv when its target is a label of the normal  *)
(* path that the run may reach from where it is.                           *)
LEMMA GotoP ==
    ASSUME PInv, NEW to, NEW keys, Goto(to, keys),
           pc \notin {"unwind", "exit", "exited"},
           to \notin {"unwind", "exit", "exited"},
           cfg.variant # "B" /\ to \in FwSettled => fw = latest,
           report => to \in AfterReport,
           to = "basic_connect" => cfg.variant = "B",
           to = "users_add" => users.n = 1,
           to = "nfc_config" => users = [n |-> 4, canon |-> TRUE],
           to \in Written => report
    PROVE  PInv'
<1>1. /\ pc' = to
      /\ UNCHANGED <<cfg, fw, latest, users, report, err, rig, exitCode>>
  BY DEF Goto
<1>2. FwAt'
  BY <1>1 DEF FwAt
<1>3. ReportLate' /\ ReportFw' /\ ReportWritten'
  BY <1>1 DEF PInv, ReportLate, ReportFw, ReportWritten
<1>4. BasicOnly' /\ UsersAddFrom' /\ UsersReadyForTags'
  BY <1>1 DEF BasicOnly, UsersAddFrom, UsersReadyForTags
<1>5. Running' /\ Unwinding' /\ LedTells' /\ ExitTells'
  BY <1>1 DEF PInv, Running, Unwinding, LedTells, ExitTells
<1>6. QED
  BY <1>2, <1>3, <1>4, <1>5 DEF PInv

(* A failing step keeps PInv: it unwinds with an exception that is not     *)
(* "none".                                                                 *)
LEMMA RaiseP ==
    ASSUME PInv, NEW kind, kind # "none", Raise(kind),
           pc \notin {"unwind", "exit", "exited"}
    PROVE  PInv'
BY DEF Raise, PInv, FwAt, FwSettled, ReportLate, AfterReport, ReportFw,
       BasicOnly, UsersAddFrom, UsersReadyForTags, Running, Unwinding,
       LedTells, ExitTells, ReportWritten, Written

(* So does an exception out of the tag countdown, whatever it leaves on    *)
(* the LED strip.                                                          *)
LEMMA TagRaiseP ==
    ASSUME PInv, RaiseInTagCollection,
           pc \notin {"unwind", "exit", "exited"}
    PROVE  PInv'
BY DEF RaiseInTagCollection, PInv, FwAt, FwSettled, ReportLate, AfterReport,
       ReportFw, BasicOnly, UsersAddFrom, UsersReadyForTags, Running,
       Unwinding, LedTells, ExitTells, ReportWritten, Written

(* A Call step from `from` to `to` keeps PInv when `to` is settled only if *)
(* `from` was, stays after the report if `from` was, and is not one of the *)
(* labels that need more.                                                  *)
LEMMA CallP ==
    ASSUME PInv, NEW from, NEW outs \in SUBSET Outcome, NEW to, NEW keys,
           Call(from, outs, to, keys),
           from \notin {"unwind", "exit", "exited"},
           to \notin {"unwind", "exit", "exited", "basic_connect",
                      "users_add", "nfc_config"},
           to \in FwSettled /\ cfg.variant # "B" => from \in FwSettled,
           from \in AfterReport => to \in AfterReport,
           to \in Written => from \in Written
    PROVE  PInv'
<1>1. pc = from
  BY DEF Call
<1>2. PICK o \in outs : IF o = "ok" THEN Goto(to, keys) ELSE Raise(o)
  BY DEF Call
<1>3. CASE o = "ok"
  <2>1. cfg.variant # "B" /\ to \in FwSettled => fw = latest
    BY <1>1 DEF PInv, FwAt
  <2>2. report => to \in AfterReport
    BY <1>1 DEF PInv, ReportLate
  <2>3. to \in Written => report
    BY <1>1 DEF PInv, ReportWritten
  <2>4. QED
    BY <1>1, <1>2, <1>3, <2>1, <2>2, <2>3, GotoP
<1>4. CASE o # "ok"
  <2>1. o # "none"
    BY <1>4 DEF Outcome
  <2>2. QED
    BY <1>1, <1>2, <1>4, <2>1, RaiseP
<1>5. QED
  BY <1>3, <1>4

LEMMA InitP == Init => PInv
BY DEF Init, PInv, FwAt, FwSettled, ReportLate, ReportFw, BasicOnly,
       UsersAddFrom, UsersReadyForTags, Running, Unwinding, LedTells,
       ExitTells, ReportWritten, Written

(* Every step of the run keeps PInv.                                       *)
LEMMA StepP ==
    ASSUME TypeOK, PInv, [Next]_vars
    PROVE  PInv'
<1>1. CASE Start
  BY <1>1, CallP DEF Written, Start, Outcome, FwSettled, AfterReport
<1>2. CASE PowerOn
  <2>1. pc = "power_on" /\ ~report
    BY <1>2 DEF PowerOn, PInv, ReportLate, AfterReport
  <2>2. CASE cfg.variant = "B" /\ Goto("basic_connect", {})
    BY <2>1, <2>2, GotoP DEF FwSettled, Written
  <2>3. CASE cfg.variant # "B" /\ Goto("rig_tags", {})
    BY <2>1, <2>3, GotoP DEF FwSettled, Written
  <2>4. CASE Raise("exc")
    BY <2>1, <2>4, RaiseP
  <2>5. QED
    BY <1>2, <2>2, <2>3, <2>4 DEF PowerOn
<1>3. CASE RigTags
  <2>1. pc = "rig_tags" /\ ~report
    BY <1>3 DEF RigTags, PInv, ReportLate, AfterReport
  <2>2. CASE Goto("event_log", {})
    BY <2>1, <2>2, GotoP DEF FwSettled, Written
  <2>3. CASE RaiseInTagCollection
    BY <2>1, <2>3, TagRaiseP
  <2>4. QED
    BY <1>3, <2>2, <2>3 DEF RigTags
<1>4. CASE EventLog
  BY <1>4, CallP DEF Written, EventLog, Outcome, FwSettled, AfterReport
<1>5. CASE Compare
  <2>1. pc = "compare" /\ ~report
    BY <1>5 DEF Compare, PInv, ReportLate, AfterReport
  <2>2. CASE VersionLess(latest, fw) /\ Raise("fatal")
    BY <2>1, <2>2, RaiseP
  <2>3. CASE VersionLess(fw, latest) /\ Goto("flash", {})
    BY <2>1, <2>3, GotoP DEF FwSettled, Written
  <2>4. CASE ~VersionLess(latest, fw) /\ ~VersionLess(fw, latest)
             /\ Goto("proxy", {})
    <3>1. fw = latest
      BY <2>4, VersionTrichotomy DEF TypeOK
    <3>2. QED
      BY <2>1, <2>4, <3>1, GotoP DEF Written
  <2>5. QED
    BY <1>5, <2>2, <2>3, <2>4 DEF Compare
<1>6. CASE FlashOk
  <2>1. pc = "flash" /\ ~report /\ err = "none"
    BY <1>6 DEF FlashOk, PInv, ReportLate, AfterReport, Running
  <2>2. pc' = "validate" /\ fw' = latest
        /\ UNCHANGED <<cfg, latest, users, report, err, rig, exitCode>>
    BY <1>6 DEF FlashOk
  <2>3. QED
    BY <2>1, <2>2 DEF PInv, FwAt, FwSettled, ReportLate, ReportFw, BasicOnly,
       UsersAddFrom, UsersReadyForTags, Running, Unwinding, LedTells, ExitTells, ReportWritten, Written
<1>7. CASE FlashHTTPError
  BY <1>7, RaiseP DEF FlashHTTPError
<1>8. CASE FlashURLError
  <2>1. pc = "flash" /\ ~report /\ err = "none"
    BY <1>8 DEF FlashURLError, PInv, ReportLate, AfterReport, Running
  <2>2. CASE flashTry # FlashAttempts - 1
    <3>1. pc' = "flash"
          /\ UNCHANGED <<cfg, latest, users, report, err, rig, exitCode>>
      BY <1>8, <2>1, <2>2 DEF FlashURLError
    <3>2. QED
      BY <2>1, <3>1 DEF PInv, FwAt, FwSettled, ReportLate, ReportFw,
         BasicOnly, UsersAddFrom, UsersReadyForTags, Running, Unwinding,
         LedTells, ExitTells, ReportWritten, Written
  <2>3. CASE flashTry = FlashAttempts - 1
    <3>1. pc' = "unwind" /\ err' = "fatal"
          /\ UNCHANGED <<cfg, latest, users, report, rig, exitCode>>
      BY <1>8, <2>3 DEF FlashURLError
    <3>2. QED
      BY <2>1, <3>1 DEF PInv, FwAt, FwSettled, ReportLate, ReportFw,
         BasicOnly, UsersAddFrom, UsersReadyForTags, Running, Unwinding,
         LedTells, ExitTells, ReportWritten, Written
  <2>4. QED
    BY <2>2, <2>3
<1>9. CASE Validate
  BY <1>9, CallP DEF Written, Validate, Outcome, FwSettled, AfterReport
<1>10. CASE FwReset
  <2>1. pc = "fw_reset" /\ ~report /\ err = "none"
        /\ (cfg.variant # "B" => fw = latest)
    BY <1>10 DEF FwReset, PInv, ReportLate, AfterReport, Running, FwAt,
       FwSettled
  <2>2. CASE Raise("fatal")
    BY <2>1, <2>2, RaiseP
  <2>3. CASE pc' = "proxy" /\ users' = FactoryResetUsers
             /\ UNCHANGED <<cfg, fw, latest, report, err, rig, exitCode>>
    BY <2>1, <2>3 DEF PInv, FwAt, FwSettled, ReportLate, ReportFw, BasicOnly,
       UsersAddFrom, UsersReadyForTags, Running, Unwinding, LedTells, ExitTells, ReportWritten, Written
  <2>4. QED
    BY <1>10, <2>2, <2>3 DEF FwReset
<1>11. CASE Proxy
  BY <1>11, CallP DEF Written, Proxy, Outcome, FwSettled, AfterReport
<1>12. CASE BrickletTests
  <2>1. CASE cfg.variant = "B" /\ ~RaiseInTagCollection
    BY <1>12, <2>1, CallP DEF Written, BrickletTests, Outcome, FwSettled, AfterReport
  <2>2. CASE cfg.variant # "B" /\ ~RaiseInTagCollection
    BY <1>12, <2>2, CallP DEF Written, BrickletTests, Outcome, FwSettled, AfterReport
  <2>3. CASE RaiseInTagCollection
    <3>1. pc = "bricklet"
      BY <1>12 DEF BrickletTests, Call
    <3>2. QED
      BY <2>3, <3>1, TagRaiseP
  <2>4. QED
    BY <2>1, <2>2, <2>3
<1>13. CASE UsersGet
  <2>1. pc = "users_get" /\ ~report /\ (cfg.variant # "B" => fw = latest)
    BY <1>13 DEF UsersGet, PInv, ReportLate, AfterReport, FwAt, FwSettled
  <2>2. CASE users.n = 4 /\ users.canon /\ Goto("nfc_config", {})
    <3>1. users = [n |-> 4, canon |-> TRUE]
      BY <2>2 DEF TypeOK, UserState
    <3>2. QED
      BY <2>1, <2>2, <3>1, GotoP DEF FwSettled, Written
  <2>3. CASE users.n = 1 /\ Goto("users_add", {})
    BY <2>1, <2>3, GotoP DEF FwSettled, Written
  <2>4. CASE (users.n \notin {1, 4} \/ (users.n = 4 /\ ~users.canon))
             /\ Goto("users_reset", {})
    BY <2>1, <2>4, GotoP DEF FwSettled, Written
  <2>5. CASE Raise("fatal") \/ Raise("exc")
    BY <2>1, <2>5, RaiseP
  <2>6. QED
    BY <1>13, <2>2, <2>3, <2>4, <2>5 DEF UsersGet
<1>14. CASE UsersReset
  <2>1. pc = "users_reset" /\ ~report /\ err = "none"
        /\ (cfg.variant # "B" => fw = latest)
    BY <1>14 DEF UsersReset, PInv, ReportLate, AfterReport, Running, FwAt,
       FwSettled
  <2>2. CASE Raise("fatal")
    BY <2>1, <2>2, RaiseP
  <2>3. CASE pc' = "users_add" /\ users' = FactoryResetUsers
             /\ UNCHANGED <<cfg, fw, latest, report, err, rig, exitCode>>
    BY <2>1, <2>3 DEF PInv, FwAt, FwSettled, ReportLate, ReportFw, BasicOnly,
       UsersAddFrom, UsersReadyForTags, Running, Unwinding, LedTells,
       ExitTells, ReportWritten, Written, FactoryResetUsers
  <2>4. QED
    BY <1>14, <2>2, <2>3 DEF UsersReset
<1>15. CASE UsersAdd
  <2>1. pc = "users_add" /\ ~report /\ err = "none" /\ users.n = 1
        /\ (cfg.variant # "B" => fw = latest)
    BY <1>15 DEF UsersAdd, PInv, ReportLate, AfterReport, Running, FwAt,
       FwSettled, UsersAddFrom
  <2>2. CASE Raise("fatal") \/ Raise("exc")
    BY <2>1, <2>2, RaiseP
  <2>3. CASE pc' = "nfc_config"
             /\ users' = [n |-> users.n + 3, canon |-> users.n = 1]
             /\ UNCHANGED <<cfg, fw, latest, report, err, rig, exitCode>>
    <3>1. users' = [n |-> 4, canon |-> TRUE]
      <4>1. users.n + 3 = 4 /\ (users.n = 1) = TRUE
        BY <2>1
      <4>2. QED
        BY <2>3, <4>1, Zenon
    <3>2. QED
      BY <2>1, <2>3, <3>1 DEF PInv, FwAt, FwSettled, ReportLate, ReportFw,
         BasicOnly, UsersAddFrom, UsersReadyForTags, Running, Unwinding,
         LedTells, ExitTells, ReportWritten, Written
  <2>4. QED
    BY <1>15, <2>2, <2>3 DEF UsersAdd
<1>16. CASE NfcConfig
  BY <1>16, CallP DEF Written, NfcConfig, Outcome, FwSettled, AfterReport
<1>17. CASE BasicConnect
  <2>1. cfg.variant = "B"
    BY <1>17 DEF BasicConnect, Call, PInv, BasicOnly
  <2>2. QED
    BY <1>17, <2>1, CallP DEF Written, BasicConnect, Outcome, FwSettled, AfterReport
<1>18. CASE ReportCheck
  BY <1>18, CallP DEF Written, ReportCheck, Outcome, FwSettled, AfterReport
<1>19. CASE Electrical
  <2>1. CASE cfg.variant = "B"
    BY <1>19, <2>1, CallP DEF Written, Electrical, Outcome, FwSettled, AfterReport
  <2>2. CASE cfg.variant # "B"
    BY <1>19, <2>2, CallP DEF Written, Electrical, Outcome, FwSettled, AfterReport
  <2>3. QED
    BY <2>1, <2>2
<1>20. CASE RemoveCharges
  BY <1>20, CallP DEF Written, RemoveCharges, Outcome, FwSettled, AfterReport
<1>21. CASE WriteReport
  <2>1. pc = "write_report" /\ err = "none"
        /\ (cfg.variant # "B" => fw = latest)
    BY <1>21 DEF WriteReport, PInv, Running, FwAt, FwSettled
  <2>2. pc' = "confirm" /\ report'
        /\ UNCHANGED <<cfg, fw, latest, users, err, rig, exitCode>>
    BY <1>21 DEF WriteReport
  <2>3. QED
    BY <2>1, <2>2 DEF PInv, FwAt, FwSettled, ReportLate, AfterReport, ReportFw,
       BasicOnly, UsersAddFrom, UsersReadyForTags, Running, Unwinding,
       LedTells, ExitTells, ReportWritten, Written
<1>22. CASE Confirm
  BY <1>22, CallP DEF Written, Confirm, Outcome, FwSettled, AfterReport
<1>23. CASE Upload
  BY <1>23, CallP DEF Written, Upload, Outcome, FwSettled, AfterReport
<1>24. CASE Download
  BY <1>24, CallP DEF Written, Download, Outcome, FwSettled, AfterReport
<1>25. CASE LedWrap
  <2>1. pc' = "exit" /\ UNCHANGED <<cfg, fw, latest, users, report, exitCode>>
    BY <1>25 DEF LedWrap
  <2>2. err' = "none" => rig' = "green" /\ report
    <3>1. CASE pc = "finished" /\ rig' = "green"
      BY <2>1, <3>1 DEF PInv, ReportWritten, Written
    <3>2. CASE pc = "unwind" /\ err' \in {err, "exc"}
      BY <3>2 DEF PInv, Unwinding
    <3>3. CASE err' = "exc"
      BY <3>3
    <3>4. QED
      BY <1>25, <3>1, <3>2, <3>3 DEF LedWrap
  <2>3. QED
    BY <2>1, <2>2 DEF PInv, FwAt, FwSettled, ReportLate,
       AfterReport, ReportFw, BasicOnly, UsersAddFrom, UsersReadyForTags,
       Running, Unwinding, LedTells, ExitTells, ReportWritten, Written
<1>26. CASE ExitProcess
  <2>1. pc = "exit" /\ pc' = "exited"
        /\ (exitCode' = 0 => err = "none")
        /\ UNCHANGED <<cfg, fw, latest, users, report, err, rig>>
    BY <1>26 DEF ExitProcess
  <2>2. QED
    BY <2>1 DEF PInv, FwAt, FwSettled, ReportLate, AfterReport, ReportFw,
       BasicOnly, UsersAddFrom, UsersReadyForTags, Running, Unwinding,
       LedTells, ExitTells, ReportWritten, Written
<1>27. CASE Terminated \/ UNCHANGED vars
  BY <1>27 DEF Terminated, vars, PInv, FwAt, ReportLate, ReportFw, BasicOnly,
     UsersAddFrom, UsersReadyForTags, Running, Unwinding, LedTells, ExitTells, ReportWritten, Written
<1>28. QED
  BY <1>1, <1>2, <1>3, <1>4, <1>5, <1>6, <1>7, <1>8, <1>9, <1>10, <1>11,
     <1>12, <1>13, <1>14, <1>15, <1>16, <1>17, <1>18, <1>19, <1>20, <1>21,
     <1>22, <1>23, <1>24, <1>25, <1>26, <1>27 DEF Next

-----------------------------------------------------------------------------
(* Theorems.                                                               *)

(* PInv holds in every state of every run: TypeOK, which TypeCorrect       *)
(* proves, supplies the version and user-record facts StepP needs.         *)
THEOREM PInvariant == Spec => []PInv
<1>1. Init => PInv
  BY InitP
<1>2. TypeOK /\ PInv /\ [Next]_vars => PInv'
  BY StepP
<1>3. QED
  BY <1>1, <1>2, TypeCorrect, PTL DEF Spec

(* A networked charger runs its bricklet tests, and writes its report,     *)
(* only on the latest firmware: the version compare (lines 596-599) and    *)
(* the upload loop (lines 604-623) let no outdated charger reach them.     *)
THEOREM FirmwareCurrentness == Spec => []FirmwareCurrent
<1>1. PInv => FirmwareCurrent
  BY DEF PInv, FwAt, FwSettled, ReportFw, FirmwareCurrent
<1>2. QED
  BY <1>1, PInvariant, PTL

(* nfc/config_update (lines 704-712) runs only when the charger holds the  *)
(* admin and exactly the three canonical users, whichever of the keep,     *)
(* add and factory-reset paths of lines 647-702 the run took.              *)
THEOREM UsersReadiness == Spec => []UsersReadyForTags
<1>1. PInv => UsersReadyForTags
  BY DEF PInv
<1>2. QED
  BY <1>1, PInvariant, PTL

(* __main__ (lines 826-836) exits 0 only after led_wrap() showed green    *)
(* for a main() that returned normally with the report written: every     *)
(* failure of main(), of led_wrap()'s own rig calls and of the exit prompt *)
(* ends with a non-zero status.                                            *)
THEOREM ExitZeroPassed == Spec => []ExitZeroMeansPassed
<1>1. PInv => ExitZeroMeansPassed
  BY DEF PInv, LedTells, ExitTells, ExitZeroMeansPassed
<1>2. QED
  BY <1>1, PInvariant, PTL

(* Only led_wrap()'s else branch turns the strip green: every other step   *)
(* of main() and of __main__ leaves it as it is, or shows the countdown    *)
(* blink or red.                                                           *)
LEMMA GreenStep ==
    ASSUME [Next]_vars, rig' = "green", rig # "green"
    PROVE  pc = "finished"
<1>1. ASSUME NEW from, NEW outs, NEW to, NEW keys, Call(from, outs, to, keys)
      PROVE  rig' = rig
  BY <1>1 DEF Call, Goto, Raise
<1>2. ~RaiseInTagCollection
  BY DEF RaiseInTagCollection
<1>3. ~(Start \/ RigTags \/ EventLog \/ Validate \/ Proxy \/ BrickletTests
        \/ NfcConfig \/ BasicConnect \/ ReportCheck \/ Electrical
        \/ RemoveCharges \/ Confirm \/ Upload \/ Download)
  BY <1>1, <1>2 DEF Start, RigTags, EventLog, Validate, Proxy, BrickletTests,
     NfcConfig, BasicConnect, ReportCheck, Electrical, RemoveCharges, Confirm,
     Upload, Download, Goto
<1>4. ~(PowerOn \/ Compare \/ FlashOk \/ FlashHTTPError \/ FlashURLError
        \/ FwReset \/ UsersGet \/ UsersReset \/ UsersAdd \/ WriteReport
        \/ ExitProcess \/ Terminated \/ UNCHANGED vars)
  BY DEF PowerOn, Compare, FlashOk, FlashHTTPError, FlashURLError, FwReset,
     UsersGet, UsersReset, UsersAdd, WriteReport, ExitProcess, Terminated,
     vars, Goto, Raise
<1>5. LedWrap
  BY <1>3, <1>4 DEF Next
<1>6. QED
  BY <1>5 DEF LedWrap

(* The strip turns green only in led_wrap()'s else branch, after main()    *)
(* returned normally, which it does only after json.dump(result) wrote the *)
(* report file: neither the tag countdown nor a failed run shows green.    *)
THEOREM LedVerdictHolds == Spec => LedVerdict
<1>1. PInv /\ [Next]_vars
        => [rig' = "green" /\ rig # "green" => report /\ err = "none"]_vars
  <2> SUFFICES ASSUME PInv, [Next]_vars, rig' = "green", rig # "green"
               PROVE  report /\ err = "none"
    BY DEF vars
  <2>1. pc = "finished"
    BY GreenStep
  <2>2. QED
    BY <2>1 DEF PInv, ReportWritten, Written, Running
<1>2. QED
  BY <1>1, PInvariant, PTL DEF LedVerdict, Spec

=============================================================================
