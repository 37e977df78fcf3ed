----------------------- MODULE ProvisionStage2Proofs -----------------------
(***************************************************************************)
(* Proofs about the stage-2 provisioning run (ProvisionStage2), for every  *)
(* value of the constants.                                                 *)
(***************************************************************************)
EXTENDS ProvisionStage2, TLAPS

-----------------------------------------------------------------------------
(* Type correctness.                                                       *)

(* The steps built with Call keep the types when they record keys of    *)
(* the complete record.                                                    *)
LEMMA CallType ==
    ASSUME TypeOK, NEW from, NEW outs \in SUBSET Outcome, NEW to \in Label,
           NEW keys, keys \subseteq AuditKey,
           Call(from, outs, to, keys)
    PROVE  TypeOK'
<1>1. PICK o \in outs : IF o = "ok" THEN Goto(to, keys) ELSE Raise(o)
  BY DEF Call
<1>2. CASE o = "ok"
  BY <1>1, <1>2 DEF Goto, TypeOK
<1>3. CASE o # "ok"
  BY <1>1, <1>3 DEF Raise, TypeOK, Outcome, Label
<1>4. QED
  BY <1>2, <1>3

(* An exception out of the tag countdown keeps the types.                  *)
LEMMA TagRaiseType ==
    ASSUME TypeOK, RaiseInTagCollection
    PROVE  TypeOK'
BY DEF RaiseInTagCollection, TypeOK, Label

THEOREM TypeCorrect == Spec => []TypeOK
<1>1. Init => TypeOK
  <2> SUFFICES ASSUME Init PROVE TypeOK
    OBVIOUS
  <2>1. users \in UserState
    BY DEF Init, UserState
  <2>2. flashTry \in 0..(FlashAttempts - 1)
    BY ConstantsAssumption DEF Init
  <2>3. QED
    BY <2>1, <2>2 DEF Init, TypeOK, Label
<1>2. TypeOK /\ [Next]_vars => TypeOK'
  <2> SUFFICES ASSUME TypeOK, [Next]_vars PROVE TypeOK'
    OBVIOUS
  <2>1. CASE Start
    <3>1. /\ StartKeys(cfg) \subseteq AuditKey
          /\ "power_on" \in Label
          /\ {"ok", "exc"} \in SUBSET Outcome
      BY DEF AuditKey, StartKeys, BrickletKeys, Label, Outcome
    <3>2. Call("start", {"ok", "exc"}, "power_on", StartKeys(cfg))
      BY <2>1 DEF Start
    <3>3. QED
      BY <3>1, <3>2, CallType
  <2>2. CASE PowerOn
    BY <2>2 DEF PowerOn, Label, TypeOK, Goto, Raise
  <2>3. CASE RigTags
    <3>1. CASE Goto("event_log", {})
      BY <3>1 DEF Goto, TypeOK, Label
    <3>2. CASE RaiseInTagCollection
      BY <3>2, TagRaiseType
    <3>3. QED
      BY <2>3, <3>1, <3>2 DEF RigTags
  <2>4. CASE EventLog
    <3>1. /\ {"uid"} \subseteq AuditKey
          /\ "compare" \in Label
          /\ {"ok", "fatal"} \in SUBSET Outcome
      BY DEF AuditKey, StartKeys, BrickletKeys, Label, Outcome
    <3>2. Call("event_log", {"ok", "fatal"}, "compare", {"uid"})
      BY <2>4 DEF EventLog
    <3>3. QED
      BY <3>1, <3>2, CallType
  <2>5. CASE Compare
    BY <2>5 DEF Compare, Label, TypeOK, Goto, Raise
  <2>6. CASE FlashOk
    BY <2>6 DEF FlashOk, Label, TypeOK
  <2>7. CASE FlashHTTPError
    BY <2>7 DEF FlashHTTPError, Label, TypeOK, Raise
  <2>8. CASE FlashURLError
    <3>1. fw' \in Version
      BY <2>8 DEF FlashURLError, TypeOK
    <3>2. CASE flashTry # FlashAttempts - 1
      BY <2>8, <3>1, <3>2, ConstantsAssumption DEF FlashURLError, TypeOK
    <3>3. CASE flashTry = FlashAttempts - 1
      BY <2>8, <3>1, <3>3 DEF FlashURLError, TypeOK, Label
    <3>4. QED
      BY <3>2, <3>3
  <2>9. CASE Validate
    <3>1. /\ {} \subseteq AuditKey
          /\ "fw_reset" \in Label
          /\ {"ok", "fatal"} \in SUBSET Outcome
      BY DEF AuditKey, StartKeys, BrickletKeys, Label, Outcome
    <3>2. Call("validate", {"ok", "fatal"}, "fw_reset", {})
      BY <2>9 DEF Validate
    <3>3. QED
      BY <3>1, <3>2, CallType
  <2>10. CASE FwReset
    <3>1. CASE pc' = "unwind"
      BY <2>10, <3>1 DEF FwReset, Raise, TypeOK, Label
    <3>2. CASE pc' # "unwind"
      <4>1. pc' = "proxy" /\ users' = FactoryResetUsers
            /\ UNCHANGED <<cfg, fw, latest, flashTry, result, report, err, rig,
                           exitCode>>
        BY <2>10, <3>2 DEF FwReset, Raise
      <4>2. FactoryResetUsers \in UserState
        BY DEF FactoryResetUsers, UserState
      <4>3. QED
        BY <4>1, <4>2 DEF TypeOK, Label
    <3>3. QED
      BY <3>1, <3>2
  <2>11. CASE Proxy
    <3>1. /\ {"firmware"} \subseteq AuditKey
          /\ "bricklet" \in Label
          /\ {"ok", "fatal"} \in SUBSET Outcome
      BY DEF AuditKey, StartKeys, BrickletKeys, Label, Outcome
    <3>2. Call("proxy", {"ok", "fatal"}, "bricklet", {"firmware"})
      BY <2>11 DEF Proxy
    <3>3. QED
      BY <3>1, <3>2, CallType
  <2>12. CASE BrickletTests
    <3>1. BrickletKeys(cfg) \subseteq AuditKey
      BY DEF AuditKey, StartKeys, BrickletKeys
    <3>2. CASE RaiseInTagCollection
      BY <3>2, TagRaiseType
    <3>3. CASE ~RaiseInTagCollection
      BY <2>12, <3>1, <3>3, CallType DEF BrickletTests, Outcome, Label
    <3>4. QED
      BY <3>2, <3>3
  <2>13. CASE UsersGet
    BY <2>13 DEF UsersGet, Label, TypeOK, Goto, Raise
  <2>14. CASE UsersReset
    <3>1. CASE pc' = "unwind"
      BY <2>14, <3>1 DEF UsersReset, Raise, TypeOK, Label
    <3>2. CASE pc' # "unwind"
      <4>1. pc' = "users_add" /\ users' = FactoryResetUsers
            /\ UNCHANGED <<cfg, fw, latest, flashTry, result, report, err, rig,
                           exitCode>>
        BY <2>14, <3>2 DEF UsersReset, Raise
      <4>2. FactoryResetUsers \in UserState
        BY DEF FactoryResetUsers, UserState
      <4>3. QED
        BY <4>1, <4>2 DEF TypeOK, Label
    <3>3. QED
      BY <3>1, <3>2
  <2>15. CASE UsersAdd
    <3>1. CASE pc' = "unwind"
      BY <2>15, <3>1 DEF UsersAdd, Raise, TypeOK, Label
    <3>2. CASE pc' # "unwind"
      <4>1. pc' = "nfc_config"
            /\ users' = [n |-> users.n + 3, canon |-> users.n = 1]
            /\ UNCHANGED <<cfg, fw, latest, flashTry, result, report, err, rig,
                           exitCode>>
        BY <2>15, <3>2 DEF UsersAdd, Raise
      <4>2. users' \in UserState
        BY <4>1 DEF TypeOK, UserState
      <4>3. QED
        BY <4>1, <4>2 DEF TypeOK, Label
    <3>3. QED
      BY <3>1, <3>2
  <2>16. CASE NfcConfig
    <3>1. /\ {"nfc_tags_configured"} \subseteq AuditKey
          /\ "report_check" \in Label
          /\ {"ok", "fatal", "exc"} \in SUBSET Outcome
      BY DEF AuditKey, StartKeys, BrickletKeys, Label, Outcome
    <3>2. Call("nfc_config", {"ok", "fatal", "exc"}, "report_check", {"nfc_tags_configured"})
      BY <2>16 DEF NfcConfig
    <3>3. QED
      BY <3>1, <3>2, CallType
  <2>17. CASE BasicConnect
    <3>1. /\ {"uid", "evse_firmware"} \subseteq AuditKey
          /\ "bricklet" \in Label
          /\ {"ok", "fatal", "exc"} \in SUBSET Outcome
      BY DEF AuditKey, StartKeys, BrickletKeys, Label, Outcome
    <3>2. Call("basic_connect", {"ok", "fatal", "exc"}, "bricklet", {"uid", "evse_firmware"})
      BY <2>17 DEF BasicConnect
    <3>3. QED
      BY <3>1, <3>2, CallType
  <2>18. CASE ReportCheck
    <3>1. /\ {"evse_test_report_found"} \subseteq AuditKey
          /\ "electrical" \in Label
          /\ {"ok", "fatal", "exc"} \in SUBSET Outcome
      BY DEF AuditKey, StartKeys, BrickletKeys, Label, Outcome
    <3>2. Call("report_check", {"ok", "fatal", "exc"}, "electrical", {"evse_test_report_found"})
      BY <2>18 DEF ReportCheck
    <3>3. QED
      BY <3>1, <3>2, CallType
  <2>19. CASE Electrical
    <3>1. {"electrical_tests_passed"} \subseteq AuditKey
      BY DEF AuditKey
    <3>2. CASE cfg.variant = "B"
      <4>1. Call("electrical", {"ok", "fatal"}, "write_report",
                 {"electrical_tests_passed"})
        BY <2>19, <3>2 DEF Electrical
      <4>2. QED
        BY <3>1, <4>1, CallType DEF Outcome, Label
    <3>3. CASE cfg.variant # "B"
      <4>1. Call("electrical", {"ok", "fatal", "exc"}, "remove_charges",
                 {"electrical_tests_passed"})
        BY <2>19, <3>3 DEF Electrical
      <4>2. QED
        BY <3>1, <4>1, CallType DEF Outcome, Label
    <3>4. QED
      BY <3>2, <3>3
  <2>20. CASE RemoveCharges
    <3>1. /\ {} \subseteq AuditKey
          /\ "write_report" \in Label
          /\ {"ok", "fatal"} \in SUBSET Outcome
      BY DEF AuditKey, StartKeys, BrickletKeys, Label, Outcome
    <3>2. Call("remove_charges", {"ok", "fatal"}, "write_report", {})
      BY <2>20 DEF RemoveCharges
    <3>3. QED
      BY <3>1, <3>2, CallType
  <2>21. CASE WriteReport
    BY <2>21 DEF WriteReport, Label, TypeOK, AuditKey
  <2>22. CASE Confirm
    <3>1. /\ {} \subseteq AuditKey
          /\ "upload" \in Label
          /\ {"ok"} \in SUBSET Outcome
      BY DEF AuditKey, StartKeys, BrickletKeys, Label, Outcome
    <3>2. Call("confirm", {"ok"}, "upload", {})
      BY <2>22 DEF Confirm
    <3>3. QED
      BY <3>1, <3>2, CallType
  <2>23. CASE Upload
    <3>1. /\ {} \subseteq AuditKey
          /\ "download" \in Label
          /\ {"ok", "fatal", "exc"} \in SUBSET Outcome
      BY DEF AuditKey, StartKeys, BrickletKeys, Label, Outcome
    <3>2. Call("upload", {"ok", "fatal", "exc"}, "download", {})
      BY <2>23 DEF Upload
    <3>3. QED
      BY <3>1, <3>2, CallType
  <2>24. CASE Download
    <3>1. /\ {} \subseteq AuditKey
          /\ "finished" \in Label
          /\ {"ok", "fatal", "exc"} \in SUBSET Outcome
      BY DEF AuditKey, StartKeys, BrickletKeys, Label, Outcome
    <3>2. Call("download", {"ok", "fatal", "exc"}, "finished", {})
      BY <2>24 DEF Download
    <3>3. QED
      BY <3>1, <3>2, CallType
  <2>25. CASE LedWrap
    BY <2>25 DEF LedWrap, Label, TypeOK
  <2>26. CASE ExitProcess
    BY <2>26 DEF ExitProcess, Label, TypeOK
  <2>27. CASE Terminated \/ UNCHANGED vars
    BY <2>27 DEF Terminated, vars, TypeOK
  <2>28. QED
    BY <2>1, <2>2, <2>3, <2>4, <2>5, <2>6, <2>7, <2>8, <2>9, <2>10, <2>11, <2>12, <2>13, <2>14, <2>15, <2>16, <2>17, <2>18, <2>19, <2>20, <2>21, <2>22, <2>23, <2>24, <2>25, <2>26, <2>27 DEF Next
<1>3. QED
  BY <1>1, <1>2, PTL DEF Spec

-----------------------------------------------------------------------------
(* Completeness of the audit record.                                       *)
(*                                                                         *)
(* ReportComplete alone is not inductive: it says nothing until the report *)
(* is written.  The strengthening says which keys `result` already holds   *)
(* at each label of main(), and that a label of one branch (networked or   *)
(* basic) is only reached by a charger of that variant.                    *)

(* Labels only a networked (Smart/Pro) charger reaches.                    *)
NetLabel == {"rig_tags", "event_log", "compare", "flash", "validate",
             "fw_reset", "proxy", "users_get", "users_reset", "users_add",
             "nfc_config", "remove_charges"}

OnBranch(c, l) ==
    /\ l \in NetLabel => c.variant # "B"
    /\ l = "basic_connect" => c.variant = "B"

(* The keys main() has recorded whenever it is at label l.                 *)
RecordedAt(c, l) ==
    LET k1 == StartKeys(c)
        k2 == k1 \cup {"uid"}
        k3 == k2 \cup (IF c.variant = "B" THEN {"evse_firmware"}
                                          ELSE {"firmware"})
        k4 == k3 \cup BrickletKeys(c)
        k5 == k4 \cup (IF c.variant = "B" THEN {} ELSE {"nfc_tags_configured"})
        k6 == k5 \cup {"evse_test_report_found"}
        k7 == k6 \cup {"electrical_tests_passed"}
    IN  CASE l \in {"power_on", "rig_tags", "event_log", "basic_connect"} -> k1
          [] l \in {"compare", "flash", "validate", "fw_reset", "proxy"} -> k2
          [] l = "bricklet" -> k3
          [] l \in {"users_get", "users_reset", "users_add", "nfc_config"} -> k4
          [] l = "report_check" -> k5
          [] l = "electrical" -> k6
          [] l \in {"remove_charges", "write_report"} -> k7
          [] OTHER -> {}

IInv ==
    /\ OnBranch(cfg, pc)
    /\ RecordedAt(cfg, pc) \subseteq result
    /\ ReportComplete

(* A successful step keeps IInv when its target's keys are then recorded.  *)
LEMMA GotoInv ==
    ASSUME IInv, NEW to, NEW keys, Goto(to, keys),
           RecordedAt(cfg, to) \subseteq result \cup keys,
           OnBranch(cfg, to)
    PROVE  IInv'
BY DEF IInv, Goto, ReportComplete

(* A failing step keeps IInv: nothing is owed at "unwind".                 *)
LEMMA RaiseInv ==
    ASSUME IInv, NEW kind, Raise(kind)
    PROVE  IInv'
<1>1. RecordedAt(cfg, "unwind") = {} /\ OnBranch(cfg, "unwind")
  BY DEF RecordedAt, OnBranch, NetLabel
<1>2. QED
  BY <1>1 DEF IInv, Raise, ReportComplete

(* Nor does an exception out of the tag countdown.                         *)
LEMMA TagRaiseInv ==
    ASSUME IInv, RaiseInTagCollection
    PROVE  IInv'
<1>1. RecordedAt(cfg, "unwind") = {} /\ OnBranch(cfg, "unwind")
  BY DEF RecordedAt, OnBranch, NetLabel
<1>2. QED
  BY <1>1 DEF IInv, RaiseInTagCollection, ReportComplete

LEMMA CallInv ==
    ASSUME IInv, NEW from, NEW outs, NEW to, NEW keys,
           Call(from, outs, to, keys),
           RecordedAt(cfg, to) \subseteq result \cup keys,
           OnBranch(cfg, to)
    PROVE  IInv'
<1>1. PICK o \in outs : IF o = "ok" THEN Goto(to, keys) ELSE Raise(o)
  BY DEF Call
<1>2. CASE o = "ok"
  BY <1>1, <1>2, GotoInv
<1>3. CASE o # "ok"
  BY <1>1, <1>3, RaiseInv
<1>4. QED
  BY <1>2, <1>3

THEOREM ReportCompleteness == Spec => []ReportComplete
<1>1. Init => IInv
  BY DEF Init, IInv, OnBranch, NetLabel, RecordedAt, ReportComplete
<1>2. IInv /\ [Next]_vars => IInv'
  <2> SUFFICES ASSUME IInv, [Next]_vars PROVE IInv'
    OBVIOUS
  <2>1. CASE Start
    <3>1. Call("start", {"ok", "exc"}, "power_on", StartKeys(cfg)) /\ pc = "start"
      BY <2>1 DEF Start, Call
    <3>2. RecordedAt(cfg, "power_on") \subseteq result \cup StartKeys(cfg) /\ OnBranch(cfg, "power_on")
      BY <3>1 DEF RecordedAt, OnBranch, NetLabel, IInv, StartKeys
    <3>3. QED
      BY <3>1, <3>2, CallInv
  <2>2. CASE PowerOn
    <3>1. CASE cfg.variant = "B" /\ Goto("basic_connect", {})
      BY <2>2, <3>1, GotoInv DEF PowerOn, IInv, RecordedAt, OnBranch, NetLabel
    <3>2. CASE cfg.variant # "B" /\ Goto("rig_tags", {})
      BY <2>2, <3>2, GotoInv DEF PowerOn, IInv, RecordedAt, OnBranch, NetLabel
    <3>3. CASE Raise("exc")
      BY <3>3, RaiseInv
    <3>4. QED
      BY <2>2, <3>1, <3>2, <3>3 DEF PowerOn
  <2>3. CASE RigTags
    <3>1. pc = "rig_tags"
      BY <2>3 DEF RigTags
    <3>2. RecordedAt(cfg, "event_log") \subseteq result \cup {} /\ OnBranch(cfg, "event_log")
      BY <3>1 DEF RecordedAt, OnBranch, NetLabel, IInv, StartKeys
    <3>3. CASE Goto("event_log", {})
      BY <3>2, <3>3, GotoInv
    <3>4. CASE RaiseInTagCollection
      BY <3>4, TagRaiseInv
    <3>5. QED
      BY <2>3, <3>3, <3>4 DEF RigTags
  <2>4. CASE EventLog
    <3>1. Call("event_log", {"ok", "fatal"}, "compare", {"uid"}) /\ pc = "event_log"
      BY <2>4 DEF EventLog, Call
    <3>2. RecordedAt(cfg, "compare") \subseteq result \cup {"uid"} /\ OnBranch(cfg, "compare")
      BY <3>1 DEF RecordedAt, OnBranch, NetLabel, IInv, StartKeys
    <3>3. QED
      BY <3>1, <3>2, CallInv
  <2>5. CASE Compare
    <3>1. pc = "compare"
      BY <2>5 DEF Compare
    <3>2. RecordedAt(cfg, "flash") = RecordedAt(cfg, "compare")
          /\ RecordedAt(cfg, "proxy") = RecordedAt(cfg, "compare")
          /\ OnBranch(cfg, "flash") /\ OnBranch(cfg, "proxy")
      BY <3>1 DEF IInv, RecordedAt, OnBranch, NetLabel
    <3>3. RecordedAt(cfg, "flash") \subseteq result \cup {}
          /\ RecordedAt(cfg, "proxy") \subseteq result \cup {}
      BY <3>1, <3>2 DEF IInv
    <3>4. CASE Raise("fatal")
      BY <3>4, RaiseInv
    <3>5. CASE Goto("flash", {})
      BY <3>2, <3>3, <3>5, GotoInv
    <3>6. CASE Goto("proxy", {})
      BY <3>2, <3>3, <3>6, GotoInv
    <3>7. QED
      BY <2>5, <3>4, <3>5, <3>6 DEF Compare
  <2>6. CASE FlashOk
    <3>1. pc = "flash" /\ pc' = "validate"
      BY <2>6 DEF FlashOk
    <3>2. RecordedAt(cfg, "validate") = RecordedAt(cfg, "flash")
          /\ OnBranch(cfg, "validate")
      BY <3>1 DEF IInv, RecordedAt, OnBranch, NetLabel
    <3>3. QED
      BY <2>6, <3>1, <3>2 DEF FlashOk, IInv, ReportComplete
  <2>7. CASE FlashHTTPError
    BY <2>7, RaiseInv DEF FlashHTTPError
  <2>8. CASE FlashURLError
    <3>1. CASE flashTry # FlashAttempts - 1
      BY <2>8, <3>1 DEF FlashURLError, IInv, ReportComplete
    <3>2. CASE flashTry = FlashAttempts - 1
      <4>1. RecordedAt(cfg, "unwind") = {} /\ OnBranch(cfg, "unwind")
        BY DEF RecordedAt, OnBranch, NetLabel
      <4>2. QED
        BY <2>8, <3>2, <4>1 DEF FlashURLError, IInv, ReportComplete
    <3>3. QED
      BY <3>1, <3>2
  <2>9. CASE Validate
    <3>1. Call("validate", {"ok", "fatal"}, "fw_reset", {}) /\ pc = "validate"
      BY <2>9 DEF Validate, Call
    <3>2. RecordedAt(cfg, "fw_reset") \subseteq result \cup {} /\ OnBranch(cfg, "fw_reset")
      BY <3>1 DEF RecordedAt, OnBranch, NetLabel, IInv, StartKeys
    <3>3. QED
      BY <3>1, <3>2, CallInv
  <2>10. CASE FwReset
    <3>1. pc = "fw_reset"
      BY <2>10 DEF FwReset
    <3>2. RecordedAt(cfg, "proxy") = RecordedAt(cfg, "fw_reset")
          /\ OnBranch(cfg, "proxy")
      BY <3>1 DEF IInv, RecordedAt, OnBranch, NetLabel
    <3>3. QED
      BY <2>10, <3>1, <3>2, RaiseInv DEF FwReset, IInv, ReportComplete
  <2>11. CASE Proxy
    <3>1. Call("proxy", {"ok", "fatal"}, "bricklet", {"firmware"}) /\ pc = "proxy"
      BY <2>11 DEF Proxy, Call
    <3>2. RecordedAt(cfg, "bricklet") \subseteq result \cup {"firmware"} /\ OnBranch(cfg, "bricklet")
      BY <3>1 DEF RecordedAt, OnBranch, NetLabel, IInv, StartKeys
    <3>3. QED
      BY <3>1, <3>2, CallInv
  <2>12. CASE BrickletTests
    <3>1. pc = "bricklet"
      BY <2>12 DEF BrickletTests, Call
    <3>0. CASE RaiseInTagCollection
      BY <3>0, TagRaiseInv
    <3>2. CASE cfg.variant = "B" /\ ~RaiseInTagCollection
      <4>1. Call("bricklet", {"ok", "fatal", "exc"}, "report_check",
                 BrickletKeys(cfg))
        BY <2>12, <3>2 DEF BrickletTests
      <4>2. RecordedAt(cfg, "report_check") \subseteq result \cup BrickletKeys(cfg)
            /\ OnBranch(cfg, "report_check")
        BY <3>1, <3>2 DEF IInv, RecordedAt, OnBranch, NetLabel
      <4>3. QED
        BY <4>1, <4>2, CallInv
    <3>3. CASE cfg.variant # "B" /\ ~RaiseInTagCollection
      <4>1. Call("bricklet", {"ok", "fatal", "exc"}, "users_get",
                 BrickletKeys(cfg))
        BY <2>12, <3>3 DEF BrickletTests
      <4>2. RecordedAt(cfg, "users_get") \subseteq result \cup BrickletKeys(cfg)
            /\ OnBranch(cfg, "users_get")
        BY <3>1, <3>3 DEF IInv, RecordedAt, OnBranch, NetLabel
      <4>3. QED
        BY <4>1, <4>2, CallInv
    <3>4. QED
      BY <3>0, <3>2, <3>3
  <2>13. CASE UsersGet
    <3>1. pc = "users_get"
      BY <2>13 DEF UsersGet
    <3>2. /\ RecordedAt(cfg, "nfc_config") = RecordedAt(cfg, "users_get")
          /\ RecordedAt(cfg, "users_add") = RecordedAt(cfg, "users_get")
          /\ RecordedAt(cfg, "users_reset") = RecordedAt(cfg, "users_get")
          /\ OnBranch(cfg, "nfc_config") /\ OnBranch(cfg, "users_add")
          /\ OnBranch(cfg, "users_reset")
      BY <3>1 DEF IInv, RecordedAt, OnBranch, NetLabel
    <3>3. /\ RecordedAt(cfg, "nfc_config") \subseteq result \cup {}
          /\ RecordedAt(cfg, "users_add") \subseteq result \cup {}
          /\ RecordedAt(cfg, "users_reset") \subseteq result \cup {}
      BY <3>1, <3>2 DEF IInv
    <3>4. CASE Raise("fatal") \/ Raise("exc")
      BY <3>4, RaiseInv
    <3>5. CASE Goto("nfc_config", {})
      BY <3>2, <3>3, <3>5, GotoInv
    <3>6. CASE Goto("users_add", {})
      BY <3>2, <3>3, <3>6, GotoInv
    <3>7. CASE Goto("users_reset", {})
      BY <3>2, <3>3, <3>7, GotoInv
    <3>8. QED
      BY <2>13, <3>4, <3>5, <3>6, <3>7 DEF UsersGet
  <2>14. CASE UsersReset
    <3>1. pc = "users_reset"
      BY <2>14 DEF UsersReset
    <3>2. RecordedAt(cfg, "users_add") = RecordedAt(cfg, "users_reset")
          /\ OnBranch(cfg, "users_add")
      BY <3>1 DEF IInv, RecordedAt, OnBranch, NetLabel
    <3>3. QED
      BY <2>14, <3>1, <3>2, RaiseInv DEF UsersReset, IInv, ReportComplete
  <2>15. CASE UsersAdd
    <3>1. pc = "users_add"
      BY <2>15 DEF UsersAdd
    <3>2. RecordedAt(cfg, "nfc_config") = RecordedAt(cfg, "users_add")
          /\ OnBranch(cfg, "nfc_config")
      BY <3>1 DEF IInv, RecordedAt, OnBranch, NetLabel
    <3>3. QED
      BY <2>15, <3>1, <3>2, RaiseInv DEF UsersAdd, IInv, ReportComplete
  <2>16. CASE NfcConfig
    <3>1. Call("nfc_config", {"ok", "fatal", "exc"}, "report_check", {"nfc_tags_configured"}) /\ pc = "nfc_config"
      BY <2>16 DEF NfcConfig, Call
    <3>2. RecordedAt(cfg, "report_check") \subseteq result \cup {"nfc_tags_configured"} /\ OnBranch(cfg, "report_check")
      BY <3>1 DEF RecordedAt, OnBranch, NetLabel, IInv, StartKeys
    <3>3. QED
      BY <3>1, <3>2, CallInv
  <2>17. CASE BasicConnect
    <3>1. Call("basic_connect", {"ok", "fatal", "exc"}, "bricklet", {"uid", "evse_firmware"}) /\ pc = "basic_connect"
      BY <2>17 DEF BasicConnect, Call
    <3>2. RecordedAt(cfg, "bricklet") \subseteq result \cup {"uid", "evse_firmware"} /\ OnBranch(cfg, "bricklet")
      BY <3>1 DEF RecordedAt, OnBranch, NetLabel, IInv, StartKeys
    <3>3. QED
      BY <3>1, <3>2, CallInv
  <2>18. CASE ReportCheck
    <3>1. Call("report_check", {"ok", "fatal", "exc"}, "electrical", {"evse_test_report_found"}) /\ pc = "report_check"
      BY <2>18 DEF ReportCheck, Call
    <3>2. RecordedAt(cfg, "electrical") \subseteq result \cup {"evse_test_report_found"} /\ OnBranch(cfg, "electrical")
      BY <3>1 DEF RecordedAt, OnBranch, NetLabel, IInv, StartKeys
    <3>3. QED
      BY <3>1, <3>2, CallInv
  <2>19. CASE Electrical
    <3>1. pc = "electrical"
      BY <2>19 DEF Electrical, Call
    <3>2. CASE cfg.variant = "B"
      <4>1. Call("electrical", {"ok", "fatal"}, "write_report",
                 {"electrical_tests_passed"})
        BY <2>19, <3>2 DEF Electrical
      <4>2. RecordedAt(cfg, "write_report")
              \subseteq result \cup {"electrical_tests_passed"}
            /\ OnBranch(cfg, "write_report")
        BY <3>1, <3>2 DEF IInv, RecordedAt, OnBranch, NetLabel
      <4>3. QED
        BY <4>1, <4>2, CallInv
    <3>3. CASE cfg.variant # "B"
      <4>1. Call("electrical", {"ok", "fatal", "exc"}, "remove_charges",
                 {"electrical_tests_passed"})
        BY <2>19, <3>3 DEF Electrical
      <4>2. RecordedAt(cfg, "remove_charges")
              \subseteq result \cup {"electrical_tests_passed"}
            /\ OnBranch(cfg, "remove_charges")
        BY <3>1, <3>3 DEF IInv, RecordedAt, OnBranch, NetLabel
      <4>3. QED
        BY <4>1, <4>2, CallInv
    <3>4. QED
      BY <3>2, <3>3
  <2>20. CASE RemoveCharges
    <3>1. Call("remove_charges", {"ok", "fatal"}, "write_report", {}) /\ pc = "remove_charges"
      BY <2>20 DEF RemoveCharges, Call
    <3>2. RecordedAt(cfg, "write_report") \subseteq result \cup {} /\ OnBranch(cfg, "write_report")
      BY <3>1 DEF RecordedAt, OnBranch, NetLabel, IInv, StartKeys
    <3>3. QED
      BY <3>1, <3>2, CallInv
  <2>21. CASE WriteReport
    <3>1. pc = "write_report" /\ pc' = "confirm"
          /\ result' = result \cup {"end"} /\ report'
          /\ cfg' = cfg
      BY <2>21 DEF WriteReport
    <3>2. RequiredKeys(cfg) \subseteq RecordedAt(cfg, "write_report") \cup {"end"}
      BY DEF RequiredKeys, RecordedAt
    <3>3. RecordedAt(cfg, "confirm") = {} /\ OnBranch(cfg, "confirm")
      BY DEF RecordedAt, OnBranch, NetLabel
    <3>4. QED
      BY <3>1, <3>2, <3>3 DEF IInv, ReportComplete
  <2>22. CASE Confirm
    <3>1. Call("confirm", {"ok"}, "upload", {}) /\ pc = "confirm"
      BY <2>22 DEF Confirm, Call
    <3>2. RecordedAt(cfg, "upload") \subseteq result \cup {} /\ OnBranch(cfg, "upload")
      BY <3>1 DEF RecordedAt, OnBranch, NetLabel, IInv, StartKeys
    <3>3. QED
      BY <3>1, <3>2, CallInv
  <2>23. CASE Upload
    <3>1. Call("upload", {"ok", "fatal", "exc"}, "download", {}) /\ pc = "upload"
      BY <2>23 DEF Upload, Call
    <3>2. RecordedAt(cfg, "download") \subseteq result \cup {} /\ OnBranch(cfg, "download")
      BY <3>1 DEF RecordedAt, OnBranch, NetLabel, IInv, StartKeys
    <3>3. QED
      BY <3>1, <3>2, CallInv
  <2>24. CASE Download
    <3>1. Call("download", {"ok", "fatal", "exc"}, "finished", {}) /\ pc = "download"
      BY <2>24 DEF Download, Call
    <3>2. RecordedAt(cfg, "finished") \subseteq result \cup {} /\ OnBranch(cfg, "finished")
      BY <3>1 DEF RecordedAt, OnBranch, NetLabel, IInv, StartKeys
    <3>3. QED
      BY <3>1, <3>2, CallInv
  <2>25. CASE LedWrap
    <3>1. RecordedAt(cfg, "exit") = {} /\ OnBranch(cfg, "exit")
      BY DEF RecordedAt, OnBranch, NetLabel
    <3>2. QED
      BY <2>25, <3>1 DEF LedWrap, IInv, ReportComplete
  <2>26. CASE ExitProcess
    <3>1. RecordedAt(cfg, "exited") = {} /\ OnBranch(cfg, "exited")
      BY DEF RecordedAt, OnBranch, NetLabel
    <3>2. QED
      BY <2>26, <3>1 DEF ExitProcess, IInv, ReportComplete
  <2>27. CASE UNCHANGED vars \/ Terminated
    BY <2>27 DEF vars, Terminated, IInv, ReportComplete
  <2>28. QED
    BY <2>1, <2>2, <2>3, <2>4, <2>5, <2>6, <2>7, <2>8, <2>9, <2>10, <2>11, <2>12, <2>13, <2>14, <2>15, <2>16, <2>17, <2>18, <2>19, <2>20, <2>21, <2>22, <2>23, <2>24, <2>25, <2>26, <2>27 DEF Next
<1>3. IInv => ReportComplete
  BY DEF IInv
<1>4. QED
  BY <1>1, <1>2, <1>3, PTL DEF Spec

=============================================================================
