------------------------- MODULE BrickletTestsProofs -------------------------
(***************************************************************************)
(* Proofs that run_bricklet_tests() returns only for a conforming unit     *)
(* (AcceptsOnlyConforming) and with the declared keys (KeysAsDeclared),    *)
(* for every configuration and every unit on the rig.                      *)
(***************************************************************************)
EXTENDS BrickletTests, FiniteSetTheorems, SequenceTheorems, TLAPS

(* The labels of run_bricklet_tests, its three ends included.              *)
BLabel == {"enumerate", "hwconfig", "button", "led", "ask", "led_off", "tags",
           "variant", "jumper", "resistor", "samples", "meter", "energy",
           "returned", "fatal", "exc"}

BTypeOK ==
    /\ tpc \in BLabel
    /\ cfg \in BConfig
    /\ hw \in Hardware
    /\ colour \in 1..Len(Colours)
    /\ inputResult \in {"n", "True", "False"}
    /\ attempt \in 0..2
    /\ errs \in Seq(MeterRead)
    /\ keys \subseteq AuditKey

-----------------------------------------------------------------------------
(* The inductive invariant.  Each check of run_bricklet_tests establishes  *)
(* a fact about the unit that every later label keeps; BInv records which  *)
(* facts hold at which labels, and the exact key set each label has.       *)

(* The labels past each check, in the order of the code.                   *)
BeforeLed == {"enumerate", "hwconfig", "button"}
InLed == {"led", "ask", "led_off"}
AfterLed == {"tags", "variant", "jumper", "resistor", "samples", "meter",
             "energy", "returned"}
AfterVariant == {"jumper", "resistor", "samples", "meter", "energy",
                 "returned"}
AfterJumper == {"resistor", "samples", "meter", "energy", "returned"}
AfterResistor == {"samples", "meter", "energy", "returned"}

(* The keys result holds at label l of a run that has not raised.          *)
KeysAt(l) ==
    (IF l \in InLed \cup AfterLed THEN {"front_panel_button_tested"} ELSE {})
    \cup (IF l \in AfterLed /\ cfg.gen >= 3
            THEN {"front_panel_led_tested"} ELSE {})
    \cup (IF l \in AfterVariant
            THEN {"evse_version", "evse_uid"}
                 \cup (IF Detected(hw) = "B" THEN {"master_uid"} ELSE {})
            ELSE {})
    \cup (IF l \in AfterJumper
            THEN {"jumper_config_checked", "diode_checked"} ELSE {})
    \cup (IF l \in AfterResistor THEN {"resistor_checked"} ELSE {})
    \cup (IF l = "returned" /\ Detected(hw) = "P"
            THEN {"energy_meter_reachable"} ELSE {})

KeysOK == tpc \in BeforeLed \cup InLed \cup AfterLed => keys = KeysAt(tpc)

EnumOK ==
    tpc \in InLed \cup AfterLed \cup (BeforeLed \ {"enumerate"}) =>
        /\ "evse" \in hw.devices
        /\ cfg.variant # "B" => hw.devices = {"evse", "nfc"}

ColourStart == tpc \in BeforeLed => colour = 1

LedGen == tpc \in InLed => cfg.gen >= 3

AskManual == tpc = "ask" => ~Automatic

LedSeen ==
    tpc = "led" /\ Automatic =>
        \A i \in 1..(colour - 1) : hw.ledBad # Colours[i]

LedAllSeen ==
    tpc \in {"led_off"} \cup AfterLed /\ cfg.gen >= 3 /\ Automatic =>
        hw.ledBad = "none"

TagSeen ==
    tpc \in {"variant"} \cup AfterVariant =>
        (Detected(hw) # "B" /\ ~cfg.tagAccess => hw.rigTag)

VariantOK == tpc \in AfterVariant => Detected(hw) = cfg.variant

JumperOK ==
    tpc \in AfterJumper => hw.jumper = JumperFor(cfg.power) /\ ~hw.lock

ResistorOK ==
    /\ tpc \in AfterResistor => hw.current = CurrentFor(cfg.power)
    /\ tpc \in {"samples", "meter", "energy"} => Detected(hw) = "P"

MeterLoop ==
    /\ tpc \in BeforeLed \cup InLed \cup (AfterLed \ {"energy", "returned"}) =>
           Len(errs) = attempt
    /\ tpc = "meter" => hw.samples

MeterDone ==
    tpc = "energy" \/ (tpc = "returned" /\ Detected(hw) = "P") =>
        hw.samples /\ MeterHealthy(errs)

BInv ==
    /\ KeysOK /\ EnumOK /\ ColourStart /\ LedGen /\ AskManual /\ LedSeen
    /\ LedAllSeen
    /\ TagSeen /\ VariantOK /\ JumperOK /\ ResistorOK /\ MeterLoop
    /\ MeterDone

-----------------------------------------------------------------------------
(* Type correctness.                                                       *)

(* A label-and-keys step of run_bricklet_tests keeps the types.            *)
LEMMA GotoType ==
    ASSUME BTypeOK, NEW to \in BLabel, NEW new \in SUBSET AuditKey,
           Goto(to, new),
           UNCHANGED <<cfg, hw, colour, inputResult, attempt, errs>>
    PROVE  BTypeOK'
BY DEF Goto, BTypeOK

LEMMA RaiseType ==
    ASSUME BTypeOK, NEW kind \in {"fatal", "exc"}, Raise(kind),
           UNCHANGED <<cfg, hw, colour, inputResult, attempt, errs>>
    PROVE  BTypeOK'
BY DEF Raise, BTypeOK, BLabel

(* Every step keeps the types: the colour index stays within the four      *)
(* colours, the attempt within range(3), the error history a sequence of   *)
(* reads.                                                                  *)
THEOREM BTypeCorrect == Spec => []BTypeOK
<1>1. Init => BTypeOK
  BY DEF Init, BTypeOK, BLabel, Colours
<1>2. BTypeOK /\ [Next]_vars => BTypeOK'
  <2> SUFFICES ASSUME BTypeOK, [Next]_vars PROVE BTypeOK'
    OBVIOUS
  <2>1. CASE Enumerate
    BY <2>1, GotoType, RaiseType DEF Enumerate, BLabel, AuditKey
  <2>2. CASE HwConfig
    BY <2>2, GotoType, RaiseType DEF HwConfig, BLabel, AuditKey
  <2>3. CASE Button
    BY <2>3, GotoType, RaiseType DEF Button, BLabel, AuditKey
  <2>4. CASE SetLed
    <3>1. colour < Len(Colours) => colour + 1 \in 1..Len(Colours)
      BY DEF BTypeOK, Colours
    <3>2. QED
      BY <2>4, <3>1 DEF SetLed, NextColour, Goto, Raise, BTypeOK, BLabel
  <2>5. CASE Ask
    <3>1. colour < Len(Colours) => colour + 1 \in 1..Len(Colours)
      BY DEF BTypeOK, Colours
    <3>2. \A a : Walrus(a) \in {"True", "False"}
      BY DEF Walrus
    <3>3. QED
      BY <2>5, <3>1, <3>2 DEF Ask, NextColour, BTypeOK, BLabel
  <2>6. CASE LedOff
    BY <2>6, GotoType, RaiseType DEF LedOff, BLabel, AuditKey
  <2>7. CASE Tags
    BY <2>7, GotoType, RaiseType DEF Tags, BLabel, AuditKey
  <2>8. CASE Variant
    BY <2>8, GotoType, RaiseType DEF Variant, BLabel, AuditKey
  <2>9. CASE Jumper
    BY <2>9, GotoType, RaiseType DEF Jumper, BLabel, AuditKey
  <2>10. CASE Resistor
    BY <2>10, GotoType, RaiseType DEF Resistor, BLabel, AuditKey
  <2>11. CASE Samples
    BY <2>11, GotoType, RaiseType DEF Samples, BLabel, AuditKey
  <2>12. CASE Meter
    <3>1. CASE Raise("exc") /\ UNCHANGED <<attempt, errs>>
      BY <2>12, <3>1, RaiseType DEF Meter
    <3>2. CASE \E e \in MeterRead :
                 /\ errs' = Append(errs, e)
                 /\ IF e = "zero" THEN Goto("energy", {}) /\ UNCHANGED attempt
                    ELSE IF attempt = 2 /\ e = "other"
                      THEN Raise("fatal") /\ UNCHANGED attempt
                    ELSE IF attempt = 2
                      THEN Goto("energy", {}) /\ UNCHANGED attempt
                    ELSE attempt' = attempt + 1 /\ UNCHANGED <<tpc, keys>>
      <4>1. PICK e \in MeterRead :
                 /\ errs' = Append(errs, e)
                 /\ IF e = "zero" THEN Goto("energy", {}) /\ UNCHANGED attempt
                    ELSE IF attempt = 2 /\ e = "other"
                      THEN Raise("fatal") /\ UNCHANGED attempt
                    ELSE IF attempt = 2
                      THEN Goto("energy", {}) /\ UNCHANGED attempt
                    ELSE attempt' = attempt + 1 /\ UNCHANGED <<tpc, keys>>
        BY <3>2
      <4>2. errs' \in Seq(MeterRead)
        BY <4>1, AppendProperties DEF BTypeOK
      <4>3. UNCHANGED <<cfg, hw, colour, inputResult>>
        BY <2>12 DEF Meter
      <4>4. QED
        BY <4>1, <4>2, <4>3 DEF Goto, Raise, BTypeOK, BLabel
    <3>3. QED
      BY <2>12, <3>1, <3>2 DEF Meter
  <2>13. CASE Energy
    BY <2>13, GotoType, RaiseType DEF Energy, BLabel, AuditKey
  <2>14. CASE Terminated \/ UNCHANGED vars
    BY <2>14 DEF Terminated, vars, BTypeOK
  <2>15. QED
    BY <2>1, <2>2, <2>3, <2>4, <2>5, <2>6, <2>7, <2>8, <2>9, <2>10, <2>11,
       <2>12, <2>13, <2>14 DEF Next
<1>3. QED
  BY <1>1, <1>2, PTL DEF Spec

-----------------------------------------------------------------------------
(* Lemmas for the inductive invariant.                                     *)

(* The topology check of lines 57-65 pins a Smart or Pro's bricklets: an   *)
(* enumeration that holds the EVSE and NFC Bricklets and has two entries   *)
(* holds nothing else.                                                     *)
LEMMA TwoDevices ==
    ASSUME NEW S \in SUBSET {"master", "evse", "nfc", "other"},
           "evse" \in S, "nfc" \in S, Cardinality(S) = 2
    PROVE  S = {"evse", "nfc"}
<1>1. IsFiniteSet({"evse", "nfc"}) /\ Cardinality({"evse", "nfc"}) = 2
  <2>1. IsFiniteSet({"evse"}) /\ Cardinality({"evse"}) = 1
    BY FS_Singleton
  <2>2. {"evse"} \cup {"nfc"} = {"evse", "nfc"} /\ "nfc" \notin {"evse"}
    OBVIOUS
  <2>3. QED
    BY <2>1, <2>2, FS_AddElement
<1>2. IsFiniteSet({"master", "evse", "nfc", "other"})
  <2>1. {"evse", "nfc"} \cup {"master"} \cup {"other"}
          = {"master", "evse", "nfc", "other"}
    OBVIOUS
  <2>2. IsFiniteSet({"evse", "nfc"} \cup {"master"})
    BY <1>1, FS_AddElement
  <2>3. QED
    BY <2>1, <2>2, FS_AddElement
<1>3. IsFiniteSet(S)
  BY <1>2, FS_Subset
<1>4. {"evse", "nfc"} \subseteq S
  OBVIOUS
<1>5. QED
  BY <1>1, <1>3, <1>4, FS_Subset

(* A raised FatalError or exception ends the run: BInv says nothing of     *)
(* the labels "fatal" and "exc".                                           *)
LEMMA RaiseB ==
    ASSUME NEW kind \in {"fatal", "exc"}, Raise(kind)
    PROVE  BInv'
BY DEF Raise, BInv, KeysOK, EnumOK, ColourStart, LedGen, AskManual, LedSeen, LedAllSeen,
       TagSeen, VariantOK, JumperOK, ResistorOK, MeterLoop, MeterDone,
       BeforeLed, InLed, AfterLed, AfterVariant, AfterJumper, AfterResistor

LEMMA InitB == Init => BInv
BY DEF Init, BInv, KeysOK, EnumOK, ColourStart, LedGen, AskManual, LedSeen, LedAllSeen,
       TagSeen, VariantOK, JumperOK, ResistorOK, MeterLoop, MeterDone,
       BeforeLed, InLed, AfterLed, AfterVariant, AfterJumper, AfterResistor, KeysAt

(* Every step of run_bricklet_tests keeps BInv.                            *)
LEMMA StepB ==
    ASSUME BTypeOK, BInv, [Next]_vars
    PROVE  BInv'
<1>1. CASE Enumerate
  <2>1. CASE Raise("exc") \/ Raise("fatal")
    BY <2>1, RaiseB
  <2>2. CASE /\ "evse" \in hw.devices
             /\ cfg.variant = "B" \/ ("nfc" \in hw.devices
                                       /\ Cardinality(hw.devices) = 2)
             /\ Goto("hwconfig", {})
    <3>1. cfg.variant # "B" => hw.devices = {"evse", "nfc"}
      BY <2>2, TwoDevices DEF BTypeOK, Hardware
    <3>2. tpc = "enumerate" /\ UNCHANGED <<cfg, hw, colour, inputResult, attempt, errs>>
      BY <1>1 DEF Enumerate
    <3>3. QED
      BY <2>2, <3>1, <3>2 DEF Goto, BInv, KeysOK, KeysAt, EnumOK, ColourStart, LedGen, AskManual, LedSeen,
         LedAllSeen, TagSeen, VariantOK, JumperOK, ResistorOK, MeterLoop,
         MeterDone, BeforeLed, InLed, AfterLed, AfterVariant, AfterJumper,
         AfterResistor, Automatic
  <2>3. QED
    BY <1>1, <2>1, <2>2 DEF Enumerate
<1>2. CASE HwConfig
  <2>1. tpc = "hwconfig" /\ UNCHANGED <<cfg, hw, colour, inputResult, attempt, errs>>
    BY <1>2 DEF HwConfig
  <2>2. QED
    BY <1>2, <2>1, RaiseB DEF HwConfig, Goto, BInv, KeysOK, KeysAt, EnumOK, ColourStart, LedGen, AskManual, LedSeen,
         LedAllSeen, TagSeen, VariantOK, JumperOK, ResistorOK, MeterLoop,
         MeterDone, BeforeLed, InLed, AfterLed, AfterVariant, AfterJumper,
         AfterResistor, Automatic
<1>3. CASE Button
  <2>1. tpc = "button" /\ UNCHANGED <<cfg, hw, colour, inputResult, attempt, errs>>
    BY <1>3 DEF Button
  <2>2. CASE Raise("exc") \/ Raise("fatal")
    BY <2>2, RaiseB
  <2>3. CASE Goto(IF cfg.gen >= 3 THEN "led" ELSE "tags",
                  {"front_panel_button_tested"})
    BY <2>1, <2>3 DEF Goto, BInv, KeysOK, KeysAt, EnumOK, ColourStart, LedGen, AskManual, LedSeen,
         LedAllSeen, TagSeen, VariantOK, JumperOK, ResistorOK, MeterLoop,
         MeterDone, BeforeLed, InLed, AfterLed, AfterVariant, AfterJumper,
         AfterResistor, Automatic
  <2>4. QED
    BY <1>3, <2>2, <2>3 DEF Button
<1>4. CASE SetLed
  <2>1. tpc = "led" /\ UNCHANGED <<cfg, hw, attempt, errs>>
    BY <1>4 DEF SetLed
  <2>2. CASE Raise("exc")
    BY <2>2, RaiseB
  <2>3. CASE Automatic /\ hw.ledBad = Colours[colour] /\ Raise("fatal")
    BY <2>3, RaiseB
  <2>4. CASE /\ Automatic /\ hw.ledBad # Colours[colour] /\ NextColour
             /\ UNCHANGED <<keys, inputResult>>
    <3>1. \A i \in 1..colour : hw.ledBad # Colours[i]
      BY <2>1, <2>4 DEF BInv, LedSeen, BTypeOK
    <3>2. CASE colour < Len(Colours)
      <4>1. tpc' = "led" /\ colour' = colour + 1
        BY <2>4, <3>2 DEF NextColour
      <4>2. LedSeen'
        BY <2>1, <2>4, <3>1, <4>1 DEF LedSeen, BTypeOK
      <4>3. QED
        BY <2>1, <2>4, <4>1, <4>2 DEF BInv, KeysOK, KeysAt, EnumOK, ColourStart, LedGen, AskManual, LedSeen,
         LedAllSeen, TagSeen, VariantOK, JumperOK, ResistorOK, MeterLoop,
         MeterDone, BeforeLed, InLed, AfterLed, AfterVariant, AfterJumper,
         AfterResistor, Automatic
    <3>3. CASE ~(colour < Len(Colours))
      <4>1. tpc' = "led_off" /\ colour' = colour /\ colour = 4
        BY <2>4, <3>3 DEF NextColour, BTypeOK, Colours
      <4>2. hw.ledBad = "none"
        BY <3>1, <4>1 DEF BTypeOK, Hardware, Colours
      <4>3. QED
        BY <2>1, <2>4, <4>1, <4>2 DEF BInv, KeysOK, KeysAt, EnumOK, ColourStart, LedGen, AskManual, LedSeen,
         LedAllSeen, TagSeen, VariantOK, JumperOK, ResistorOK, MeterLoop,
         MeterDone, BeforeLed, InLed, AfterLed, AfterVariant, AfterJumper,
         AfterResistor, Automatic
    <3>4. QED
      BY <3>2, <3>3
  <2>5. CASE ~Automatic /\ inputResult' = "n" /\ Goto("ask", {})
             /\ UNCHANGED colour
    BY <2>1, <2>5 DEF Goto, BInv, KeysOK, KeysAt, EnumOK, ColourStart, LedGen, AskManual, LedSeen,
         LedAllSeen, TagSeen, VariantOK, JumperOK, ResistorOK, MeterLoop,
         MeterDone, BeforeLed, InLed, AfterLed, AfterVariant, AfterJumper,
         AfterResistor, Automatic
  <2>6. QED
    BY <1>4, <2>2, <2>3, <2>4, <2>5 DEF SetLed
<1>5. CASE Ask
  <2>1. tpc = "ask" /\ ~Automatic /\ UNCHANGED <<cfg, hw, attempt, errs, keys>>
    BY <1>5 DEF Ask, BInv, AskManual
  <2>2. PICK a \in Answers(hw.ledBad # Colours[colour]) :
          /\ inputResult' = Walrus(a)
          /\ IF Walrus(a) = "True"
               THEN UNCHANGED <<tpc, colour>>
             ELSE IF Walrus(a) = "n"
               THEN tpc' = "fatal" /\ UNCHANGED colour
             ELSE NextColour
    BY <1>5 DEF Ask
  <2>3. tpc' \in {"ask", "fatal", "led", "led_off"}
    BY <2>1, <2>2 DEF NextColour
  <2>4. QED
    BY <2>1, <2>3 DEF BInv, KeysOK, KeysAt, EnumOK, ColourStart, LedGen, AskManual, LedSeen,
         LedAllSeen, TagSeen, VariantOK, JumperOK, ResistorOK, MeterLoop,
         MeterDone, BeforeLed, InLed, AfterLed, AfterVariant, AfterJumper,
         AfterResistor, Automatic
<1>6. CASE LedOff
  <2>1. tpc = "led_off" /\ UNCHANGED <<cfg, hw, colour, inputResult, attempt, errs>>
    BY <1>6 DEF LedOff
  <2>2. QED
    BY <1>6, <2>1, RaiseB DEF LedOff, Goto, BInv, KeysOK, KeysAt, EnumOK, ColourStart, LedGen, AskManual, LedSeen,
         LedAllSeen, TagSeen, VariantOK, JumperOK, ResistorOK, MeterLoop,
         MeterDone, BeforeLed, InLed, AfterLed, AfterVariant, AfterJumper,
         AfterResistor, Automatic
<1>7. CASE Tags
  <2>1. tpc = "tags" /\ UNCHANGED <<cfg, hw, colour, inputResult, attempt, errs>>
    BY <1>7 DEF Tags
  <2>2. CASE Raise("exc") \/ Raise("fatal")
    BY <2>2, RaiseB
  <2>3. CASE Goto("variant", {})
            /\ (Detected(hw) # "B" /\ ~cfg.tagAccess => hw.rigTag)
    BY <2>1, <2>3 DEF Goto, BInv, KeysOK, KeysAt, EnumOK, ColourStart, LedGen, AskManual, LedSeen,
         LedAllSeen, TagSeen, VariantOK, JumperOK, ResistorOK, MeterLoop,
         MeterDone, BeforeLed, InLed, AfterLed, AfterVariant, AfterJumper,
         AfterResistor, Automatic
  <2>4. QED
    BY <1>7, <2>2, <2>3 DEF Tags
<1>8. CASE Variant
  <2>1. tpc = "variant" /\ UNCHANGED <<cfg, hw, colour, inputResult, attempt, errs>>
    BY <1>8 DEF Variant
  <2>2. QED
    BY <1>8, <2>1, RaiseB DEF Variant, Goto, BInv, KeysOK, KeysAt, EnumOK, ColourStart, LedGen, AskManual, LedSeen,
         LedAllSeen, TagSeen, VariantOK, JumperOK, ResistorOK, MeterLoop,
         MeterDone, BeforeLed, InLed, AfterLed, AfterVariant, AfterJumper,
         AfterResistor, Automatic
<1>9. CASE Jumper
  <2>1. tpc = "jumper" /\ UNCHANGED <<cfg, hw, colour, inputResult, attempt, errs>>
    BY <1>9 DEF Jumper
  <2>2. QED
    BY <1>9, <2>1, RaiseB DEF Jumper, Goto, BInv, KeysOK, KeysAt, EnumOK, ColourStart, LedGen, AskManual, LedSeen,
         LedAllSeen, TagSeen, VariantOK, JumperOK, ResistorOK, MeterLoop,
         MeterDone, BeforeLed, InLed, AfterLed, AfterVariant, AfterJumper,
         AfterResistor, Automatic
<1>10. CASE Resistor
  <2>1. tpc = "resistor" /\ UNCHANGED <<cfg, hw, colour, inputResult, attempt, errs>>
    BY <1>10 DEF Resistor
  <2>2. CASE Raise("exc") \/ Raise("fatal")
    BY <2>2, RaiseB
  <2>3. CASE hw.current = CurrentFor(cfg.power)
             /\ Goto(IF Detected(hw) = "P" THEN "samples" ELSE "returned",
                     {"resistor_checked"})
    BY <2>1, <2>3 DEF Goto, BInv, KeysOK, KeysAt, EnumOK, ColourStart, LedGen, AskManual, LedSeen,
         LedAllSeen, TagSeen, VariantOK, JumperOK, ResistorOK, MeterLoop,
         MeterDone, BeforeLed, InLed, AfterLed, AfterVariant, AfterJumper,
         AfterResistor, Automatic
  <2>4. QED
    BY <1>10, <2>2, <2>3 DEF Resistor
<1>11. CASE Samples
  <2>1. tpc = "samples" /\ UNCHANGED <<cfg, hw, colour, inputResult, attempt, errs>>
    BY <1>11 DEF Samples
  <2>2. QED
    BY <1>11, <2>1, RaiseB DEF Samples, Goto, BInv, KeysOK, KeysAt, EnumOK, ColourStart, LedGen, AskManual, LedSeen,
         LedAllSeen, TagSeen, VariantOK, JumperOK, ResistorOK, MeterLoop,
         MeterDone, BeforeLed, InLed, AfterLed, AfterVariant, AfterJumper,
         AfterResistor, Automatic
<1>12. CASE Meter
  <2>1. tpc = "meter" /\ UNCHANGED <<cfg, hw, colour, inputResult>>
    BY <1>12 DEF Meter
  <2>2. CASE Raise("exc")
    BY <2>2, RaiseB
  <2>3. CASE \E e \in MeterRead :
               /\ errs' = Append(errs, e)
               /\ IF e = "zero" THEN Goto("energy", {}) /\ UNCHANGED attempt
                  ELSE IF attempt = 2 /\ e = "other"
                    THEN Raise("fatal") /\ UNCHANGED attempt
                  ELSE IF attempt = 2
                    THEN Goto("energy", {}) /\ UNCHANGED attempt
                  ELSE attempt' = attempt + 1 /\ UNCHANGED <<tpc, keys>>
    <3>1. PICK e \in MeterRead :
               /\ errs' = Append(errs, e)
               /\ IF e = "zero" THEN Goto("energy", {}) /\ UNCHANGED attempt
                  ELSE IF attempt = 2 /\ e = "other"
                    THEN Raise("fatal") /\ UNCHANGED attempt
                  ELSE IF attempt = 2
                    THEN Goto("energy", {}) /\ UNCHANGED attempt
                  ELSE attempt' = attempt + 1 /\ UNCHANGED <<tpc, keys>>
      BY <2>3
    <3>2. /\ Len(errs') = Len(errs) + 1
          /\ errs'[Len(errs')] = e
      BY <3>1, AppendProperties DEF BTypeOK
    <3>3. Len(errs) = attempt /\ hw.samples /\ Detected(hw) = "P"
      BY <2>1 DEF BInv, MeterLoop, ResistorOK, BeforeLed, InLed, AfterLed
    <3>4. CASE e = "zero"
      BY <2>1, <3>1, <3>2, <3>3, <3>4 DEF Goto, BInv, KeysOK, KeysAt, EnumOK, ColourStart, LedGen, AskManual, LedSeen,
         LedAllSeen, TagSeen, VariantOK, JumperOK, ResistorOK, MeterLoop,
         MeterDone, BeforeLed, InLed, AfterLed, AfterVariant, AfterJumper,
         AfterResistor, Automatic, MeterHealthy
    <3>5. CASE e # "zero" /\ attempt = 2 /\ e = "other"
      BY <3>1, <3>5, RaiseB
    <3>6. CASE e # "zero" /\ attempt = 2 /\ e # "other"
      <4>1. e = "one_timeout"
        BY <3>6 DEF MeterRead
      <4>2. QED
        BY <2>1, <3>1, <3>2, <3>3, <3>6, <4>1 DEF Goto, BInv, KeysOK, KeysAt, EnumOK, ColourStart, LedGen, AskManual, LedSeen,
         LedAllSeen, TagSeen, VariantOK, JumperOK, ResistorOK, MeterLoop,
         MeterDone, BeforeLed, InLed, AfterLed, AfterVariant, AfterJumper,
         AfterResistor, Automatic, MeterHealthy
    <3>7. CASE e # "zero" /\ attempt # 2
      BY <2>1, <3>1, <3>2, <3>3, <3>7 DEF BInv, KeysOK, KeysAt, EnumOK, ColourStart, LedGen, AskManual, LedSeen,
         LedAllSeen, TagSeen, VariantOK, JumperOK, ResistorOK, MeterLoop,
         MeterDone, BeforeLed, InLed, AfterLed, AfterVariant, AfterJumper,
         AfterResistor, Automatic
    <3>8. QED
      BY <3>4, <3>5, <3>6, <3>7
  <2>4. QED
    BY <1>12, <2>2, <2>3 DEF Meter
<1>13. CASE Energy
  <2>1. tpc = "energy" /\ UNCHANGED <<cfg, hw, colour, inputResult, attempt, errs>>
    BY <1>13 DEF Energy
  <2>2. QED
    BY <1>13, <2>1, RaiseB DEF Energy, Goto, BInv, KeysOK, KeysAt, EnumOK, ColourStart, LedGen, AskManual, LedSeen,
         LedAllSeen, TagSeen, VariantOK, JumperOK, ResistorOK, MeterLoop,
         MeterDone, BeforeLed, InLed, AfterLed, AfterVariant, AfterJumper,
         AfterResistor, Automatic
<1>14. CASE Terminated \/ UNCHANGED vars
  BY <1>14 DEF Terminated, vars, BInv, KeysOK, KeysAt, EnumOK, ColourStart, LedGen, AskManual, LedSeen,
         LedAllSeen, TagSeen, VariantOK, JumperOK, ResistorOK, MeterLoop,
         MeterDone, BeforeLed, InLed, AfterLed, AfterVariant, AfterJumper,
         AfterResistor, Automatic
<1>15. QED
  BY <1>1, <1>2, <1>3, <1>4, <1>5, <1>6, <1>7, <1>8, <1>9, <1>10, <1>11,
     <1>12, <1>13, <1>14 DEF Next

-----------------------------------------------------------------------------
(* Theorems.                                                               *)

(* BInv holds in every state of every run of run_bricklet_tests.           *)
THEOREM BInvariant == Spec => []BInv
<1>1. BTypeOK /\ BInv /\ [Next]_vars => BInv'
  BY StepB
<1>2. QED
  BY <1>1, InitB, BTypeCorrect, PTL DEF Spec

(* run_bricklet_tests returns only for a unit that passed every check of   *)
(* lines 49-228: the declared variant, its bricklets, jumper, lock switch, *)
(* cable, the rig's tag, a rig-checked LED and a Pro's energy meter.       *)
THEOREM AcceptsOnlyConformingHolds == Spec => []AcceptsOnlyConforming
<1>1. BInv => AcceptsOnlyConforming
  <2> SUFFICES ASSUME BInv, tpc = "returned"
               PROVE  AcceptsOnlyConforming
    BY DEF AcceptsOnlyConforming
  <2>1. Detected(hw) = cfg.variant
    BY DEF BInv, VariantOK, AfterVariant
  <2>2. QED
    BY <2>1 DEF BInv, AcceptsOnlyConforming, EnumOK, AfterLed, LedAllSeen,
       TagSeen, AfterVariant, JumperOK, AfterJumper, ResistorOK,
       AfterResistor, MeterDone
<1>2. QED
  BY <1>1, BInvariant, PTL

(* The keys run_bricklet_tests writes into result when it returns are the  *)
(* declared configuration's BrickletKeys, although lines 77-228 choose     *)
(* them from the generation and the detected hardware.                     *)
THEOREM KeysDeclared == Spec => []KeysAsDeclared
<1>1. BInv => KeysAsDeclared
  <2> SUFFICES ASSUME BInv, tpc = "returned"
               PROVE  keys = BrickletKeys(cfg)
    BY DEF KeysAsDeclared
  <2>1. Detected(hw) = cfg.variant
    BY DEF BInv, VariantOK, AfterVariant
  <2>2. keys = KeysAt("returned")
    BY DEF BInv, KeysOK, AfterLed
  <2>3. QED
    BY <2>1, <2>2 DEF KeysAt, BrickletKeys, InLed, AfterLed, AfterVariant,
       AfterJumper, AfterResistor
<1>2. QED
  BY <1>1, BInvariant, PTL

=============================================================================
