---------------------------- MODULE BrickletTests ----------------------------
(***************************************************************************)
(* run_bricklet_tests(): the device-topology validation and the test       *)
(* sequence that main() runs once the charger's bricklets are reachable.   *)
(*                                                                         *)
(* The unit on the rig is an input: which devices enumerate, what the EVSE *)
(* Bricklet reports (meter type, jumper, lock switch, cable current), which *)
(* front-LED colour (if any) is broken, whether the rig's fixed NFC tag is *)
(* seen and whether the meter has samples.  The energy-meter error vector  *)
(* is read anew on each attempt and abstracted to "zero" (all counters 0), *)
(* "one_timeout" ([1, 0, ...]) or "other".  Every RPC and HTTP read is     *)
(* called without retry_wrapper, so each may raise ("exc").  The operator  *)
(* is honest: asked about a colour, they type y if it shows, n if not, or  *)
(* mistype.                                                                *)
(***************************************************************************)
EXTENDS Integers, Sequences, FiniteSets, ProvisionAudit

VARIABLES
    tpc,          \* where run_bricklet_tests is: a step label, or
                  \* "returned", "fatal", "exc"
    cfg,          \* the scanned configuration (qr_variant, qr_gen, qr_power,
                  \* stand and wiring present)
    hw,           \* the unit on the rig
    colour,       \* the LED colour being checked, 1..4
    inputResult,  \* manual_check_color's input_result
    attempt,      \* i of the energy-meter error loop
    errs,         \* (history) the error vectors read so far
    keys          \* the keys written into result

vars == <<tpc, cfg, hw, colour, inputResult, attempt, errs, keys>>

Colours == <<"red", "green", "blue", "white">>

MeterRead == {"zero", "one_timeout", "other"}

(* The QR fields this function reads.  tagAccess is qr_stand # '0' /\      *)
(* qr_stand_wiring # '0'; the code's `automatic` is its negation.          *)
BConfig == [variant : {"B", "S", "P"}, gen : {2, 3}, power : {"11", "22"},
            tagAccess : BOOLEAN]

Hardware ==
    [devices : SUBSET {"master", "evse", "nfc", "other"},
     meter : {0, 1}, jumper : {3, 6}, lock : BOOLEAN,
     current : {20000, 32000},
     ledBad : {"none", "red", "green", "blue", "white"},
     rigTag : BOOLEAN, samples : BOOLEAN]

Automatic == ~cfg.tagAccess

(* is_basic, is_smart, is_pro (lines 51, 67, 72-73).                       *)
Detected(h) ==
    IF "master" \in h.devices THEN "B"
    ELSE IF h.meter = 0 THEN "S"
    ELSE "P"

(* The jumper setting and cable current each rated power requires.         *)
JumperFor(p) == IF p = "11" THEN 3 ELSE 6

CurrentFor(p) == IF p = "11" THEN 20000 ELSE 32000

(* The value of `input(...) not in ["y", "n"]`, which the walrus on line   *)
(* 89 binds to input_result: a Python bool, written "True" or "False" so   *)
(* that it can be compared with the string "n" as line 92 does.            *)
Walrus(a) == IF a \notin {"y", "n"} THEN "True" ELSE "False"

(* What an honest operator types when asked whether the LED shows the      *)
(* colour: the right letter, or a typo.                                    *)
Answers(shows) == {IF shows THEN "y" ELSE "n", "x"}

Goto(to, new) ==
    /\ tpc' = to
    /\ keys' = keys \cup new

Raise(kind) ==
    /\ tpc' = kind
    /\ UNCHANGED keys

Init ==
    /\ tpc = "enumerate"
    /\ cfg \in BConfig
    /\ hw \in Hardware
    /\ colour = 1
    /\ inputResult = "n"
    /\ attempt = 0
    /\ errs = << >>
    /\ keys = {}

(* enumerate_devices() and the topology checks of lines 57-65; the count   *)
(* is not checked for a Basic, whose bricklets share the test PC.          *)
Enumerate ==
    /\ tpc = "enumerate"
    /\ \/ Raise("exc")
       \/ /\ "evse" \notin hw.devices
          /\ Raise("fatal")
       \/ /\ "evse" \in hw.devices
          /\ cfg.variant # "B"
          /\ "nfc" \notin hw.devices \/ Cardinality(hw.devices) # 2
          /\ Raise("fatal")
       \/ /\ "evse" \in hw.devices
          /\ cfg.variant = "B" \/ ("nfc" \in hw.devices
                                    /\ Cardinality(hw.devices) = 2)
          /\ Goto("hwconfig", {})
    /\ UNCHANGED <<cfg, hw, colour, inputResult, attempt, errs>>

(* evse.get_hardware_configuration().                                      *)
HwConfig ==
    /\ tpc = "hwconfig"
    /\ Raise("exc") \/ Goto("button", {})
    /\ UNCHANGED <<cfg, hw, colour, inputResult, attempt, errs>>

(* (mutant) result["front_panel_button_tested"] = True left out.           *)
ButtonUnrecorded ==
    /\ tpc = "button"
    /\ \/ Raise("exc") \/ Raise("fatal")
       \/ Goto(IF cfg.gen >= 3 THEN "led" ELSE "tags", {})
    /\ UNCHANGED <<cfg, hw, colour, inputResult, attempt, errs>>

(* stage3.test_front_panel_button(automatic); the LED checks follow for    *)
(* generation 3 and later.                                                 *)
Button ==
    /\ tpc = "button"
    /\ \/ Raise("exc") \/ Raise("fatal")
       \/ Goto(IF cfg.gen >= 3 THEN "led" ELSE "tags",
               {"front_panel_button_tested"})
    /\ UNCHANGED <<cfg, hw, colour, inputResult, attempt, errs>>

(* After one colour, the next one, or switch the LED back (line 121).      *)
NextColour ==
    IF colour < Len(Colours)
      THEN tpc' = "led" /\ colour' = colour + 1
      ELSE tpc' = "led_off" /\ colour' = colour

(* evse.set_indicator_led(colour); with the rig, stage3 reads the LED's    *)
(* colour and a wrong one is fatal; without it, manual_check_color asks    *)
(* the operator.                                                           *)
SetLed ==
    /\ tpc = "led"
    /\ \/ Raise("exc") /\ UNCHANGED <<colour, inputResult>>
       \/ /\ Automatic
          /\ hw.ledBad = Colours[colour]
          /\ Raise("fatal")
          /\ UNCHANGED <<colour, inputResult>>
       \/ /\ Automatic
          /\ hw.ledBad # Colours[colour]
          /\ NextColour
          /\ UNCHANGED <<keys, inputResult>>
       \/ /\ ~Automatic
          /\ inputResult' = "n"
          /\ Goto("ask", {})
          /\ UNCHANGED colour
    /\ UNCHANGED <<cfg, hw, attempt, errs>>

(* One pass of the prompt loop of manual_check_color: the loop repeats     *)
(* while input_result is truthy, then `input_result == "n"` is fatal.      *)
Ask ==
    /\ tpc = "ask"
    /\ \E a \in Answers(hw.ledBad # Colours[colour]) :
          /\ inputResult' = Walrus(a)
          /\ IF Walrus(a) = "True"
               THEN UNCHANGED <<tpc, colour>>
             ELSE IF Walrus(a) = "n"
               THEN tpc' = "fatal" /\ UNCHANGED colour
             ELSE NextColour
    /\ UNCHANGED <<cfg, hw, attempt, errs, keys>>

(* evse.set_indicator_led(-1, ...) and the key (lines 121-123).            *)
LedOff ==
    /\ tpc = "led_off"
    /\ Raise("exc") \/ Goto("tags", {"front_panel_led_tested"})
    /\ UNCHANGED <<cfg, hw, colour, inputResult, attempt, errs>>

(* Smart and Pro: collect three tags through the charger's reader when the *)
(* stand gives access to it, else read seen_tags once and require the      *)
(* rig's fixed tag.                                                        *)
Tags ==
    /\ tpc = "tags"
    /\ \/ Detected(hw) = "B" /\ Goto("variant", {})
       \/ Detected(hw) # "B" /\ Raise("exc")
       \/ Detected(hw) # "B" /\ cfg.tagAccess /\ Goto("variant", {})
       \/ /\ Detected(hw) # "B" /\ ~cfg.tagAccess
          /\ IF hw.rigTag THEN Goto("variant", {}) ELSE Raise("fatal")
    /\ UNCHANGED <<cfg, hw, colour, inputResult, attempt, errs>>

(* The declared variant must be the detected one (lines 158-165); then the *)
(* EVSE's version and UID, and a Basic's Master UID, are recorded.         *)
Variant ==
    /\ tpc = "variant"
    /\ IF Detected(hw) # cfg.variant
         THEN Raise("fatal")
         ELSE Goto("jumper", {"evse_version", "evse_uid"}
                             \cup (IF Detected(hw) = "B"
                                     THEN {"master_uid"} ELSE {}))
    /\ UNCHANGED <<cfg, hw, colour, inputResult, attempt, errs>>

(* Jumper for the rated power, then no lock switch (lines 177-187).        *)
Jumper ==
    /\ tpc = "jumper"
    /\ IF hw.jumper # JumperFor(cfg.power) \/ hw.lock
         THEN Raise("fatal")
         ELSE Goto("resistor", {"jumper_config_checked", "diode_checked"})
    /\ UNCHANGED <<cfg, hw, colour, inputResult, attempt, errs>>

(* get_charging_slot(1): the cable's current for the rated power; the      *)
(* meter checks follow for a Pro.                                          *)
Resistor ==
    /\ tpc = "resistor"
    /\ \/ Raise("exc")
       \/ /\ hw.current # CurrentFor(cfg.power)
          /\ Raise("fatal")
       \/ /\ hw.current = CurrentFor(cfg.power)
          /\ Goto(IF Detected(hw) = "P" THEN "samples" ELSE "returned",
                  {"resistor_checked"})
    /\ UNCHANGED <<cfg, hw, colour, inputResult, attempt, errs>>

(* GET /meter/live: at least two samples.                                  *)
Samples ==
    /\ tpc = "samples"
    /\ \/ Raise("exc")
       \/ ~hw.samples /\ Raise("fatal")
       \/ hw.samples /\ Goto("meter", {})
    /\ UNCHANGED <<cfg, hw, colour, inputResult, attempt, errs>>

(* (mutant) `if i == 3 and ...`: the last attempt is never judged.         *)
MeterOffByOne ==
    /\ tpc = "meter"
    /\ \/ Raise("exc") /\ UNCHANGED <<attempt, errs>>
       \/ \E e \in MeterRead :
            /\ errs' = Append(errs, e)
            /\ IF e = "zero" THEN Goto("energy", {}) /\ UNCHANGED attempt
               ELSE IF attempt = 3 /\ e = "other"
                 THEN Raise("fatal") /\ UNCHANGED attempt
               ELSE IF attempt = 2
                 THEN Goto("energy", {}) /\ UNCHANGED attempt
               ELSE attempt' = attempt + 1 /\ UNCHANGED <<tpc, keys>>
    /\ UNCHANGED <<cfg, hw, colour, inputResult>>

(* One pass of `for i in range(3)`: get_energy_meter_errors(); all zero    *)
(* breaks out; on the third pass anything but one timeout is fatal, and    *)
(* one timeout lets the loop end; otherwise try again.                     *)
Meter ==
    /\ tpc = "meter"
    /\ \/ Raise("exc") /\ UNCHANGED <<attempt, errs>>
       \/ \E e \in MeterRead :
            /\ errs' = Append(errs, e)
            /\ IF e = "zero" THEN Goto("energy", {}) /\ UNCHANGED attempt
               ELSE IF attempt = 2 /\ e = "other"
                 THEN Raise("fatal") /\ UNCHANGED attempt
               ELSE IF attempt = 2
                 THEN Goto("energy", {}) /\ UNCHANGED attempt
               ELSE attempt' = attempt + 1 /\ UNCHANGED <<tpc, keys>>
    /\ UNCHANGED <<cfg, hw, colour, inputResult>>

(* The key, then GET /meter/values and, above 1 kWh, the operator's y.     *)
Energy ==
    /\ tpc = "energy"
    /\ Raise("exc") \/ Goto("returned", {"energy_meter_reachable"})
    /\ UNCHANGED <<cfg, hw, colour, inputResult, attempt, errs>>

Terminated ==
    /\ tpc \in {"returned", "fatal", "exc"}
    /\ UNCHANGED vars

Next ==
    \/ Enumerate \/ HwConfig \/ Button \/ SetLed \/ Ask \/ LedOff \/ Tags
    \/ Variant \/ Jumper \/ Resistor \/ Samples \/ Meter \/ Energy
    \/ Terminated

Spec == Init /\ [][Next]_vars

-----------------------------------------------------------------------------
(* Properties.                                                             *)

(* The meter passed as section 8 of the spec says: some read was all zero, *)
(* or the third read showed a single timeout.                              *)
MeterHealthy(s) ==
    \/ s[Len(s)] = "zero"
    \/ s[Len(s)] = "one_timeout" /\ Len(s) = 3

(* When run_bricklet_tests returns, the unit on the rig is the one the QR  *)
(* code declares and is built right: the detected variant is the declared *)
(* one, a Smart or Pro enumerates exactly its EVSE and NFC Bricklets, the *)
(* jumper and the cable fit the rated power, there is no lock switch, the  *)
(* rig saw the fixed tag when it could not collect tags, a rig-checked LED *)
(* shows every colour, and a Pro's meter has samples and passed the error  *)
(* check.                                                                  *)
AcceptsOnlyConforming ==
    tpc = "returned" =>
        /\ Detected(hw) = cfg.variant
        /\ cfg.variant # "B" => hw.devices = {"evse", "nfc"}
        /\ hw.jumper = JumperFor(cfg.power)
        /\ hw.current = CurrentFor(cfg.power)
        /\ ~hw.lock
        /\ cfg.variant # "B" /\ ~cfg.tagAccess => hw.rigTag
        /\ cfg.gen >= 3 /\ Automatic => hw.ledBad = "none"
        /\ cfg.variant = "P" => hw.samples /\ MeterHealthy(errs)

(* The keys run_bricklet_tests adds to result are the ones main() is       *)
(* modelled to get (BrickletKeys of the declared configuration), although *)
(* the code chooses them from the detected hardware and the generation.    *)
KeysAsDeclared ==
    tpc = "returned" => keys = BrickletKeys(cfg)

(* A front-LED colour that the operator reports missing ("n") stops the    *)
(* run, as the prompt and its fatal_error("Front LED not ...") intend.     *)
LedDefectRejected ==
    tpc = "returned" /\ cfg.gen >= 3 => hw.ledBad = "none"

=============================================================================
