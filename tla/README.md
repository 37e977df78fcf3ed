# Formal model of the stage-2 provisioning run

The repository's one program is `src/provisioning/provision_stage_2_warp2.py`.
An operator runs it on the test rig for each WARP2 or WARP3 charger. The run does these steps:

1. It reads the charger's QR codes.
2. It brings the charger's firmware up to the latest release.
3. It configures three NFC users and their tags.
4. It tests the charger's bricklets and has an external electrical tester check the unit.
5. It writes an audit record, `*_report_stage_2.json`, and signals pass or fail with the rig's LED strip and the exit status.

This directory holds TLA+ modules that model the run, TLC configurations that check them, and TLAPS proofs.

## Inventory of the program

| Part (code) | State it changes | Operations | Modelled in |
|---|---|---|---|
| Orchestrator: `main()` 540-824, `led_wrap()` 377-401, `__main__` 826-836 | `result` dict, report file, LED colour, exit status | about 25 sequential steps, each ending normally, in `fatal_error()`, or in an escaping exception | `ProvisionStage2` (every step) |
| Firmware reconciler: 589-630, `factory_reset()` 470-493 | charger firmware, charger users | version compare, 5-attempt upload loop, validate, factory reset | `ProvisionStage2` |
| User/tag configuration: 647-731 | charger user list, NFC config | read users, keep/add/reset decision, users/add, nfc/config_update | `ProvisionStage2` |
| Device tests: `run_bricklet_tests()` 45-228 | `result` keys | enumerate bricklets, classify variant, LED/button checks, jumper/diode/resistor checks, meter check | `BrickletTests` (every check); one step of `ProvisionStage2` |
| Retry wrapper: `retry_wrapper()` 240-284 | none (timing) | up to 3 attempts with backoff | not modelled: each wrapped call is one step whose outcomes include the re-raised exception |
| Polling probes: `connect_to_ethernet()` 495-512, `factory_reset()`, remove-charges loop 789-806 | none, or the charger reboots | 45 polls at a 1 s cadence | one step each (answer or timeout) |
| Electrical-test bridge: `handle_electrical_test_report()` 430-461 | marker files shared with the tester process | write command marker, poll for response marker until a deadline, delete it | `ElectricalTestBridge`, refining `ElectricalHandshake`; one step per command in `ProvisionStage2` |
| Tag collector: `collect_nfc_tag_ids()` 514-538, 403-428 | seen tags, LED blink | poll readers until 3 tags are seen | one step in `ProvisionStage2` and in `BrickletTests` (not modelled further) |
| Code decoder: `Scanner` 286-375 | decoded fields | regex-parse two QR codes | the decoded fields only, as the set `Config` of initial values |
| Browser automation (770-780) and `ContentTypeRemover` (463-468) | none | I/O glue | not modelled: only the exception they can raise is kept |

How the parts interact:
- The orchestrator is the only thread of the program. Every other part is a function it calls.
- The concurrency lies outside the program. The charger reboots on its own after a reset. The electrical tester is a separate process that shares the marker directory. The operator answers prompts.
- A call can therefore fail in three ways:
  - the charger or a tester gives a wrong answer, which the code turns into `fatal_error()`;
  - a transport error the code does not catch;
  - a deadline expires.

## The core module: `ProvisionStage2`

| Variable | Code |
|---|---|
| `pc` | the line of `main()` / `led_wrap()` / `__main__` the run is at |
| `cfg` | variant B/S/P, generation, accessories code present, stand and wiring access (fields of `Scanner`) |
| `fw`, `latest` | the charger's installed version and the latest image's version (triples) |
| `users` | the charger's user list: its length, and whether `users[1:]` are the canonical "Benutzer 1..3" |
| `flashTry` | `i` of `for i in range(5)` around the upload |
| `result` | the set of keys of the audit dict |
| `report` | the report file has been written |
| `err` | the exception unwinding `main()`: `none`, `fatal` (FatalError) or `exc` (anything else) |
| `rig` | LED strip: blue while running, `blink` for the tag countdown's orange/black/blue patterns, then green or red |
| `exitCode` | process status, -1 while running; 1 stands for any non-zero status |

How actions work:
- Each step of `main()` is one action, named after the step. It can only take the outcomes its code can produce.
  - `Start` can only raise a plain exception, from `os.readlink`.
  - `EventLog` can only fail fatally.
  - The users steps can raise either way. The `except` clauses call `e.read()`, which raises `AttributeError` unless the error is an `HTTPError`.
- `Call(from, outcomes, to, keys)` is the common shape of a step:
  - "ok" moves on and adds the keys the code writes into `result`;
  - any other outcome is `Raise`, which unwinds into `LedWrap`.
- `PowerOn` can raise from `stage3.power_on()` (non-basic only).
- `RaiseInTagCollection` is an exception out of `collect_nfc_tag_ids()` (514-538). The strip then keeps whatever `blink_tick()` last showed, blue or the countdown, because `stop_blink()` never runs.
  - `RigTags` collects through the rig's reader only without stand or wiring (lines 581-582).
  - `BrickletTests` collects through the charger's reader with them (line 144).
  - A completed collection ends on blue, so its blink is not a separate state.
- `LedWrap` models `led_wrap()` (392-401): red, `beep_failure()` and re-raise on an exception; power off, green and `beep_success()` on a normal return.
  - Each of these rig calls can raise. Before the colour is set the strip keeps its colour; a beep that fails leaves green or red.
- `ExitProcess` models `__main__` (826-836). Both `except` clauses end in `sys.exit(1)` (lines 832 and 836).
  - After a normal return the exit prompt `input()` (829) still runs inside the `try`.
  - An `EOFError` there takes the `except Exception` path to status 1, and a `KeyboardInterrupt` ends the process non-zero.
- `AuditKey` and `BrickletKeys` live in `ProvisionAudit.tla`, which `ProvisionStage2` and `BrickletTests` both extend.

How the charger's data is modelled:
- It is reduced to what the properties tell apart.
- Version numbers range over `0..MaxComponent`.
- `VersionLess` is Python's lexicographic list `<`.

Two assumptions about the charger, which the code relies on but does not check:
- a factory reset leaves a list of one user, the admin;
- `users/add` appends.

## Runs

The runs of this module use `MCProvisionStage2.tla` with these bounds:
- `MaxComponent = 1`, so there are 8 versions and every relative order of two versions occurs, including ones that differ only in the patch number;
- `MaxUsers = 5`, so user lists of length 0..5 occur, covering every branch of the decision at lines 653-667 and a list longer than 4;
- `FlashAttempts = 5`, as in the code.

The initial state covers all 24 configs, every pair of firmware versions, and every user list.

| Run | Config | Expect | What it shows |
|---|---|---|---|
| `stage2_safety` | `MCProvisionStage2.cfg` | pass | see below |
| `stage2_report_on_failure` | `MCProvisionStage2Report.cfg` | violation | `ReportMeansPassed`: the report is written (line 810) before the upload/download handshakes (819, 822). A failed handshake leaves a complete report for a failed unit. |
| `stage2_green_exit1` | `MCProvisionStage2Exit.cfg` | violation | `ExitStatusTruthful` (status 0 exactly when the strip is green, as spec sections 3 and 5 together say). Green is set at line 400, before `beep_success()` (401) and the exit prompt (829). Either can raise, and the process then exits 1 with a green strip. |

`stage2_safety` checks five invariants and one action property. It visits about 455 000 distinct states.
- `TypeOK`: every state is well typed.
- `ReportComplete`: a written report holds every key its variant, generation and accessories require.
- `FirmwareCurrent`: a networked charger reaches the bricklet tests, and its report, only with `fw = latest`.
  - This has to hold through URLErrors that may or may not have installed the image.
  - It has to hold through patch-only version differences.
- `UsersReadyForTags`: `nfc/config_update` runs only when the charger holds exactly the admin and the three canonical users.
- `ExitZeroMeansPassed`: status 0 only for a green strip, a normal return and a written report. `led_wrap()` catches every `BaseException`, while `__main__` handles `FatalError` and `Exception` in separate clauses; each must exit 1, as must a failure of the beep or the exit prompt.
- `LedVerdict` (action property): the strip turns green only in `led_wrap()`'s `else` branch, after `main()` returned normally with the report file written. The tag countdown and a failed run's cleanup never show green.

Each property has a mutant, a plausible bug that TLC shows breaks it:

| Mutant | Property it breaks |
|---|---|
| an unbounded retry loop | `TypeOK` |
| the `evse_test_report_found` key never recorded | `ReportComplete` |
| a compare that ignores the patch number | `FirmwareCurrent` |
| a user decision that resets only lists longer than 4 | `UsersReadyForTags` |
| `__main__` exiting 1 only on `FatalError` | `ExitZeroMeansPassed` |
| `led_wrap()` setting green in a `finally:` clause instead of `else:` | `LedVerdict` |

Fairness:
- `Spec` has `WF_vars(Next)`. The program is one thread that keeps running.
- Its waits are these:
  - operator prompts;
  - polls bounded by 45 iterations;
  - deadlines of 180/300 s.
- All of these end, except the tag collection, which needs the operator.
- Liveness is checked in the bridge model (below), not here.
- `Terminated` makes the exited state stutter, so deadlock checking is on.

## The device tests: `BrickletTests`

`BrickletTests.tla` models `run_bricklet_tests()` (lines 45-228). It has one action per step of the function, in code order:
- `Enumerate`: the device checks of lines 49-65;
- `HwConfig`: `get_hardware_configuration`;
- `Button`;
- `SetLed` and `Ask`: the four LED colours;
- `LedOff`;
- `Tags`;
- `Variant`: the cross-checks of lines 158-165;
- `Jumper`: jumper and lock switch;
- `Resistor`: the cable current;
- `Samples`;
- `Meter`: one pass of the three-attempt error loop;
- `Energy`.

The inputs are enumerated in `Init`:
- the configuration (`BConfig`): variant, generation, rated power, stand/wiring access, which decides `automatic`;
- the unit on the rig (`Hardware`): its devices, meter type, jumper, lock switch, cable current, at most one broken LED colour, whether the rig tag is seen, and whether the meter has samples.

Each meter read is chosen per attempt: all zero, a single timeout (`[1, 0, ...]`), or anything else. Every device read and HTTP read in this function is called without `retry_wrapper`, so each can raise. The operator is honest: asked about a colour, they type `y` if the LED shows it, `n` if not, or mistype.

`Walrus(a)` is the value line 89 binds: `input(...) not in ["y", "n"]`. It is a Python bool, encoded as the string "True" or "False" so that line 92's comparison with `"n"` is evaluated as Python does it, which is always false.

| Run | Config | Expect | What it shows |
|---|---|---|---|
| `bricklet_checks` | `BrickletTests.cfg` | pass | `AcceptsOnlyConforming` and `KeysAsDeclared` over about 660 000 states |
| `bricklet_led_manual` | `BrickletTestsLed.cfg` | violation | `LedDefectRejected`: in manual mode an `n` for a broken colour is ignored and the function returns |

What the properties say:
- `AcceptsOnlyConforming`: when the function returns, the unit matches its QR code.
  - The detected variant is the declared one.
  - A Smart or Pro enumerates exactly its EVSE and NFC Bricklets.
  - Jumper and cable fit the power, and there is no lock switch.
  - The fixed tag was seen when tags could not be collected.
  - A rig-checked LED shows every colour.
  - A Pro's meter has samples, and a read was all zero or the third read showed one timeout.
  - Its mutant is `i == 3` for `i == 2` in the meter loop.
- `KeysAsDeclared`: when the function returns, it has added exactly `BrickletKeys(cfg)`.
  - This is the abstraction `ProvisionStage2` uses for the function's single step.
  - The code chooses the keys from the detected hardware, so this needs the variant checks.
  - Its mutant leaves out `front_panel_button_tested`.

What TLC also showed: the Basic cross-check at line 158 can never fire. A non-Basic QR code requires exactly two devices, the EVSE and the NFC Bricklet, so no Master Brick can be present.

## The electrical-test bridge: `ElectricalTestBridge` and `ElectricalHandshake`

`ElectricalTestBridge.tla` models `handle_electrical_test_report()` (430-461) and its two calls in `main()`: upload with 180 s, then download with 300 s. A marker file `action[_serial]_timestamp[_success|_failure]` is the record `[act, ts, kind]`. The variables are:
- `dir`: the monitor directory;
- `clock`: both `datetime.now()` and `time.monotonic()`;
- `start`, `cmd`, `resp`: the function's locals.

The actions are:
- `WriteCommand`: `open(...)` creates the command marker, or raises when the directory is missing;
- `PollFound` and `PollEmpty`: one pass of the loop at 446-450;
- `TimedOut`: line 452;
- `Finish`: remove the response and test `_failure`;
- `Tick`: time passes while a call waits;
- `TesterAnswer`: the external tester.

The tester is not in this repository, so it is modelled from spec section 4.7: it answers a command at most once, with success or failure, at any time, or never.

The directory starts with any set of markers of earlier runs, with stamps in `OldStamps`. `BridgeAssumption` puts those stamps before `RunStart`, because stamps come from the wall clock at microsecond resolution and a stamp repeated by a clock step back is outside the model.

`ElectricalHandshake.tla` is what the bridge promises:
- the run sends a request for upload, then for download;
- the tester replies at most once to each;
- the run goes on only on a success reply to its own request, and may give up waiting.

The refinement mapping, `HS == INSTANCE ElectricalHandshake WITH ...`, is:
- writing maps to sending, and polling or removing maps to waiting;
- `sent` is the set of actions of the issued tokens;
- the reply to a request is the tester's answer to this run's token for it.

| Run | Config | Expect | What it shows |
|---|---|---|---|
| `bridge_handshake` | `MCElectricalTestBridge.cfg` | pass | `VerdictSound`, `HandshakeEnds`, `ImplementsHandshake`, with timeouts of 2 ticks, stale stamp 0 and run start 1 (6 300 states) |

What the properties say, each with the mutant that breaks it:
- `VerdictSound`: the response the run removes and judges is the tester's answer to the current command. Markers left by earlier runs never count. Mutant: matching a response on the action alone.
- `HandshakeEnds`: the run ends whether or not the tester answers. Mutant: a loop without the deadline.
- `ImplementsHandshake`: the abstract spec as a property. Mutant: `Finish` ignoring `_failure`.

Why the bounds are enough:
- A deadline of 2 ticks lets an answer arrive before the first poll, between polls, or after the deadline.
- One stale stamp of each kind and action covers a stale response for either call.

Fairness: `WF_vars(Run)` only.
- The run is one thread that keeps polling, and the monotonic clock keeps going.
- The tester gets no fairness, since it may crash.
- So `HandshakeEnds` rests on the deadline alone.

## Proofs

Four modules hold proofs, and `tlapm` checks every step.

`ProvisionStage2Proofs.tla` works from `ConstantsAssumption`:
- `MaxComponent` and `MaxUsers` are naturals, with `MaxUsers >= 4`;
- `FlashAttempts >= 1`.

It proves two theorems:
- `TypeCorrect`: `Spec => []TypeOK`. It rests on the lemma `CallType`.
- `ReportCompleteness`: `Spec => []ReportComplete`.
  - `ReportComplete` is not inductive as it stands. A state just before `WriteReport` with keys missing satisfies it.
  - The strengthening `IInv` adds two conjuncts:
    - the run is on its variant's branch (`OnBranch`);
    - `result` holds every key recorded before the current label (`RecordedAt`).
  - The lemmas `GotoInv`, `RaiseInv` and `CallInv` cover the generic step shapes.

`ProvisionStage2Invariants.tla` extends it. It proves the other invariants of `stage2_safety` and its action property, for every value of the constants:
- `FirmwareCurrentness`: `Spec => []FirmwareCurrent`;
- `UsersReadiness`: `Spec => []UsersReadyForTags`;
- `ExitZeroPassed`: `Spec => []ExitZeroMeansPassed`;
- `LedVerdictHolds`: `Spec => LedVerdict`.

None of the four properties is inductive on its own. All of them follow from one strengthening, `PInv`, proved invariant as `PInvariant`. Its conjuncts, and why each is needed:
- `FwAt`: a networked charger has `fw = latest` at every label after the compare and upload (`FwSettled`). `FirmwareCurrent` says nothing before `bricklet`, so it cannot tell that `Proxy` moves there with the right firmware.
- `ReportLate` and `ReportFw`: the report exists only after `write_report`, and then with the latest firmware. This rules out a flash after the report.
- `BasicOnly`: only a Basic reaches `basic_connect`. This keeps the networked path through the compare.
- `UsersAddFrom`: `users_add` starts from the one-user list. `UsersAdd` then yields exactly four canonical users.
- `Running` and `Unwinding`: `err` is `none` exactly on the normal path.
- `LedTells`: once `led_wrap()` has returned without an exception, the strip is green and the report is written.
- `ExitTells`: status 0 means `err` is `none`.
- `ReportWritten`: the labels after `json.dump` have the report.

The lemmas are these:
- `VersionTrichotomy` and `VersionIrreflexive`: two versions neither below the other are equal. This is why the compare's third branch means `fw = latest`.
- `GotoP`, `RaiseP`, `TagRaiseP` and `CallP`: the generic step shapes, with the conditions a target label must meet.
- `StepP`: every action, with one case each. It takes `TypeOK` from `TypeCorrect`.
- `GreenStep`: only `LedWrap`, from `finished`, turns the strip green.

`BrickletTestsProofs.tla` proves both properties of `bricklet_checks`. It needs no constant assumptions:
- `BTypeCorrect`: a type invariant `BTypeOK`, which has no run of its own;
- `AcceptsOnlyConformingHolds`: `Spec => []AcceptsOnlyConforming`;
- `KeysDeclared`: `Spec => []KeysAsDeclared`.

Both properties speak only of `returned`, so they are not inductive. The strengthening `BInv` records which fact each passed check establishes, and at which later labels the fact still holds:
- the device topology after `Enumerate`;
- the colours already seen in the LED loop (`LedSeen`), so that after the fourth all are known good;
- the rig tag after `Tags`, the variant after `Variant`, and jumper, lock and cable after their checks;
- `Len(errs) = attempt` through the meter loop, and a healthy meter at `energy`;
- the exact key set at each label (`KeysAt`).

The lemma `TwoDevices` (from `FiniteSetTheorems`) turns the count check of lines 61-65 into the set equality the property states.

`ElectricalTestBridgeProofs.tla` works from `BridgeAssumption` and proves three theorems:
- `TypeCorrect`.
- `VerdictSoundness`: `Spec => []VerdictSound`.
  - `VerdictSound` is not inductive. A fresh response marker in the directory must already be known to be the tester's.
  - `IInv` ties every fresh marker to this run. It holds these facts:
    - every issued token is fresh and no later than the clock;
    - at most one token is issued per action;
    - a fresh command marker was issued (`DirFresh`);
    - a fresh response marker is a tester answer to an issued token (`ToldIssued`);
    - the tester answers each token once (`ToldUnique`);
    - a download token means the upload is over (`IssuedOrder`);
    - nothing of the current call has been issued while it writes (`WriteClean`).
  - `InitIInv` and `NextIInv` prove it, with one step per action.
- `Refinement`: `Spec => ImplementsHandshake`.
  - The initial state maps to `HInit`.
  - The lemma `StepRefines` maps each step, under `IInv` and `IInv'`, to an abstract step or a stutter:
    - `WriteCommand` maps to `HSend`;
    - `Finish` maps to `HReceive`;
    - `TimedOut` maps to `HGiveUp`;
    - `TesterAnswer` maps to `HReply`, or to a stutter when it answers a stale marker;
    - the rest map to stutters.
  - `ReplyOfResp` shows the removed response is the abstract reply.

Every inductive invariant was first checked by TLC as an invariant of the run's instance, and only then proved.

What stays with TLC:
- `HandshakeEnds`, because TLAPS does not check liveness or `ENABLED`;
- the three violation runs (`ReportMeansPassed`, `ExitStatusTruthful`, `LedDefectRejected`). They are counterexamples, not theorems.

## Not modelled, and why

- `retry_wrapper()` (240-284) and the accessors that use it. They retry a call three times and re-raise. The orchestrator models each wrapped call as one step whose outcomes already include the exception that escapes after the last attempt.
- The loop of `collect_nfc_tag_ids()` (514-538). It waits, without a bound, until the operator shows three tags; that it ends depends on the operator alone. Only its effect on the LED and its exceptions are modelled (`RaiseInTagCollection`).
- The polling probes (`connect_to_ethernet`, the waits in `factory_reset`, the remove-charges loop). They are bounded loops of 45 polls, so each is one step with an answer or a timeout. How long the charger takes to reboot, which decides whether the fixed 10 s after a reset is enough, is not observed by the code.
- The QR grammars of `Scanner`. This is string parsing; only the decoded fields that steer the run are modelled.
- Browser automation and `ContentTypeRemover`. This is I/O glue.

Divergences from the spec recorded in `PROJECT.json`:
- The report is written before the electrical handshakes (`stage2_report_on_failure`).
- A run can show green and exit 1 (`stage2_green_exit1`).
- The manual LED check ignores an `n` (`bricklet_led_manual`).
- The bricklet reads in `run_bricklet_tests()` are not retried (spec 4.6). One transient failure ends the run red with status 1.
