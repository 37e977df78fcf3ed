------------------------ MODULE ElectricalTestBridge ------------------------
(***************************************************************************)
(* The two calls of handle_electrical_test_report() at the end of main()   *)
(* (upload with a 180 s deadline, then download with 300 s) and the        *)
(* external electrical-test process they talk to through marker files in  *)
(* electrical_test_automation/monitor.                                     *)
(*                                                                         *)
(* A marker is named action[_serial]_timestamp[_success|_failure]; here it *)
(* is the record [act, ts, kind].  The serial is left out: markers of one  *)
(* run already differ in act and ts.  Time is a counter `clock` standing   *)
(* both for datetime.now() (the stamp in the name) and time.monotonic()    *)
(* (the deadline); it only needs to advance while a call is polling.       *)
(* The directory may hold markers of earlier runs, which nothing removes.  *)
(* The tester is not part of this repository; it is modelled from the      *)
(* spec (section 4.7): it answers a command marker at most once, with      *)
(* success or failure, at any time, possibly never.                        *)
(***************************************************************************)
EXTENDS Naturals

CONSTANTS
    UploadTimeout,    \* the 180 s deadline of the upload call, in ticks
    DownloadTimeout,  \* the 300 s deadline of the download call, in ticks
    OldStamps,        \* timestamps of markers that earlier runs left behind
    RunStart          \* the clock when this run reaches the handshakes

ASSUME BridgeAssumption ==
    /\ UploadTimeout \in Nat \ {0}
    /\ DownloadTimeout \in Nat \ {0}
    /\ RunStart \in Nat
    /\ OldStamps \subseteq Nat
    /\ \A s \in OldStamps : s < RunStart

VARIABLES
    bpc,      \* where the run is: "write", "poll", "remove", "done",
              \* "fatal" or "exc"
    call,     \* action of the current call
    cmd,      \* the command token [act, ts] the current call wrote
    start,    \* time.monotonic() when the current call wrote its command
    resp,     \* command_response: the response marker found, or NoMarker
    clock,    \* the time
    monitor,  \* the monitor directory exists
    dir,      \* the markers in the monitor directory
    told,     \* (history) every response marker the tester has written
    issued    \* (history) every command token this run has written

vars == <<bpc, call, cmd, start, resp, clock, monitor, dir, told, issued>>

Act == {"upload", "download"}

Kind == {"cmd", "success", "failure"}

Marker == [act : Act, ts : Nat, kind : Kind]

Token == [act : Act, ts : Nat]

NoMarker == [act |-> "upload", ts |-> 0, kind |-> "cmd"]

(* The timeout argument of each call (lines 819 and 822).                  *)
Timeout(a) == IF a = "upload" THEN UploadTimeout ELSE DownloadTimeout

(* (mutant) a response is matched on the action alone, as a prefix test on *)
(* the name would do.                                                      *)
RespondsToAction(m, c) ==
    /\ m.act = c.act
    /\ m.kind \in {"success", "failure"}

(* name in command_responses: the name is the command's token followed by  *)
(* _success or _failure.                                                   *)
Responds(m, c) ==
    /\ m.act = c.act
    /\ m.ts = c.ts
    /\ m.kind \in {"success", "failure"}

(* (mutant) `while command_response == None:` with no deadline.           *)
WaitingNoDeadline == resp = NoMarker

(* The loop condition: no response seen yet and the deadline not passed.  *)
Waiting == resp = NoMarker /\ start + Timeout(call) > clock

Init ==
    /\ bpc = "write"
    /\ call = "upload"
    /\ cmd = [act |-> "upload", ts |-> 0]
    /\ start = 0
    /\ resp = NoMarker
    /\ clock = RunStart
    /\ monitor \in BOOLEAN
    /\ dir \in SUBSET [act : Act, ts : OldStamps, kind : Kind]
    /\ told = {}
    /\ issued = {}

(* Build the command from the current timestamp and create its marker      *)
(* file; open() raises FileNotFoundError when the directory is missing.    *)
WriteCommand ==
    /\ bpc = "write"
    /\ \/ /\ ~monitor
          /\ bpc' = "exc"
          /\ UNCHANGED <<call, cmd, start, resp, clock, monitor, dir, told,
                         issued>>
       \/ /\ monitor
          /\ cmd' = [act |-> call, ts |-> clock]
          /\ dir' = dir \cup {[act |-> call, ts |-> clock, kind |-> "cmd"]}
          /\ issued' = issued \cup {[act |-> call, ts |-> clock]}
          /\ start' = clock
          /\ resp' = NoMarker
          /\ bpc' = "poll"
          /\ UNCHANGED <<call, clock, monitor, told>>

(* One pass of the loop that lists the directory and finds a response to   *)
(* the command (the first in listing order).                               *)
PollFound ==
    /\ bpc = "poll"
    /\ Waiting
    /\ \E m \in dir : Responds(m, cmd) /\ resp' = m
    /\ bpc' = "remove"
    /\ UNCHANGED <<call, cmd, start, clock, monitor, dir, told, issued>>

(* A pass that finds no response: the loop spins.                          *)
PollEmpty ==
    /\ bpc = "poll"
    /\ Waiting
    /\ ~\E m \in dir : Responds(m, cmd)
    /\ UNCHANGED vars

(* The loop ended without a response: fatal_error (line 452).              *)
TimedOut ==
    /\ bpc = "poll"
    /\ ~Waiting
    /\ resp = NoMarker
    /\ bpc' = "fatal"
    /\ UNCHANGED <<call, cmd, start, resp, clock, monitor, dir, told, issued>>

(* (mutant) the endswith('_failure') test dropped.                          *)
FinishIgnoringFailure ==
    /\ bpc = "remove"
    /\ dir' = dir \ {resp}
    /\ IF call = "upload"
         THEN bpc' = "write" /\ call' = "download"
         ELSE bpc' = "done" /\ call' = call
    /\ UNCHANGED <<cmd, start, resp, clock, monitor, told, issued>>

(* Remove the response marker (a missing file is ignored), fail on         *)
(* _failure, else return to main(), which goes on with the download call   *)
(* or prints Done.                                                         *)
Finish ==
    /\ bpc = "remove"
    /\ dir' = dir \ {resp}
    /\ IF resp.kind = "failure"
         THEN bpc' = "fatal" /\ call' = call
       ELSE IF call = "upload"
         THEN bpc' = "write" /\ call' = "download"
       ELSE bpc' = "done" /\ call' = call
    /\ UNCHANGED <<cmd, start, resp, clock, monitor, told, issued>>

(* Time passes while a call waits.                                         *)
Tick ==
    /\ bpc = "poll"
    /\ clock < start + Timeout(call)
    /\ clock' = clock + 1
    /\ UNCHANGED <<bpc, call, cmd, start, resp, monitor, dir, told, issued>>

(* The tester answers a command marker it has not answered yet.            *)
TesterAnswer ==
    \E m \in dir, k \in {"success", "failure"} :
        /\ m.kind = "cmd"
        /\ ~\E r \in dir \cup told :
              r.act = m.act /\ r.ts = m.ts /\ r.kind # "cmd"
        /\ dir' = dir \cup {[m EXCEPT !.kind = k]}
        /\ told' = told \cup {[m EXCEPT !.kind = k]}
        /\ UNCHANGED <<bpc, call, cmd, start, resp, clock, monitor, issued>>

(* The run has ended; the tester may still answer.                         *)
Terminated ==
    /\ bpc \in {"done", "fatal", "exc"}
    /\ UNCHANGED vars

Run == WriteCommand \/ PollFound \/ PollEmpty \/ TimedOut \/ Finish \/ Tick

Next == Run \/ TesterAnswer \/ Terminated

(* The run is one thread that keeps polling and the clock keeps going; the *)
(* tester gets no fairness: it may crash or never answer.                  *)
Spec == Init /\ [][Next]_vars /\ WF_vars(Run)

-----------------------------------------------------------------------------
(* Properties.                                                             *)

TypeOK ==
    /\ bpc \in {"write", "poll", "remove", "done", "fatal", "exc"}
    /\ call \in Act
    /\ cmd \in Token
    /\ start \in Nat /\ clock \in Nat
    /\ resp \in Marker
    /\ monitor \in BOOLEAN
    /\ dir \subseteq Marker
    /\ told \subseteq Marker
    /\ issued \subseteq Token

(* The run acts only on the tester's answer to the command it wrote in     *)
(* this run: a response it removes and judges was written by the tester    *)
(* for exactly this command, never a stale marker an earlier run left in   *)
(* the shared directory.                                                   *)
VerdictSound ==
    bpc = "remove" => resp \in told /\ resp.act = cmd.act /\ resp.ts = cmd.ts

(* Each call ends: whether or not the tester ever answers, the deadline    *)
(* ends the wait (the loop at lines 445-450).                              *)
HandshakeEnds == <>(bpc \in {"done", "fatal", "exc"})

-----------------------------------------------------------------------------
(* Refinement: the marker protocol implements the message exchange of     *)
(* ElectricalHandshake.                                                   *)

(* The tester's answer to this run's request a, as told records it.       *)
Answered(a, k) ==
    \E r \in told, c \in issued :
        c.act = a /\ r.act = a /\ r.ts = c.ts /\ r.kind = k

ReplyTo(a) ==
    IF Answered(a, "success") THEN "success"
    ELSE IF Answered(a, "failure") THEN "failure"
    ELSE "none"

(* The abstract state of the run: writing the command is sending, polling *)
(* and removing the response are waiting.                                  *)
HState(p) ==
    IF p = "write" THEN "send"
    ELSE IF p \in {"poll", "remove"} THEN "wait"
    ELSE p

HS == INSTANCE ElectricalHandshake WITH
        hcall <- call,
        hstate <- HState(bpc),
        sent <- {c.act : c \in issued},
        replies <- [a \in Act |-> ReplyTo(a)]

(* The detailed protocol implements the abstract exchange.                 *)
ImplementsHandshake == HS!HSpec

=============================================================================
