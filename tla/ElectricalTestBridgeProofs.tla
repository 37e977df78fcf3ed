--------------------- MODULE ElectricalTestBridgeProofs ---------------------
(***************************************************************************)
(* Proofs about the electrical-test handshakes: the run only ever judges  *)
(* the tester's answer to its own command, and the marker protocol         *)
(* implements the message exchange of ElectricalHandshake, for every       *)
(* deadline, every start time and every set of stale markers.              *)
(***************************************************************************)
EXTENDS ElectricalTestBridge, TLAPS

(* A token of this run: its stamp is at least RunStart.                    *)
Fresh(x) == x.ts >= RunStart

TokenOf(m) == [act |-> m.act, ts |-> m.ts]

(***************************************************************************)
(* The inductive invariant.  VerdictSound alone is not inductive: a        *)
(* response marker in the directory with this run's stamp must be known to *)
(* come from the tester (it could otherwise be picked up by PollFound),    *)
(* and that needs every fresh marker, command or response, to be tied to   *)
(* a command this run issued.  For the refinement the invariant also says  *)
(* that the tester answered each token at most once and that the run       *)
(* issued at most one token per action, so that the abstract `replies`    *)
(* is a function of the history.                                           *)
(***************************************************************************)
IssuedFresh == \A c \in issued : Fresh(c) /\ c.ts <= clock

IssuedUnique == \A c1, c2 \in issued : c1.act = c2.act => c1 = c2

ToldKind == \A r \in told : r.kind \in {"success", "failure"}

ToldIssued == \A r \in told : Fresh(r) => TokenOf(r) \in issued

ToldUnique == \A r1, r2 \in told : r1.act = r2.act /\ r1.ts = r2.ts => r1 = r2

DirFresh ==
    \A m \in dir : Fresh(m) =>
        IF m.kind = "cmd" THEN TokenOf(m) \in issued ELSE m \in told

IssuedOrder == \A c \in issued : c.act = "download" => call = "download"

WriteClean == bpc = "write" => \A c \in issued : c.act # call

PollCmd == bpc \in {"poll", "remove"} => cmd \in issued /\ cmd.act = call

RemoveResp == bpc = "remove" => resp \in told /\ TokenOf(resp) = cmd

IInv ==
    /\ TypeOK
    /\ clock >= RunStart
    /\ IssuedFresh /\ IssuedUnique /\ IssuedOrder
    /\ ToldKind /\ ToldIssued /\ ToldUnique
    /\ DirFresh /\ WriteClean /\ PollCmd /\ RemoveResp

LEMMA InitIInv == Init => IInv
<1> SUFFICES ASSUME Init PROVE IInv
  OBVIOUS
<1>1. TypeOK
  BY BridgeAssumption DEF Init, TypeOK, Marker, Token, NoMarker, Act, Kind
<1>2. DirFresh
  <2>1. \A m \in dir : m.ts \in OldStamps
    BY DEF Init
  <2>2. \A m \in dir : ~Fresh(m)
    <3>1. SUFFICES ASSUME NEW m \in dir PROVE m.ts \in Nat /\ m.ts < RunStart
      BY BridgeAssumption DEF Fresh
    <3>2. m.ts \in OldStamps
      BY <2>1
    <3>3. QED
      BY <3>2, BridgeAssumption
  <2>3. QED
    BY <2>2 DEF DirFresh
<1>3. QED
  BY <1>1, <1>2, BridgeAssumption
  DEF Init, IInv, IssuedFresh, IssuedUnique, IssuedOrder, ToldKind, ToldIssued, ToldUnique,
      WriteClean, PollCmd, RemoveResp

LEMMA NextIInv == IInv /\ [Next]_vars => IInv'
<1> SUFFICES ASSUME IInv, [Next]_vars PROVE IInv'
  OBVIOUS
<1> USE DEF IInv
<1>1. CASE WriteCommand
  <2>1. CASE ~monitor /\ bpc' = "exc"
        /\ UNCHANGED <<call, cmd, start, resp, clock, monitor, dir, told, issued>>
    BY <2>1 DEF TypeOK, IssuedFresh, IssuedUnique, IssuedOrder, ToldKind,
                ToldIssued, ToldUnique, DirFresh, WriteClean, PollCmd, RemoveResp
  <2>2. CASE /\ monitor
             /\ cmd' = [act |-> call, ts |-> clock]
             /\ dir' = dir \cup {[act |-> call, ts |-> clock, kind |-> "cmd"]}
             /\ issued' = issued \cup {[act |-> call, ts |-> clock]}
             /\ start' = clock
             /\ resp' = NoMarker
             /\ bpc' = "poll"
             /\ UNCHANGED <<call, clock, monitor, told>>
    <3>1. bpc = "write"
      BY <1>1 DEF WriteCommand
    <3>2. TypeOK'
      BY <2>2 DEF TypeOK, Token, Marker, NoMarker, Kind, Act
    <3>3. IssuedFresh' /\ IssuedUnique' /\ IssuedOrder'
      BY <2>2, <3>1 DEF IssuedFresh, IssuedUnique, IssuedOrder, WriteClean,
                        Fresh, TypeOK
    <3>4. ToldKind' /\ ToldIssued' /\ ToldUnique'
      BY <2>2 DEF ToldKind, ToldIssued, ToldUnique, TokenOf
    <3>5. DirFresh'
      BY <2>2 DEF DirFresh, TokenOf
    <3>6. WriteClean' /\ PollCmd' /\ RemoveResp'
      BY <2>2 DEF WriteClean, PollCmd, RemoveResp
    <3>7. QED
      BY <2>2, <3>2, <3>3, <3>4, <3>5, <3>6
  <2>3. QED
    BY <1>1, <2>1, <2>2 DEF WriteCommand
<1>2. CASE PollFound
  <2>1. PICK m \in dir : Responds(m, cmd) /\ resp' = m
    BY <1>2 DEF PollFound
  <2>2. bpc = "poll" /\ bpc' = "remove"
        /\ UNCHANGED <<call, cmd, start, clock, monitor, dir, told, issued>>
    BY <1>2 DEF PollFound
  <2>3. m \in told /\ TokenOf(m) = cmd
    <3>1. cmd \in issued /\ cmd \in Token
      BY <2>2 DEF PollCmd, TypeOK
    <3>2. Fresh(m) /\ m.kind # "cmd"
      BY <2>1, <3>1 DEF Responds, IssuedFresh, Fresh
    <3>3. m \in Marker
      BY DEF TypeOK
    <3>4. QED
      BY <2>1, <3>1, <3>2, <3>3 DEF DirFresh, Responds, TokenOf, Token, Marker
  <2>4. QED
    BY <2>1, <2>2, <2>3 DEF TypeOK, IssuedFresh, IssuedUnique, IssuedOrder, ToldKind,
       ToldIssued, ToldUnique, DirFresh, WriteClean, PollCmd, RemoveResp
<1>3. CASE PollEmpty
  BY <1>3 DEF PollEmpty, vars, TypeOK, IssuedFresh, IssuedUnique, IssuedOrder, ToldKind,
     ToldIssued, ToldUnique, DirFresh, WriteClean, PollCmd, RemoveResp
<1>4. CASE TimedOut
  BY <1>4 DEF TimedOut, TypeOK, IssuedFresh, IssuedUnique, IssuedOrder, ToldKind,
     ToldIssued, ToldUnique, DirFresh, WriteClean, PollCmd, RemoveResp
<1>5. CASE Finish
  <2>1. bpc = "remove" /\ dir' = dir \ {resp}
        /\ UNCHANGED <<cmd, start, resp, clock, monitor, told, issued>>
    BY <1>5 DEF Finish
  <2>2. \/ bpc' = "fatal" /\ call' = call
        \/ bpc' = "write" /\ call = "upload" /\ call' = "download"
        \/ bpc' = "done" /\ call' = call
    BY <1>5 DEF Finish
  <2>3. TypeOK'
    BY <2>1, <2>2 DEF TypeOK, Act
  <2>4. WriteClean'
    <3>1. cmd \in issued /\ cmd.act = call
      BY <2>1 DEF PollCmd
    <3>2. QED
      BY <2>1, <2>2, <3>1 DEF WriteClean, IssuedOrder
  <2>5. IssuedOrder'
    BY <2>1, <2>2 DEF IssuedOrder
  <2>6. QED
    BY <2>1, <2>2, <2>3, <2>4, <2>5 DEF IssuedFresh, IssuedUnique, ToldKind,
       ToldIssued, ToldUnique, DirFresh, PollCmd, RemoveResp
<1>6. CASE Tick
  <2>1. clock' = clock + 1
        /\ UNCHANGED <<bpc, call, cmd, start, resp, monitor, dir, told, issued>>
    BY <1>6 DEF Tick
  <2>2. IssuedFresh'
    BY <2>1 DEF IssuedFresh, TypeOK, Token
  <2>3. TypeOK'
    BY <2>1 DEF TypeOK
  <2>5. clock' >= RunStart
    BY <2>1, BridgeAssumption DEF TypeOK
  <2>4. QED
    BY <2>1, <2>2, <2>3, <2>5 DEF IssuedUnique, IssuedOrder, ToldKind,
       ToldIssued, ToldUnique, DirFresh, WriteClean, PollCmd, RemoveResp
<1>7. CASE TesterAnswer
  <2>1. PICK m \in dir, k \in {"success", "failure"} :
          /\ m.kind = "cmd"
          /\ ~\E r \in dir \cup told :
                r.act = m.act /\ r.ts = m.ts /\ r.kind # "cmd"
          /\ dir' = dir \cup {[m EXCEPT !.kind = k]}
          /\ told' = told \cup {[m EXCEPT !.kind = k]}
          /\ UNCHANGED <<bpc, call, cmd, start, resp, clock, monitor, issued>>
    BY <1>7 DEF TesterAnswer
  <2>2. m \in Marker
    BY DEF TypeOK
  <2> DEFINE a == [m EXCEPT !.kind = k]
  <2>3. a \in Marker /\ a.act = m.act /\ a.ts = m.ts /\ a.kind = k
    BY <2>2 DEF Marker, Kind
  <2>4. TypeOK'
    BY <2>1, <2>3 DEF TypeOK
  <2>5. ToldKind'
    BY <2>1, <2>3 DEF ToldKind
  <2>8. ToldUnique'
    <3>1. \A r \in told : ~(r.act = a.act /\ r.ts = a.ts)
      BY <2>1, <2>3 DEF ToldKind
    <3>2. QED
      BY <2>1, <3>1 DEF ToldUnique
  <2>6. ToldIssued' /\ DirFresh'
    BY <2>1, <2>3 DEF ToldIssued, DirFresh, Fresh, TokenOf
  <2>7. QED
    BY <2>1, <2>4, <2>5, <2>6, <2>8 DEF IssuedFresh, IssuedUnique,
       IssuedOrder, WriteClean,
       PollCmd, RemoveResp
<1>8. CASE Terminated
  BY <1>8 DEF Terminated, vars, TypeOK, IssuedFresh, IssuedUnique, IssuedOrder, ToldKind,
     ToldIssued, ToldUnique, DirFresh, WriteClean, PollCmd, RemoveResp
<1>9. CASE UNCHANGED vars
  BY <1>9 DEF vars, TypeOK, IssuedFresh, IssuedUnique, IssuedOrder, ToldKind,
     ToldIssued, ToldUnique, DirFresh, WriteClean, PollCmd, RemoveResp
<1>10. QED
  BY <1>1, <1>2, <1>3, <1>4, <1>5, <1>6, <1>7, <1>8, <1>9 DEF Next, Run

(* Every reachable state satisfies the inductive invariant.                *)
THEOREM InvariantHolds == Spec => []IInv
BY InitIInv, NextIInv, PTL DEF Spec

(* Every reachable state of the handshakes is well typed.                  *)
THEOREM TypeCorrect == Spec => []TypeOK
BY InvariantHolds, PTL DEF IInv

(* handle_electrical_test_report() judges only a response the tester wrote *)
(* for the command of this call, whatever stale markers the directory held *)
(* and whatever the deadlines.                                             *)
THEOREM VerdictSoundness == Spec => []VerdictSound
<1>1. IInv => VerdictSound
  BY DEF IInv, RemoveResp, VerdictSound, TokenOf
<1>2. QED
  BY InvariantHolds, <1>1, PTL

(***************************************************************************)
(* Refinement.  The mapping sends the run's pc to the abstract state,     *)
(* the commands it issued to the requests sent, and the tester's answers  *)
(* to this run's tokens to the abstract replies.  Stale markers and the   *)
(* tester's answers to them map to nothing.                               *)
(***************************************************************************)

(* The run holds the tester's answer to its own command: the response it  *)
(* is about to judge is the mapped reply to the current request.          *)
LEMMA ReplyOfResp ==
    ASSUME IInv, bpc = "remove"
    PROVE  ReplyTo(call) = resp.kind
<1>1. resp \in told /\ TokenOf(resp) = cmd /\ cmd \in issued /\ cmd.act = call
  BY DEF IInv, RemoveResp, PollCmd
<1>2. resp.kind \in {"success", "failure"}
  BY <1>1 DEF IInv, ToldKind
<1>3. ASSUME NEW r \in told, NEW c \in issued, c.act = call, r.act = call,
             r.ts = c.ts
      PROVE  r = resp
  <2>1. c = cmd
    BY <1>1, <1>3 DEF IInv, IssuedUnique
  <2>2. QED
    BY <1>1, <1>3, <2>1 DEF IInv, ToldUnique, TokenOf
<1>4. Answered(call, resp.kind)
  BY <1>1 DEF Answered, TokenOf
<1>5. \A k \in {"success", "failure"} : k # resp.kind => ~Answered(call, k)
  BY <1>3 DEF Answered
<1>6. QED
  BY <1>2, <1>4, <1>5 DEF ReplyTo

(* A command about to be written has no answer yet.                       *)
LEMMA NoReplyBeforeWrite ==
    ASSUME IInv, bpc = "write", NEW k
    PROVE  ~\E r \in told : r.act = call /\ r.ts = clock
<1> SUFFICES ASSUME NEW r \in told, r.act = call, r.ts = clock PROVE FALSE
  OBVIOUS
<1>1. TokenOf(r) \in issued
  BY BridgeAssumption DEF IInv, ToldIssued, Fresh
<1> QED
  BY <1>1 DEF IInv, WriteClean, TokenOf

(* Each step of the run or of the tester is a step of ElectricalHandshake *)
(* under the mapping, or leaves the image unchanged.                       *)
LEMMA StepRefines ==
    ASSUME IInv, IInv', [Next]_vars
    PROVE  [HS!HNext]_HS!hvars
<1> USE DEF IInv
<1>1. CASE WriteCommand
  <2>1. bpc = "write"
    BY <1>1 DEF WriteCommand
  <2>2. CASE ~monitor /\ bpc' = "exc"
        /\ UNCHANGED <<call, cmd, start, resp, clock, monitor, dir, told, issued>>
    <3>1. HS!HSend
      BY <2>1, <2>2 DEF HS!HSend, HState, ReplyTo, Answered
    <3>2. QED
      BY <3>1 DEF HS!HNext
  <2>3. CASE /\ monitor
             /\ cmd' = [act |-> call, ts |-> clock]
             /\ dir' = dir \cup {[act |-> call, ts |-> clock, kind |-> "cmd"]}
             /\ issued' = issued \cup {[act |-> call, ts |-> clock]}
             /\ start' = clock
             /\ resp' = NoMarker
             /\ bpc' = "poll"
             /\ UNCHANGED <<call, clock, monitor, told>>
    <3>1. {c.act : c \in issued'} = {c.act : c \in issued} \cup {call}
      BY <2>3
    <3>2. \A a \in Act, k \in {"success", "failure"} :
            Answered(a, k)' = Answered(a, k)
      BY <2>1, <2>3, NoReplyBeforeWrite DEF Answered
    <3>3. [a \in Act |-> ReplyTo(a)]' = [a \in Act |-> ReplyTo(a)]
      BY <3>2 DEF ReplyTo
    <3>4. HS!HSend
      BY <2>1, <2>3, <3>1, <3>3 DEF HS!HSend, HState
    <3>5. QED
      BY <3>4 DEF HS!HNext
  <2>4. QED
    BY <1>1, <2>2, <2>3 DEF WriteCommand
<1>2. CASE PollFound
  BY <1>2 DEF PollFound, HS!hvars, HState, ReplyTo, Answered
<1>3. CASE PollEmpty
  BY <1>3 DEF PollEmpty, vars, HS!hvars, HState, ReplyTo, Answered
<1>4. CASE TimedOut
  <2>1. HS!HGiveUp
    BY <1>4 DEF TimedOut, HS!HGiveUp, HState, ReplyTo, Answered
  <2>2. QED
    BY <2>1 DEF HS!HNext
<1>5. CASE Finish
  <2>1. bpc = "remove"
    BY <1>5 DEF Finish
  <2>2. ReplyTo(call) = resp.kind
    BY <2>1, ReplyOfResp
  <2>3. resp.kind \in {"success", "failure"} /\ call \in Act
    BY <2>1 DEF RemoveResp, ToldKind, TypeOK
  <2>4. HS!HReceive
    BY <1>5, <2>1, <2>2, <2>3 DEF Finish, HS!HReceive, HState, ReplyTo, Answered, Act
  <2>5. QED
    BY <2>4 DEF HS!HNext
<1>6. CASE Tick
  BY <1>6 DEF Tick, HS!hvars, HState, ReplyTo, Answered
<1>7. CASE TesterAnswer
  <2>1. PICK m \in dir, k \in {"success", "failure"} :
          /\ m.kind = "cmd"
          /\ ~\E r \in dir \cup told :
                r.act = m.act /\ r.ts = m.ts /\ r.kind # "cmd"
          /\ dir' = dir \cup {[m EXCEPT !.kind = k]}
          /\ told' = told \cup {[m EXCEPT !.kind = k]}
          /\ UNCHANGED <<bpc, call, cmd, start, resp, clock, monitor, issued>>
    BY <1>7 DEF TesterAnswer
  <2> DEFINE a == [m EXCEPT !.kind = k]
  <2>2. m \in Marker /\ a.act = m.act /\ a.ts = m.ts /\ a.kind = k
    BY DEF TypeOK, Marker
  <2>3. CASE Fresh(m)
    <3>1. TokenOf(m) \in issued
      BY <2>1, <2>3 DEF DirFresh
    <3>2. ASSUME NEW c \in issued, c.act = m.act PROVE c = TokenOf(m)
      BY <3>1, <3>2 DEF IssuedUnique, TokenOf
    <3>3. \A j \in {"success", "failure"} : ~Answered(m.act, j)
      BY <2>1, <3>2 DEF Answered, TokenOf, ToldKind
    <3>4. Answered(m.act, k)' /\ \A j \in {"success", "failure"} :
            j # k => ~Answered(m.act, j)'
      BY <2>1, <2>2, <3>1, <3>2, <3>3 DEF Answered, TokenOf
    <3>5. \A b \in Act : b # m.act =>
            \A j \in {"success", "failure"} : Answered(b, j)' = Answered(b, j)
      BY <2>1, <2>2 DEF Answered
    <3>6. m.act \in Act
      BY <2>2 DEF Marker
    <3>7. [b \in Act |-> ReplyTo(b)]' =
            [[b \in Act |-> ReplyTo(b)] EXCEPT ![m.act] = k]
      BY <2>1, <3>3, <3>4, <3>5, <3>6 DEF ReplyTo
    <3>8. HS!HReply(m.act, k)
      BY <2>1, <3>1, <3>3, <3>6, <3>7 DEF HS!HReply, ReplyTo, TokenOf
    <3>9. QED
      BY <2>1, <3>6, <3>8 DEF HS!HNext, HS!Req, HS!Reply, Act
  <2>4. CASE ~Fresh(m)
    <3>1. \A b \in Act, j \in {"success", "failure"} :
            Answered(b, j)' = Answered(b, j)
      BY <2>1, <2>2, <2>4 DEF Answered, IssuedFresh, Fresh, TypeOK, Token,
                              Marker
    <3>2. QED
      BY <2>1, <3>1 DEF HS!hvars, HState, ReplyTo
  <2>5. QED
    BY <2>3, <2>4
<1>8. CASE Terminated
  BY <1>8 DEF Terminated, vars, HS!hvars, HState, ReplyTo, Answered
<1>9. CASE UNCHANGED vars
  BY <1>9 DEF vars, HS!hvars, HState, ReplyTo, Answered
<1>10. QED
  BY <1>1, <1>2, <1>3, <1>4, <1>5, <1>6, <1>7, <1>8, <1>9 DEF Next, Run

(* The marker protocol implements the message exchange: every step of the *)
(* run or the tester is a step of ElectricalHandshake or leaves its image *)
(* unchanged.                                                             *)
THEOREM Refinement == Spec => ImplementsHandshake
<1>1. Init => HS!HInit
  BY DEF Init, HS!HInit, HState, HS!Req, Act, ReplyTo, Answered
<1>2. QED
  BY <1>1, StepRefines, InvariantHolds, PTL DEF Spec, ImplementsHandshake, HS!HSpec

=============================================================================
