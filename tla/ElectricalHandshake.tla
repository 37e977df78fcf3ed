------------------------ MODULE ElectricalHandshake ------------------------
(***************************************************************************)
(* What the two electrical-test handshakes at the end of main() promise,   *)
(* as a message exchange with the external electrical-test process: the   *)
(* run sends a request for "upload", then for "download"; the tester       *)
(* replies to a request at most once, with success or failure, whenever   *)
(* it likes; the run goes on only on a success reply to its own request,   *)
(* and may give up waiting at any time.  A request that cannot be sent     *)
(* (no mailbox) ends the run with an exception.                           *)
(***************************************************************************)

VARIABLES
    hcall,    \* the request the run is working on
    hstate,   \* "send", "wait", "done", "fatal" or "exc"
    sent,     \* requests the run has sent
    replies   \* the tester's reply to each request, "none" before it

hvars == <<hcall, hstate, sent, replies>>

Req == {"upload", "download"}

Reply == {"success", "failure"}

HInit ==
    /\ hcall = "upload"
    /\ hstate = "send"
    /\ sent = {}
    /\ replies = [a \in Req |-> "none"]

HSend ==
    /\ hstate = "send"
    /\ \/ hstate' = "wait" /\ sent' = sent \cup {hcall}
       \/ hstate' = "exc" /\ sent' = sent
    /\ UNCHANGED <<hcall, replies>>

HReply(a, k) ==
    /\ a \in sent
    /\ replies[a] = "none"
    /\ replies' = [replies EXCEPT ![a] = k]
    /\ UNCHANGED <<hcall, hstate, sent>>

HReceive ==
    /\ hstate = "wait"
    /\ replies[hcall] # "none"
    /\ IF replies[hcall] = "failure"
         THEN hstate' = "fatal" /\ hcall' = hcall
       ELSE IF hcall = "upload"
         THEN hstate' = "send" /\ hcall' = "download"
       ELSE hstate' = "done" /\ hcall' = hcall
    /\ UNCHANGED <<sent, replies>>

HGiveUp ==
    /\ hstate = "wait"
    /\ hstate' = "fatal"
    /\ UNCHANGED <<hcall, sent, replies>>

HNext ==
    \/ HSend \/ HReceive \/ HGiveUp
    \/ \E a \in Req, k \in Reply : HReply(a, k)

HSpec == HInit /\ [][HNext]_hvars

=============================================================================
