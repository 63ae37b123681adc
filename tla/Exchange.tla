------------------------------ MODULE Exchange ------------------------------
(***************************************************************************)
(* What the forwarder promises of the requests it is given, without the    *)
(* table, the sockets, the readers and the locks that it keeps it with.    *)
(*                                                                         *)
(* A request is asked once, under a channel and identifier.  From then on  *)
(* it is open: an answer to a request that was sent under the same channel *)
(* and identifier may be recorded on it, once, and closes it; or it times  *)
(* out, and is closed for good; or it is closed without any outcome.  A    *)
(* request fails only if it was not sent, and one that failed never is.    *)
(***************************************************************************)
CONSTANTS Conv,  \* the requests
          Key,   \* channel and identifier
          None

VARIABLES key,      \* Conv -> what it was asked under, or None
          outcome,  \* Conv -> its Outcome
          answer,   \* Conv -> the request whose answer it was given, or None
          open,     \* the requests that may still be given an answer
          sent      \* the requests that are on the network

Outcome == {"none", "pending", "complete", "timeout", "error"}

vars == <<key, outcome, answer, open, sent>>

Init ==
    /\ key = [c \in Conv |-> None]
    /\ outcome = [c \in Conv |-> "none"]
    /\ answer = [c \in Conv |-> None]
    /\ open = {}
    /\ sent = {}

(* A step closes requests and opens none; of those that it closes, some    *)
(* that were pending time out.                                             *)
Close == open' \subseteq open
TimesOut(c) ==
    /\ c \in open \ open'
    /\ outcome[c] = "pending" /\ outcome'[c] = "timeout"

(* A new request may close others, which it displaces (they time out) or   *)
(* for which there is no more room (they end without an outcome).          *)
Ask(c) ==
    /\ outcome[c] = "none" /\ outcome'[c] = "pending"
    /\ key[c] = None /\ \E k \in Key : key' = [key EXCEPT ![c] = k]
    /\ outcome' \in [Conv -> Outcome]
    /\ \A d \in Conv \ {c} : outcome'[d] = outcome[d] \/ TimesOut(d)
    /\ open' \subseteq open \cup {c}
    /\ UNCHANGED <<answer, sent>>

Send(c) ==
    /\ outcome[c] \notin {"none", "error"} /\ c \notin sent
    /\ sent' = sent \cup {c}
    /\ UNCHANGED <<key, outcome, answer, open>>

Fail(c) ==
    /\ outcome[c] # "none" /\ c \notin sent
    /\ outcome' = [outcome EXCEPT ![c] = "error"]
    /\ Close
    /\ UNCHANGED <<key, answer, sent>>

(* c is given the answer to a request that was sent under the same key. *)
Answer(c) ==
    /\ c \in open /\ outcome[c] \in {"pending", "error"} /\ answer[c] = None
    /\ outcome' = [outcome EXCEPT ![c] = "complete"]
    /\ \E d \in sent :
         /\ key[d] = key[c]
         /\ answer' = [answer EXCEPT ![c] = d]
    /\ open' = open \ {c}
    /\ UNCHANGED <<key, sent>>

(* Time passes, or the list is cleared. *)
End ==
    /\ Close
    /\ outcome' \in [Conv -> Outcome]
    /\ \A c \in Conv : outcome'[c] = outcome[c] \/ TimesOut(c)
    /\ UNCHANGED <<key, answer, sent>>

Next == End \/ \E c \in Conv : Ask(c) \/ Send(c) \/ Fail(c) \/ Answer(c)

Spec == Init /\ [][Next]_vars
=============================================================================
