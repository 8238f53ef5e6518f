--------------------------- MODULE MailboxService ---------------------------
(***************************************************************************)
(* What the mailbox between a virtual function and its parent promises to  *)
(* the functions that use it.  A request is handled by the other side at   *)
(* most once.  One that ends well was given an answer the other side sent, *)
(* no answer is given twice, and as long as nothing was given up and no    *)
(* request failed it is the answer to this very request.  Only a request   *)
(* whose sender was in a hurry may end well without an answer.             *)
(***************************************************************************)
EXTENDS Naturals

CONSTANTS Req, None

VARIABLES
  stage,     \* stage[r]: "new", "asked", "ok", "failed"
  handled,   \* handled[r]: how often the other side handled request r
  given_up,  \* some message was given up
  hurried,   \* the requests whose sender did not let the mailbox finish
  answer     \* answer[r]: the request whose answer r was given, or None

svars == <<stage, handled, given_up, hurried, answer>>

Init ==
  /\ stage = [r \in Req |-> "new"]
  /\ handled = [r \in Req |-> 0]
  /\ given_up = FALSE
  /\ hurried = {}
  /\ answer = [r \in Req |-> None]

Undisturbed == ~given_up /\ \A r \in Req : stage[r] # "failed"

Move(r, from, to) == stage[r] = from /\ stage' = [stage EXCEPT ![r] = to]

Ask(r) ==
  /\ Move(r, "new", "asked")
  /\ UNCHANGED <<handled, given_up, hurried, answer>>

\* The other side may handle a request after its sender left.
Handle(r) ==
  /\ stage[r] # "new" /\ handled[r] = 0
  /\ handled' = [handled EXCEPT ![r] = 1]
  /\ UNCHANGED <<stage, given_up, hurried, answer>>

End(r) ==
  /\ Move(r, "asked", "ok")
  /\ \E q \in Req :
       /\ handled[q] = 1 /\ \A s \in Req : answer[s] # q
       /\ Undisturbed => q = r
       /\ answer' = [answer EXCEPT ![r] = q]
  /\ UNCHANGED <<handled, given_up, hurried>>

\* Ended well before the answer was there.
EndEarly(r) ==
  /\ Move(r, "asked", "ok")
  /\ Undisturbed => handled[r] = 1
  /\ hurried' = hurried \cup {r}
  /\ UNCHANGED <<handled, given_up, answer>>

Fail(r) ==
  /\ Move(r, "asked", "failed")
  /\ hurried' \in {hurried, hurried \cup {r}}
  /\ UNCHANGED <<handled, given_up, answer>>

GiveUp == given_up' = TRUE /\ UNCHANGED <<stage, handled, hurried, answer>>

Next ==
  \/ \E r \in Req : Ask(r) \/ Handle(r) \/ End(r) \/ EndEarly(r) \/ Fail(r)
  \/ GiveUp

Spec == Init /\ [][Next]_svars
=============================================================================
