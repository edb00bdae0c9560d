------------------------------- MODULE Exchange -------------------------------
(***************************************************************************)
(* What the modules above the wire take an exchange with the servos to be: *)
(* a request goes out to some of them, each carries it out once or not at  *)
(* all, and the caller hears of some that did.  A caller that gave up may  *)
(* leave an answer behind; until it has come, that servo owes one, and it  *)
(* may be taken for the answer to a later request.                         *)
(***************************************************************************)
EXTENDS FiniteSets

CONSTANT Servos

VARIABLES
  asked,     \* the servos a request is out to, none between two requests
  did,       \* those of them that carried it out
  answered,  \* those the last exchange heard of
  owed       \* the servos an answer to an earlier request may still come from

vars == <<asked, did, answered, owed>>

Init == asked = {} /\ did = {} /\ answered = {} /\ owed = {}

\* A request goes out; nothing that came before it can answer it.
Ask ==
  /\ asked = {}
  /\ asked' \in (SUBSET Servos) \ {{}}
  /\ did' \in SUBSET asked'
  /\ answered' = {}
  /\ owed' \subseteq owed

\* The caller hears of servos that did as asked, or that owed an answer.
Answer ==
  /\ asked # {}
  /\ answered' \subseteq asked \cap (did \cup owed)
  /\ asked' = {} /\ did' = {}
  /\ owed' \subseteq owed \cup did

\* An answer that is overdue comes to nothing.
Expire ==
  /\ owed' \subseteq owed
  /\ UNCHANGED <<asked, did, answered>>

\* A call that asked nobody is over: a port in use, a line that failed.
Refuse ==
  /\ asked = {}
  /\ answered' = {}
  /\ owed' \subseteq owed
  /\ UNCHANGED <<asked, did>>

Next == Ask \/ Answer \/ Expire \/ Refuse

Spec == Init /\ [][Next]_vars

=============================================================================
