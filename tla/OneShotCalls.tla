---------------------------- MODULE OneShotCalls ----------------------------
(***************************************************************************)
(* What an endpoint of this library promises about one remote call,        *)
(* whatever carries the messages: the method body runs at most once, and   *)
(* only if somebody called it; the caller's Callback object completes at   *)
(* most once, and only with an outcome the method body handed to its own   *)
(* Callback for that very call.  Nothing says that a call is ever answered.*)
(***************************************************************************)
EXTENDS Naturals

CONSTANT Calls          \* the remote calls that may be made

VARIABLES
  made,                 \* the calls somebody has made
  runs,                 \* how often the method body of a call has run
  answers,              \* the outcomes the body handed to its Callback
  result,               \* the outcome the caller's Callback completed with
  completions           \* how often the caller's Callback has completed

vars == <<made, runs, answers, result, completions>>

Outcomes == [for : Calls, success : BOOLEAN]

Init ==
  /\ made = {}
  /\ runs = [c \in Calls |-> 0]
  /\ answers = [c \in Calls |-> {}]
  /\ result = [c \in Calls |-> {}]
  /\ completions = [c \in Calls |-> 0]

Make(c) ==
  /\ made' = made \cup {c}
  /\ UNCHANGED <<runs, answers, result, completions>>

Run(c) ==
  /\ c \in made
  /\ runs[c] = 0
  /\ runs' = [runs EXCEPT ![c] = 1]
  /\ UNCHANGED <<made, answers, result, completions>>

Answer(c, ok) ==
  /\ runs[c] = 1
  /\ answers' = [answers EXCEPT ![c] = @ \cup {ok}]
  /\ UNCHANGED <<made, runs, result, completions>>

Finish(c, ok) ==
  /\ completions[c] = 0
  /\ ok \in answers[c]
  /\ result' = [result EXCEPT ![c] = {[for |-> c, success |-> ok]}]
  /\ completions' = [completions EXCEPT ![c] = 1]
  /\ UNCHANGED <<made, runs, answers>>

Next ==
  \E c \in Calls :
    \/ Make(c)
    \/ Run(c)
    \/ \E ok \in BOOLEAN : Answer(c, ok) \/ Finish(c, ok)

Spec == Init /\ [][Next]_vars
=============================================================================
