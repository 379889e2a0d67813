----------------------------- MODULE AsyncCall ------------------------------
(***************************************************************************)
(* What an asynchronous command promises its caller, without connections,  *)
(* buffers and threads: the command is executed at most once, and its      *)
(* callback runs at most once.  A positive answer comes after the          *)
(* execution; a refusal or a NULL reply says nothing about it, and the     *)
(* command may still be executed afterwards.                               *)
(***************************************************************************)
EXTENDS Sequences

CONSTANT Call  \* the commands that may be issued

VARIABLES
  issued,    \* the commands their callers have issued
  executed,  \* the commands the server has executed
  answers    \* answers[c], what the callback of c was called with, in order

callVars == <<issued, executed, answers>>

CallInit ==
  /\ issued = {}
  /\ executed = {}
  /\ answers = [c \in Call |-> <<>>]

Issue(c) ==
  /\ c \notin issued
  /\ issued' = issued \cup {c}
  /\ UNCHANGED <<executed, answers>>

Run(c) ==
  /\ c \in issued \ executed
  /\ executed' = executed \cup {c}
  /\ UNCHANGED <<issued, answers>>

Respond(c, a) ==
  /\ c \in issued /\ answers[c] = <<>>
  /\ a = "published" => c \in executed
  /\ answers' = [answers EXCEPT ![c] = <<a>>]
  /\ UNCHANGED <<issued, executed>>

CallNext == \E c \in Call : \/ Issue(c) \/ Run(c)
                            \/ \E a \in {"published", "error", "null"} : Respond(c, a)

CallSpec == CallInit /\ [][CallNext]_callVars

=============================================================================
