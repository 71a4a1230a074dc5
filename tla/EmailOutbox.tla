---------------------------- MODULE EmailOutbox ----------------------------
(***************************************************************************)
(* What the notification e-mail queue promises about one message, with the *)
(* queue's rows, its workers and its SMTP servers left out.                *)
(*                                                                         *)
(* A message is queued once.  While it waits it may be handed to a relay,  *)
(* given up (every attempt it was entitled to was refused), withdrawn by   *)
(* an administrator, or lost (the process or the database died while a     *)
(* worker had it).  A message handed to a relay is never handed over a     *)
(* second time and never reported as given up, and one that was withdrawn, *)
(* given up or lost never goes out later.                                  *)
(***************************************************************************)

CONSTANT Email

VARIABLE fate

Fate == {"none", "waiting", "delivered", "abandoned", "withdrawn", "lost"}

\* The transitions one message may make.  An administrator may strike off a
\* message the queue has already given up or lost.
Allowed ==
    {<<"none", "waiting">>}
        \cup {<<"waiting", f>> : f \in {"delivered", "abandoned", "withdrawn", "lost"}}
        \cup {<<"abandoned", "withdrawn">>, <<"lost", "withdrawn">>}

TypeOK == fate \in [Email -> Fate]

Init == fate = [e \in Email |-> "none"]

\* One step of the service may settle several messages: a crash loses every
\* message that was being sent.
Next ==
    /\ fate' \in [Email -> Fate]
    /\ \A e \in Email : fate'[e] # fate[e] => <<fate[e], fate'[e]>> \in Allowed

Spec == Init /\ [][Next]_fate

=============================================================================
