------------------------------ MODULE MessageFifo ------------------------------
(***************************************************************************)
(* What supl::Session promises about the messages of the server: while the *)
(* session lasts they are handled in the order in which they were sent,    *)
(* each once, and what has been sent is handled.                           *)
(***************************************************************************)
EXTENDS Sequences, SequencesExt

VARIABLES
    sent,     \* messages the server has sent
    handled,  \* messages the session has handled
    open      \* the session takes part

vars == <<sent, handled, open>>

Init == sent = <<>> /\ handled = <<>> /\ open = TRUE

Send ==
    /\ IsStrictPrefix(sent, sent')
    /\ UNCHANGED <<handled, open>>

Handle ==
    /\ open
    /\ IsStrictPrefix(handled, handled')
    /\ IsPrefix(handled', sent)
    /\ open' \in BOOLEAN
    /\ UNCHANGED sent

Close ==
    /\ open
    /\ open' = FALSE
    /\ UNCHANGED <<sent, handled>>

Next == Send \/ Handle \/ Close

Spec == Init /\ [][Next]_vars

\* Nothing that has been sent waits for ever.
Served == <>(~open) \/ []<>(handled = sent)

==============================================================================
