----------------------------- MODULE MCRecovery -----------------------------
EXTENDS Repair

Default == [buffer |-> 0, reuse |-> FALSE, crash |-> "created", torn |-> TRUE, partial |-> FALSE,
            damage |-> FALSE]

\* The file systems and options under which the promises hold.
Safe == {Default,
         [Default EXCEPT !.buffer = 1, !.crash = "always", !.torn = FALSE],
         [Default EXCEPT !.buffer = 1, !.reuse = TRUE, !.crash = "never"],
         [Default EXCEPT !.buffer = 1, !.damage = TRUE]}

TornAppend == {[Default EXCEPT !.buffer = 1, !.crash = "never", !.partial = TRUE]}

\* What the proofs ask of the setups is true of these.
ASSUME SafeIsSound == \A s \in Safe : Sound(s)
=============================================================================
