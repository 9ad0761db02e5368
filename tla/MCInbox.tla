------------------------------- MODULE MCInbox -------------------------------
(* Model-checking instances of Inbox. *)
EXTENDS Inbox, TLC

CONSTANT src

Of == [r \in Rows |-> src]

\* A quiet notice and an urgent condition.
TwoContents == {[text |-> "update", urgency |-> 2, notice |-> TRUE],
                [text |-> "failed", urgency |-> 0, notice |-> FALSE]}
==============================================================================
