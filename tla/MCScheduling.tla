---------------------------- MODULE MCScheduling ----------------------------
(***************************************************************************)
(* Scheduling for TLC, with a history variable.                            *)
(***************************************************************************)
EXTENDS Scheduling

\* quiet[c]: since scheduler c's round began, no node crashed or came back,
\* no call timed out, no late request was handled and nobody was elected.
VARIABLE quiet

MCInit == Init /\ quiet = [c \in Schedulers |-> TRUE]

MCNext ==
  /\ Next
  /\ quiet' = [c \in Schedulers |->
       \/ sched[c] # NewRound /\ sched'[c] = NewRound
       \/ /\ quiet[c]
          /\ UNCHANGED <<up, late, leader, faults>>]

MCSpec == MCInit /\ [][MCNext]_<<vars, quiet>> /\ Fairness

\* Whatever happened before, the tables a scheduler sets at the end of a
\* quiet round route every range to as many nodes as it should: the first
\* term makes it so, and only the second term's listing shows it.
PublishedComplete ==
  \A c \in Schedulers :
    sched[c].pc = "publish" /\ quiet[c] =>
      \A t \in Tasks :
        Cardinality(Copies(sched[c].actual, t)) = Instances(up)
=============================================================================
