----------------------------- MODULE MCJournal -----------------------------
(* The signal journal and the studies of the buckets before its signals,    *)
(* for TLC: a behaviour is one of the subject, and the variables of the     *)
(* other stay as they are.                                                  *)
EXTENDS Journal, MicroStudy

CONSTANTS w1, w2, Subjects

VARIABLE subject

\* What bars may touch: nothing, either target and the ambiguous bar; or only
\* nothing and the second target.
SomeBars == {[stop |-> FALSE, reach |-> n] : n \in 0..2} \cup
            {[stop |-> TRUE, reach |-> 2]}
TwoBars == {[stop |-> FALSE, reach |-> n] : n \in {0, 2}}

OneEvent == {1}

\* Either of the first buckets of a symbol may be lost, or the first of the other.
FirstBuckets == {<<"BTC", 0>>, <<"BTC", 1>>, <<"ETH", 0>>}

\* Buckets without a book and its messages: if the bucket before them is lost
\* too, the study is not ready.
WithoutBook == {<<"BTC", 1>>, <<"BTC", 2>>}

MCInit ==
    /\ subject \in Subjects
    /\ Init /\ StudyInit

MCNext ==
    /\ \/ subject = "journal" /\ Next /\ UNCHANGED studyVars
       \/ subject = "study" /\ (StudyNext \/ UNCHANGED studyVars) /\ UNCHANGED vars
    /\ UNCHANGED subject

allVars == <<vars, studyVars, subject>>

MCSpec == MCInit /\ [][MCNext]_allVars

\* The fairness of the journal, of which every behaviour is one.
MCFairness ==
    /\ WF_vars(subject = "journal" /\ Tick)
    /\ \A w \in Workers :
          /\ WF_vars(subject = "journal" /\ Step(w))
          /\ SF_vars(subject = "journal" /\ Fetch(w))
          /\ SF_vars(subject = "journal" /\ win[w].to > 0 /\ NoSignal(w))
          /\ SF_vars(subject = "journal" /\ win[w].to > 0 /\ SelectOpen(w))
          /\ SF_vars(subject = "journal" /\ win[w].to > 0 /\ Save(w))

MCFairSpec == MCSpec /\ MCFairness

=============================================================================
