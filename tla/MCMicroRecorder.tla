-------------------------- MODULE MCMicroRecorder --------------------------
(* Instances of MicroRecorder for TLC. *)
EXTENDS MicroRecorder

CONSTANTS old, new

Message(b, i) == [bucket |-> b, n |-> i]

\* Two messages of one bucket, so that the second may be late, and one of the
\* next bucket, which may arrive while the first bucket is written: the larger
\* instance of the README.
ThreeMessages == {Message(0, 1), Message(0, 2), Message(1, 1)}
TwoMessages == {Message(0, 1), Message(0, 2)}
OneMessage == {Message(0, 1)}

=============================================================================
