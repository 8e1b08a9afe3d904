---------------------------- MODULE MCGeneration ----------------------------
(* Model values and small instances of Generation. *)
EXTENDS Generation, SequencesExt

text(k, n) == [kind |-> k, chars |-> n]
usage == [kind |-> "usage", tokens |-> 1]
stop == [kind |-> "finish", reason |-> "stop"]
length_stop == [kind |-> "finish", reason |-> "length"]
error == [kind |-> "error"]
done == [kind |-> "done"]
raise == [kind |-> "raise"]

(* Every pair of events, and the keepalive. *)
SmallEvents == {text("content", 1), text("content", 4), text("reasoning", 3), usage, stop,
                length_stop, error, done, raise}
SmallChunks == SeqOf(SmallEvents, 2)
=============================================================================
