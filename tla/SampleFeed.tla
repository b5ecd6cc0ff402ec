----------------------------- MODULE SampleFeed ------------------------------
(***************************************************************************)
(* What a client of the monitor may rely on, whatever the threads do:       *)
(* samples are published one after another, and each answer is a published  *)
(* sample newer than every earlier answer.  Samples may be skipped.         *)
(***************************************************************************)
EXTENDS Naturals, Sequences

VARIABLES published,   \* number of samples published
          sent         \* the samples sent, in order

Newest == IF sent = <<>> THEN 0 ELSE sent[Len(sent)]

Init == published = 0 /\ sent = <<>>

Publish ==
    /\ published' = published + 1
    /\ UNCHANGED sent

Deliver ==
    /\ \E n \in Newest + 1 .. published : sent' = Append(sent, n)
    /\ UNCHANGED published

Next == Publish \/ Deliver

Spec == Init /\ [][Next]_<<published, sent>>
=============================================================================
