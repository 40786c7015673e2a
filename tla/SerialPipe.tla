---------------------------- MODULE SerialPipe -----------------------------
(***************************************************************************)
(* What a direction of the serial port promises the two ends of it: the    *)
(* characters come out in the order they went in, none twice and none      *)
(* altered, and none is lost but when the connection goes down or comes    *)
(* up.  Characters are numbered in the order in which they are accepted.   *)
(***************************************************************************)
EXTENDS Integers, Sequences

VARIABLES
  content,   \* accepted and not yet delivered
  accepted,  \* number of characters accepted
  last,      \* last character delivered
  link       \* "down", "fresh" until the first packet received, then "up"

pipeVars == <<content, accepted, last, link>>

Init == content = <<>> /\ accepted = 0 /\ last = 0 /\ link = "down"

\* One or more characters enter.
Accept ==
  /\ accepted' > accepted
  /\ content' = content \o [i \in 1..(accepted' - accepted) |-> accepted + i]
  /\ last' = last

\* One or more leave, oldest first.
Deliver ==
  /\ \E n \in 1..Len(content) :
       /\ content' = SubSeq(content, n + 1, Len(content))
       /\ last' = content[n]
  /\ accepted' = accepted

\* A run of characters is lost, those before and after it keep their order.
Lose ==
  /\ link # "up" \/ link' = "down"
  /\ \E i, j \in 1..Len(content) :
       /\ i <= j
       /\ content' = SubSeq(content, 1, i - 1)
                     \o SubSeq(content, j + 1, Len(content))
  /\ accepted' = accepted /\ last' = last

\* The oldest leaves and the packet behind the others is lost with it.
DeliverAndLose ==
  /\ link = "fresh" /\ Len(content) > 0
  /\ last' = Head(content)
  /\ \E n \in 1..Len(content) : content' = SubSeq(content, 2, n)
  /\ accepted' = accepted

\* Accepted and lost in the same step, for want of a connection.
AcceptAndLose ==
  /\ link = "down" /\ accepted' > accepted /\ content' = <<>> /\ last' = last

LinkChange == link' # link /\ UNCHANGED <<content, accepted, last>>

Next ==
  \/ Accept \/ Deliver \/ Lose \/ DeliverAndLose \/ AcceptAndLose \/ LinkChange

Spec == Init /\ [][Next]_pipeVars
=============================================================================
