-------------------------------- MODULE Pipe --------------------------------
(***************************************************************************)
(* What a connection promises for each direction: what comes out is what   *)
(* went in, once each and in that order.  It may end at any point.         *)
(***************************************************************************)
EXTENDS Naturals, Sequences

CONSTANT Items       \* what may be put in

VARIABLES put, got   \* everything put in, everything taken out

Init == put = <<>> /\ got = <<>>

Put(m) == put' = Append(put, m) /\ UNCHANGED got

Get ==
    /\ Len(got) < Len(put)
    /\ got' = Append(got, put[Len(got) + 1])
    /\ UNCHANGED put

Next == Get \/ \E m \in Items : Put(m)

Spec == Init /\ [][Next]_<<put, got>>

=============================================================================
