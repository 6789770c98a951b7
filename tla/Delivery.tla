------------------------------- MODULE Delivery -------------------------------
(***************************************************************************)
(* What a pair of transports promises to its two owners: every frame that  *)
(* a peer hands out was written by the other peer, and it is handed out at *)
(* most once.  Order and completeness are not promised.                    *)
(***************************************************************************)
EXTENDS Naturals, Sequences

CONSTANT Peers

VARIABLES
  sent,     \* [writer -> frames written so far]
  taken     \* [writer -> its frames that were handed out at the other end]

vars == <<sent, taken>>

Taken(p) == {taken[p][i] : i \in 1 .. Len(taken[p])}

Init ==
  /\ sent = [p \in Peers |-> 0]
  /\ taken = [p \in Peers |-> <<>>]

Send(p) ==
  /\ sent' = [sent EXCEPT ![p] = @ + 1]
  /\ UNCHANGED taken

HandOut(p) ==
  /\ \E f \in (1 .. sent[p]) \ Taken(p) :
       taken' = [taken EXCEPT ![p] = Append(@, f)]
  /\ UNCHANGED sent

Next == \E p \in Peers : Send(p) \/ HandOut(p)

Spec == Init /\ [][Next]_vars
=============================================================================
