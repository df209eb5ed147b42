------------------------------- MODULE MCTiler -------------------------------
(* Instances of the tiler for TLC. *)
EXTENDS Tiler

MCTouching == {1, 2}

One(k) == [kind |-> k, groups |-> <<{1}>>]
Both(k) == [kind |-> k, groups |-> <<{1, 2}>>]
Wide == [kind |-> "crop", groups |-> <<{1}, {2}>>]
Far == [kind |-> "crop", groups |-> <<{3}, {3}>>]
TooWide == [kind |-> "crop", groups |-> <<{1}, {3}, {2}, {1}>>]
Nothing == [kind |-> "tile", groups |-> <<>>]

\* Each request alone, those that hold something in pairs, three that meet over one item.
Alone == <<Nothing, Both("order"), Both("bands"), Both("measure"), Both("crop"), Far, TooWide>>
Pairs == <<One("tile"), Both("mosaic"), One("statistics"), One("measure"), Wide>>

R(n) == SetToSeq(Reqs)[n]

\* Which request makes which wish does not matter: the wishes rise with the requests.
Rising(wishes) ==
  {[r \in Reqs |-> wishes[at[r]]] :
     at \in {f \in [Reqs -> DOMAIN wishes] : f[R(1)] <= f[R(2)] /\ f[R(2)] <= f[R(3)]}}

MCWorkloads ==
  {[asked |-> a, results |-> FALSE] :
     a \in {b \in Rising(Alone) : b[R(2)] = Nothing}
           \cup {b \in Rising(<<Nothing>> \o Pairs) : b[R(1)] = Nothing}
           \cup {b \in Rising(<<One("tile"), One("statistics")>>) :
                   b[R(2)] # b[R(3)]}}
  \cup {[asked |-> [r \in Reqs |-> Nothing], results |-> TRUE]}
=============================================================================
