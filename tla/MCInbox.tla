------------------------------ MODULE MCInbox -------------------------------
(* Instances of Inbox for TLC. *)
EXTENDS Inbox, TLC
CONSTANTS w1, w2, p1, p2

MCProxyOf == w1 :> p1 @@ w2 :> p2
\* The second page, often past the end, and the last int64, whose offset is past
\* the end with the smaller size and wraps around with the larger
MCPages == {2, 7}
MCSizes == {1, 5}
\* The whole inbox, whatever is in it
MCFirstPage == {1}
MCWholePage == {2}
\* Messages of any status
MCAnyStatus == {"either"}
\* Users may be exchanged, and the two workers with their proxies
MCSymmetry ==
    Permutations(Users) \cup
    {w1 :> w2 @@ w2 :> w1 @@ p1 :> p2 @@ p2 :> p1}
=============================================================================
