----------------------------- MODULE MCAccounts -----------------------------
(* Instances of Accounts for TLC. *)
EXTENDS Accounts, TLC
CONSTANTS s1, s2, s3, s4, p1, p2

\* Two requests at each of two proxies, or all at one
MCTwoProxies == s1 :> p1 @@ s2 :> p1 @@ s3 :> p2 @@ s4 :> p2
MCOneEach    == s1 :> p1 @@ s3 :> p2
MCOneProxy   == [s \in Sessions |-> p1]

\* Users may be exchanged, the requests at a proxy, and the proxies with theirs
MCSymmetry ==
    Permutations(Names) \cup
    {s1 :> s2 @@ s2 :> s1, s3 :> s4 @@ s4 :> s3,
     s1 :> s3 @@ s3 :> s1 @@ s2 :> s4 @@ s4 :> s2 @@ p1 :> p2 @@ p2 :> p1}
MCAlike == Permutations(Names) \cup Permutations(Sessions)
=============================================================================
