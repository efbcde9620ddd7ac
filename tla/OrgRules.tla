------------------------------ MODULE OrgRules ------------------------------
(***************************************************************************)
(* What the organization API promises about the member list of an          *)
(* organization, one request being one step.  Organizations implements it  *)
(* when requests are served one at a time, whatever calls fail in between. *)
(***************************************************************************)
EXTENDS Naturals, FiniteSets

CONSTANTS Users, Registered, OrgIDs, Bodies, NoDoc

VARIABLE org    \* the member list with its creator, or NoDoc

Init == org = [o \in OrgIDs |-> NoDoc]

Entry(u, admin, status, nth) ==
    [name |-> u, admin |-> admin, status |-> status, nth |-> nth]

Of(members, u) == {m \in members : m.name = u}
Admins(o) == {m.name : m \in {n \in org[o].members : n.admin}}
Led(members) == \E m \in members : m.admin /\ m.status = "joined"

\* The creator joins as administrator those his request listed.
Create(o, u) ==
    /\ org[o] = NoDoc
    /\ \E body \in Bodies :
          org' = [org EXCEPT ![o] =
              [createBy |-> u,
               members |-> body \cup
                   {Entry(u, TRUE, "joined", Cardinality(Of(body, u)))}]]

\* Only an administrator, and only when nobody else has joined.
Delete(o, by) ==
    /\ org[o] # NoDoc
    /\ by \in Admins(o)
    /\ \A m, n \in org[o].members :
          m.status = "joined" /\ n.status = "joined" => m = n
    /\ org' = [org EXCEPT ![o] = NoDoc]

\* The list becomes `members`; a joined administrator is never lost.
Becomes(o, members) ==
    /\ Led(org[o].members) => Led(members)
    /\ org' = [org EXCEPT ![o].members = members]

Accept(o, u) ==
    /\ org[o] # NoDoc
    /\ Becomes(o, {[m EXCEPT !.status = IF m.name = u THEN "joined" ELSE @] :
                      m \in org[o].members})

\* The user's entry goes.  Of several some may stay.
Several(o, u) == \E m, n \in Of(org[o].members, u) : m # n
Without(o, u) ==
    {org[o].members \ gone : gone \in
        IF Several(o, u) THEN SUBSET Of(org[o].members, u)
                         ELSE {Of(org[o].members, u)}}

\* A user with several entries may be the last joined administrator.
Leave(o, u) ==
    /\ org[o] # NoDoc
    /\ \E left \in Without(o, u) :
          /\ Led(org[o].members) => Led(left) \/ Several(o, u)
          /\ org' = [org EXCEPT ![o].members = left]

Invite(o, by, u, admin) ==
    /\ org[o] # NoDoc
    /\ by \in Admins(o)
    /\ u \in Registered
    /\ Of(org[o].members, u) = {}
    /\ Becomes(o, org[o].members \cup {Entry(u, admin, "invited", 0)})

\* Any administrator but the one concerned, joined or not.
Remove(o, by, u) ==
    /\ org[o] # NoDoc
    /\ by \in Admins(o) \ {u}
    /\ \E left \in Without(o, u) : org' = [org EXCEPT ![o].members = left]

Privilege(o, by, u, admin) ==
    /\ org[o] # NoDoc
    /\ by \in Admins(o)
    /\ \E m \in Of(org[o].members, u) :
          Becomes(o, (org[o].members \ {m}) \cup {[m EXCEPT !.admin = admin]})

Next ==
    \E o \in OrgIDs, u \in Registered :
        \/ Create(o, u) \/ Delete(o, u) \/ Accept(o, u) \/ Leave(o, u)
        \/ \E t \in Users, flag \in BOOLEAN :
              Invite(o, u, t, flag) \/ Remove(o, u, t) \/ Privilege(o, u, t, flag)

Spec == Init /\ [][Next]_org
=============================================================================
