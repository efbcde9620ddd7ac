-------------------------- MODULE MCOrganizations ---------------------------
(* Instances of Organizations for TLC. *)
EXTENDS Organizations, TLC

\* Every organization has a name of its own.
MCOwnNames == [o \in OrgIDs |-> o]

MCUser == CHOOSE u \in Registered : TRUE
MCOrg  == CHOOSE o \in OrgIDs : TRUE

\* Sign-up requests without a list of organizations; and the one of MCUser
\* lists MCOrg and says that one was created already.
MCBlank  == [u \in Registered |-> [orgs |-> [o \in OrgIDs |-> 0], used |-> 0]]
MCListed ==
    [MCBlank EXCEPT ![MCUser] = [orgs |-> [MCBlank[MCUser].orgs EXCEPT ![MCOrg] = 1],
                                 used |-> 1]]

\* The member lists of creation requests: none; one joined administrator, who
\* may be the creator himself; and MCUser with users who never signed up.
MCMember(u, admin, status) ==
    [name |-> u, admin |-> admin, status |-> status, nth |-> 0]

MCEmpty  == {{}}
MCJoined == {{}} \cup {{MCMember(u, TRUE, "joined")} : u \in Registered}
MCMixed  == {{}, {MCMember(MCUser, TRUE, "joined")} \cup
                 {MCMember(u, FALSE, "none") : u \in Users \ Registered}}

MCSymmetry == Permutations(Registered) \cup Permutations(Handlers)
=============================================================================
