----------------------------- MODULE OrgMembers -----------------------------
(***************************************************************************)
(* The member list of an organization (type Orgnazition, types.go) and the *)
(* methods organization.go defines on it.                                  *)
(*                                                                         *)
(* The list is the SET of its entries.  Two entries with one name are      *)
(* possible (a creation request may bring them), so entries of one name    *)
(* are told apart by a number, 0 when there is one; where the order of the *)
(* list decides which of them a method meets first, any may be it.         *)
(* The textual fields JoinedAt and PrivilegedBy are left out; "none" is    *)
(* every status but the two the code compares with.                        *)
(***************************************************************************)
EXTENDS Naturals

CONSTANT Users        \* user names, registered or not

OrgMember == [name : Users, admin : BOOLEAN,
              status : {"invited", "joined", "none"}, nth : Nat]

EntriesOf(members, u) == {m \in members : m.name = u}

Several(members, u) == \E m, n \in EntriesOf(members, u) : m # n

\* (mutant: the flag is not looked at)
IsAdminUnflagged(members, u) == \E m \in members : m.name = u

IsAdmin(members, u) == \E m \in members : m.name = u /\ m.admin

\* The entries IsLastAdmin counts: administrators that have joined.
JoinedAdmins(members) == {m \in members : m.admin /\ m.status = "joined"}

HasJoinedAdmin(members) == JoinedAdmins(members) # {}

\* (mutant: the count ignores the status as well)
IsLastAdminOfAny(members, u) ==
    /\ \E m \in members : m.name = u /\ m.admin
    /\ \E m \in members : {n \in members : n.admin} = {m}

\* isAdmin ignores the status of u; the count does not.
IsLastAdmin(members, u) ==
    /\ IsAdmin(members, u)
    /\ \E m \in members : JoinedAdmins(members) = {m}

\* (mutant: invited members are overlooked)
IsMemberExistJoined(members, u) ==
    \E m \in members : m.name = u /\ m.status = "joined"

IsMemberExist(members, u) == \E m \in members : m.name = u

\* (mutant: only administrators are counted)
SeveralJoinedAdmins(members) ==
    \E m, n \in members : m # n /\ {m, n} \subseteq JoinedAdmins(members)

\* JoinedMemberCnt() > 1
SeveralJoined(members) ==
    \E m, n \in members : m # n /\ m.status = "joined" /\ n.status = "joined"

HasJoined(members, u) == \E m \in members : m.name = u /\ m.status = "joined"

\* The lists RemoveMember may leave.  Its loop deletes from the slice it
\* ranges over: a single entry of u goes; of several the first goes, and each
\* later one may be skipped.
RemoveMember(members, u) ==
    LET own == EntriesOf(members, u)
    IN  {members \ gone : gone \in {g \in SUBSET own : g = {} => own = {}}}

\* (mutants: every entry is marked; a status the type does not have)
MemberJoinedAll(members, u) == {[m EXCEPT !.status = "joined"] : m \in members}
MemberJoinedOther(members, u) ==
    {[m EXCEPT !.status = IF m.name = u THEN "active" ELSE @] : m \in members}

MemberJoined(members, u) ==
    {[m EXCEPT !.status = IF m.name = u THEN "joined" ELSE @] : m \in members}

\* (mutant: the flag of the request is not looked at)
SetPrivilegeAlways(members, u, flag) ==
    {(members \ {m}) \cup {[m EXCEPT !.admin = TRUE]} : m \in EntriesOf(members, u)}

\* The lists the loop of OrgPrivilege may leave: it returns after one entry.
SetPrivilege(members, u, flag) ==
    {(members \ {m}) \cup {[m EXCEPT !.admin = flag]} : m \in EntriesOf(members, u)}

\* The subjects UpdateRoleBinding gives the admin role, and the edit role.
AdminNames(members) == {m.name : m \in {n \in members : n.admin}}

\* (mutant: the else branch is missing)
EditNamesOfAll(members) == {m.name : m \in members}

EditNames(members)  == {m.name : m \in {n \in members : ~n.admin}}

\* No user has two entries, those in `but` excepted.
UniqueNames(members, but) ==
    \A m, n \in members : m.name = n.name /\ m.name \notin but => m = n
=============================================================================
