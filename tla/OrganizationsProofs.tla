------------------------ MODULE OrganizationsProofs -------------------------
(***************************************************************************)
(* Proofs about Organizations: what holds for any number of users,         *)
(* organizations and handlers, any interleaving of their calls and any     *)
(* number of failed calls and restarts.                                    *)
(*                                                                         *)
(* None of the properties is inductive: a document is overwritten with     *)
(* the copy a handler took of it, so what is shown of the documents has to *)
(* be shown of every copy in flight (Copies), in terms of a history that   *)
(* only grows, and what a handler may do later rests on what it saw when   *)
(* it decided (Authority).                                                 *)
(***************************************************************************)
EXTENDS Organizations, FiniteSetTheorems, TLAPS

\* The member-list operators, for every member list.

\* A list is sound for the users B its creation request listed, I that may
\* be on it besides, A that may have joined and G that may hold the admin flag
\* when it keeps to them, one entry a name but for B.
Sound(members, B, I, A, G) ==
    /\ UniqueNames(members, B)
    /\ \A m \in members :
          /\ m.name \in B \cup I
          /\ m.status = "joined" => m.name \in B \cup A
          /\ m.admin => m.name \in G

\* Sound lists stay sound when more is allowed.
LEMMA SoundGrows ==
    ASSUME NEW members, NEW B, NEW I, NEW A, NEW G, NEW B2, NEW I2, NEW A2, NEW G2,
           Sound(members, B, I, A, G), B \subseteq B2, I \subseteq I2,
           A \subseteq A2, G \subseteq G2
    PROVE  Sound(members, B2, I2, A2, G2)
BY DEF Sound, UniqueNames

\* RemoveMember (organization.go:381) keeps entries only.
LEMMA RemoveSound ==
    ASSUME NEW members \in SUBSET OrgMember, NEW u, NEW B, NEW I, NEW A, NEW G,
           Sound(members, B, I, A, G), NEW left \in RemoveMember(members, u)
    PROVE  left \in SUBSET OrgMember /\ Sound(left, B, I, A, G)
<1>1. left \subseteq members
  BY DEF RemoveMember
<1> QED  BY <1>1 DEF Sound, UniqueNames

\* MemberJoined (organization.go:390) makes a member of nobody, and joined
\* of nobody but the caller.
LEMMA JoinSound ==
    ASSUME NEW members \in SUBSET OrgMember, NEW u, NEW B, NEW I, NEW A, NEW G,
           Sound(members, B, I, A, G)
    PROVE  /\ MemberJoined(members, u) \in SUBSET OrgMember
           /\ Sound(MemberJoined(members, u), B, I,
                    A \cup {x \in {u} : IsMemberExist(members, x)}, G)
<1> DEFINE f(m) == [m EXCEPT !.status = IF m.name = u THEN "joined" ELSE @]
           J == A \cup {x \in {u} : IsMemberExist(members, x)}
<1>1. \A m \in OrgMember : /\ f(m) \in OrgMember
                           /\ f(m).name = m.name /\ f(m).admin = m.admin
                           /\ f(m).status = IF m.name = u THEN "joined" ELSE m.status
  BY DEF OrgMember
<1>2. MemberJoined(members, u) = {f(m) : m \in members}
  BY DEF MemberJoined
<1>3. MemberJoined(members, u) \in SUBSET OrgMember
  BY <1>1, <1>2
<1>4. UniqueNames(MemberJoined(members, u), B)
  <2> SUFFICES ASSUME NEW x \in MemberJoined(members, u),
                      NEW y \in MemberJoined(members, u), x.name = y.name,
                      x.name \notin B
               PROVE  x = y
    BY DEF UniqueNames
  <2> PICK m \in members, n \in members : x = f(m) /\ y = f(n)
    BY <1>2
  <2>1. m.name = n.name /\ m.name \notin B
    BY <1>1
  <2> QED  BY <2>1 DEF Sound, UniqueNames
<1>5. ASSUME NEW m \in members
      PROVE  /\ f(m).name \in B \cup I
             /\ f(m).status = "joined" => f(m).name \in B \cup J
             /\ f(m).admin => f(m).name \in G
  BY <1>1, <1>5 DEF Sound, IsMemberExist
<1> QED  BY <1>2, <1>3, <1>4, <1>5 DEF Sound

\* What the loop of OrgPrivilege does: one entry of the member it names
\* changes its flag.
LEMMA PrivilegeIs ==
    ASSUME NEW members \in SUBSET OrgMember, NEW u, NEW flag \in BOOLEAN,
           NEW set \in SetPrivilege(members, u, flag)
    PROVE  \E m \in members, n \in OrgMember :
              /\ m.name = u /\ n.name = u /\ n.admin = flag /\ n.status = m.status
              /\ set = (members \ {m}) \cup {n}
<1>1. PICK m \in EntriesOf(members, u) :
         set = (members \ {m}) \cup {[m EXCEPT !.admin = flag]}
  BY DEF SetPrivilege
<1>2. m \in members /\ m \in OrgMember /\ m.name = u
  BY DEF EntriesOf
<1>3. PICK n : n = [m EXCEPT !.admin = flag]
  OBVIOUS
<1>4. n \in OrgMember /\ n.name = u /\ n.admin = flag /\ n.status = m.status
  BY <1>2, <1>3 DEF OrgMember
<1> QED  BY <1>1, <1>2, <1>3, <1>4

\* It gives the flag to nobody else.
LEMMA PrivilegeSound ==
    ASSUME NEW members \in SUBSET OrgMember, NEW u, NEW flag \in BOOLEAN,
           NEW B, NEW I, NEW A, NEW G, Sound(members, B, I, A, G),
           NEW set \in SetPrivilege(members, u, flag)
    PROVE  /\ set \in SUBSET OrgMember
           /\ Sound(set, B, I, A, G \cup {x \in {u} : flag})
<1>1. PICK m \in members, n \in OrgMember :
         /\ m.name = u /\ n.name = u /\ n.admin = flag /\ n.status = m.status
         /\ set = (members \ {m}) \cup {n}
  BY PrivilegeIs
<1>2. UniqueNames(set, B)
  <2> SUFFICES ASSUME NEW x \in set, NEW y \in set, x.name = y.name, x.name \notin B
               PROVE  x = y
    BY DEF UniqueNames
  <2>1. \A z \in members : z.name = u /\ u \notin B => z = m
    BY <1>1 DEF Sound, UniqueNames
  <2> QED  BY <1>1, <2>1 DEF Sound, UniqueNames
<1> QED  BY <1>1, <1>2 DEF Sound

\* The entry OrgInvite appends (user.go:459).
LEMMA InviteSound ==
    ASSUME NEW members \in SUBSET OrgMember, NEW u \in Users, NEW flag \in BOOLEAN,
           NEW B, NEW I, NEW A, NEW G, Sound(members, B, I, A, G),
           ~IsMemberExist(members, u),
           NEW e, e = [name |-> u, admin |-> flag, status |-> "invited", nth |-> 0]
    PROVE  /\ members \cup {e} \in SUBSET OrgMember
           /\ Sound(members \cup {e}, B, I \cup {u}, A, G \cup {x \in {u} : flag})
<1>1. e \in OrgMember /\ e.name = u /\ e.admin = flag /\ e.status # "joined"
  BY DEF OrgMember
<1>2. UniqueNames(members \cup {e}, B)
  BY <1>1 DEF UniqueNames, Sound, IsMemberExist
<1> QED  BY <1>1, <1>2 DEF Sound
-----------------------------------------------------------------------------
\* An accept loses no joined administrator.
LEMMA JoinKeepsAdmin ==
    ASSUME NEW members \in SUBSET OrgMember, NEW u, HasJoinedAdmin(members)
    PROVE  HasJoinedAdmin(MemberJoined(members, u))
<1> PICK m \in members : m.admin /\ m.status = "joined"
  BY DEF HasJoinedAdmin, JoinedAdmins
<1> DEFINE n == [m EXCEPT !.status = IF m.name = u THEN "joined" ELSE @]
<1>1. n \in MemberJoined(members, u) /\ n.admin /\ n.status = "joined"
  BY DEF MemberJoined, OrgMember
<1> QED  BY <1>1 DEF HasJoinedAdmin, JoinedAdmins

\* If u is not what IsLastAdmin (organization.go:339) calls the last admin and
\* has one entry at most, a joined administrator is somebody else.
LEMMA OtherAdmin ==
    ASSUME NEW members \in SUBSET OrgMember, NEW u, ~Several(members, u),
           HasJoinedAdmin(members), ~IsLastAdmin(members, u)
    PROVE  \E m \in members : m.admin /\ m.status = "joined" /\ m.name # u
<1>1. PICK m \in JoinedAdmins(members) : TRUE
  BY DEF HasJoinedAdmin
<1>2. CASE m.name # u
  BY <1>1, <1>2 DEF JoinedAdmins
<1>3. CASE m.name = u
  <2>1. m \in members /\ m.admin /\ IsAdmin(members, u)
    BY <1>1, <1>3 DEF JoinedAdmins, IsAdmin
  <2>2. JoinedAdmins(members) # {m}
    BY <2>1 DEF IsLastAdmin
  <2>3. PICK n \in JoinedAdmins(members) : n # m
    BY <1>1, <2>2
  <2> QED  BY <1>3, <2>1, <2>3 DEF JoinedAdmins, Several, EntriesOf
<1> QED  BY <1>2, <1>3

\* Leaving and losing the flag keep a joined administrator, guarded so.
LEMMA LeaveKeepsAdmin ==
    ASSUME NEW members \in SUBSET OrgMember, NEW u, ~Several(members, u),
           HasJoinedAdmin(members), ~IsLastAdmin(members, u),
           NEW left \in RemoveMember(members, u)
    PROVE  HasJoinedAdmin(left)
<1>1. PICK m \in members : m.admin /\ m.status = "joined" /\ m.name # u
  BY OtherAdmin
<1>2. m \in left
  BY <1>1 DEF RemoveMember, EntriesOf
<1> QED  BY <1>1, <1>2 DEF HasJoinedAdmin, JoinedAdmins

LEMMA PrivilegeKeepsAdmin ==
    ASSUME NEW members \in SUBSET OrgMember, NEW u, NEW flag \in BOOLEAN,
           HasJoinedAdmin(members), ~IsLastAdmin(members, u),
           NEW set \in SetPrivilege(members, u, flag)
    PROVE  HasJoinedAdmin(set)
<1>1. PICK m \in members, n \in OrgMember :
         /\ m.name = u /\ n.name = u /\ n.admin = flag /\ n.status = m.status
         /\ set = (members \ {m}) \cup {n}
  BY PrivilegeIs
<1>2. \E a \in JoinedAdmins(members) : a # m
  <2>1. CASE m \in JoinedAdmins(members)
    <3>1. IsAdmin(members, u)
      BY <1>1, <2>1 DEF JoinedAdmins, IsAdmin
    <3>2. JoinedAdmins(members) # {m}
      BY <1>1, <3>1 DEF IsLastAdmin
    <3> QED  BY <2>1, <3>2
  <2>2. CASE m \notin JoinedAdmins(members)
    BY <2>2 DEF HasJoinedAdmin
  <2> QED  BY <2>1, <2>2
<1> QED  BY <1>1, <1>2 DEF HasJoinedAdmin, JoinedAdmins

\* A member removed by a joined administrator leaves that one behind.
LEMMA RemoveKeepsAdmin ==
    ASSUME NEW members \in SUBSET OrgMember, NEW by, NEW u, by # u,
           HasJoinedAdmin(EntriesOf(members, by)), NEW left \in RemoveMember(members, u)
    PROVE  HasJoinedAdmin(left)
<1>1. PICK m \in members : m.name = by /\ m.admin /\ m.status = "joined"
  BY DEF HasJoinedAdmin, JoinedAdmins, EntriesOf
<1>2. m \in left
  BY <1>1 DEF RemoveMember, EntriesOf
<1> QED  BY <1>1, <1>2 DEF HasJoinedAdmin, JoinedAdmins

\* The new entry of an invite does not displace one.
LEMMA InviteKeepsAdmin ==
    ASSUME NEW members, NEW e, HasJoinedAdmin(members)
    PROVE  HasJoinedAdmin(members \cup {e})
BY DEF HasJoinedAdmin, JoinedAdmins
-----------------------------------------------------------------------------
\* Without an entry for u, MemberJoined changes nothing.
LEMMA JoinOfNobody ==
    ASSUME NEW members \in SUBSET OrgMember, NEW u, ~IsMemberExist(members, u)
    PROVE  MemberJoined(members, u) = members
<1> DEFINE f(n) == [n EXCEPT !.status = IF n.name = u THEN "joined" ELSE @]
<1>1. \A n \in members : f(n) = n
  BY DEF OrgMember, IsMemberExist
<1>2. MemberJoined(members, u) = {f(n) : n \in members}
  BY DEF MemberJoined
<1> HIDE DEF f
<1> QED  BY <1>1, <1>2

\* With names unique, the subjects of the two bindings tell the flag.
LEMMA NamesTellFlag ==
    ASSUME NEW members \in SUBSET OrgMember, NEW B, UniqueNames(members, B),
           NEW m \in members, m.name \notin B
    PROVE  /\ m.name \in AdminNames(members) <=> m.admin
           /\ m.name \in EditNames(members) <=> ~m.admin
<1>1. m.name \in AdminNames(members) <=> \E n \in members : n.admin /\ n.name = m.name
  BY DEF AdminNames
<1>2. m.name \in EditNames(members) <=> \E n \in members : ~n.admin /\ n.name = m.name
  BY DEF EditNames
<1> QED  BY <1>1, <1>2, Zenon DEF UniqueNames

\* Whoever is on the list after a removal or an accept was on it before with
\* the same flag.
LEMMA FlagsStay ==
    ASSUME NEW members \in SUBSET OrgMember, NEW u, NEW m,
           (\E left \in RemoveMember(members, u) : m \in left)
               \/ m \in MemberJoined(members, u)
    PROVE  \E n \in members : n.name = m.name /\ n.admin = m.admin
<1>1. CASE \E left \in RemoveMember(members, u) : m \in left
  BY <1>1 DEF RemoveMember
<1>2. CASE m \in MemberJoined(members, u)
  <2>1. PICK n \in members : m = [n EXCEPT !.status = IF n.name = u THEN "joined" ELSE @]
    BY <1>2 DEF MemberJoined
  <2>2. n.name = m.name /\ n.admin = m.admin
    BY <2>1 DEF OrgMember
  <2> QED  BY <2>2
<1> QED  BY <1>1, <1>2

\* Who has joined changes by an accept and a removal only, of the one named.
LEMMA JoinedAfter ==
    ASSUME NEW members \in SUBSET OrgMember, NEW u, NEW v
    PROVE  /\ v # u => (HasJoined(MemberJoined(members, u), v) <=> HasJoined(members, v))
           /\ \A left \in RemoveMember(members, u) :
                 /\ v # u => (HasJoined(left, v) <=> HasJoined(members, v))
                 /\ ~Several(members, u) => ~HasJoined(left, u)
           /\ \A flag \in BOOLEAN : \A set \in SetPrivilege(members, u, flag) :
                 HasJoined(set, v) <=> HasJoined(members, v)
<1> DEFINE join(n) == [n EXCEPT !.status = IF n.name = u THEN "joined" ELSE @]
<1>1. \A n \in members : /\ join(n).name = n.name
                         /\ n.name # u => join(n).status = n.status
  BY DEF OrgMember
<1>2. MemberJoined(members, u) = {join(n) : n \in members}
  BY DEF MemberJoined
<1> HIDE DEF join
<1>3. v # u => (HasJoined(MemberJoined(members, u), v) <=> HasJoined(members, v))
  BY <1>1, <1>2 DEF HasJoined
<1>4. ASSUME NEW left \in RemoveMember(members, u)
      PROVE  /\ v # u => (HasJoined(left, v) <=> HasJoined(members, v))
             /\ ~Several(members, u) => ~HasJoined(left, u)
  <2>1. PICK gone \in SUBSET EntriesOf(members, u) :
           left = members \ gone /\ (gone = {} => EntriesOf(members, u) = {})
    BY DEF RemoveMember
  <2>2. v # u => (HasJoined(left, v) <=> HasJoined(members, v))
    BY <2>1 DEF HasJoined, EntriesOf
  <2>3. ~Several(members, u) => gone = EntriesOf(members, u)
    BY <2>1 DEF Several
  <2> QED  BY <2>1, <2>2, <2>3 DEF HasJoined, EntriesOf
<1>5. ASSUME NEW flag \in BOOLEAN, NEW set \in SetPrivilege(members, u, flag)
      PROVE  HasJoined(set, v) <=> HasJoined(members, v)
  <2>1. PICK m \in members, n \in OrgMember :
           /\ m.name = u /\ n.name = u /\ n.status = m.status
           /\ set = (members \ {m}) \cup {n}
    BY PrivilegeIs
  <2> QED  BY <2>1 DEF HasJoined
<1> QED  BY <1>3, <1>4, <1>5
-----------------------------------------------------------------------------
\* The invariant.

\* A document, stored or copied, keeps to the history of its organization.
GoodDoc(o, doc) ==
    /\ Sound(doc.members, brought[o], invited[o] \cap Registered, accepted[o], granted[o])
    /\ o \in orphaned \/ HasJoinedAdmin(doc.members)

Documents == \A o \in OrgIDs : orgDoc[o] # NoDoc => GoodDoc(o, orgDoc[o])

Copies == \A p \in Handlers :
    handler[p] # Idle /\ handler[p].doc # NoDoc
        => GoodDoc(handler[p].org, handler[p].doc)

Roles == \A o \in OrgIDs : adminRole[o] \subseteq granted[o]
                           /\ editRole[o] \cup brought[o] \subseteq invited[o]

\* A handler that is past the reading of its organization holds a copy of it.
Loaded == \A p \in Handlers :
    handler[p].at \in Calls \ {"getProfile", "postProject", "getOrg"}
        => handler[p].doc # NoDoc

\* A handler that decided to invite, or to delete the project, saw its
\* caller as an administrator; an invite found no entry for its target on the
\* copy; nobody removes himself.
Authority == \A p \in Handlers :
    /\ At(p, "invite", "getMember") \/ handler[p].at = "deleteProject"
          => handler[p].user \in granted[handler[p].org]
    /\ At(p, "invite", "getMember") =>
          ~IsMemberExist(handler[p].doc.members, handler[p].target)
    /\ At(p, "remove", "getOrg") => handler[p].target # handler[p].user

\* Nothing was decided about an organization whose creation is pending.
Pending(p) == handler[p].at \in {"getProfile", "postProject"} /\ handler[p].op = "create"

Fresh ==
    /\ \A o \in OrgIDs \ issued : invited[o] = {} /\ granted[o] = {}
    /\ \A p \in Handlers : handler[p] # Idle => handler[p].org \in issued
    /\ \A p \in Handlers : Pending(p) =>
          invited[handler[p].org] = {} /\ granted[handler[p].org] = {}
    /\ \A p, q \in Handlers : Pending(p) /\ Pending(q) /\ p # q
          => handler[p].org # handler[q].org
    /\ \A p \in Handlers : handler[p].at = "postProject" => handler[p].op = "create"

IInv ==
    /\ TypeOK /\ Documents /\ Copies /\ Roles /\ Loaded /\ Authority /\ Fresh
-----------------------------------------------------------------------------
\* What a step of handler p does to handler p, in terms of the invariant: it
\* answers, or goes on with the same request, a copy that is as before or
\* good, and a next call the copies it holds and its decisions allow.
Moves(p) ==
    \/ handler' = [handler EXCEPT ![p] = Idle]
    \/ \E r \in Request :
          /\ handler' = [handler EXCEPT ![p] = r]
          /\ r.op = handler[p].op /\ r.user = handler[p].user /\ r.org = handler[p].org
          /\ r.doc # handler[p].doc => r.doc # NoDoc /\ GoodDoc(r.org, r.doc)'
          /\ r.at \in Calls \ {"getProfile", "postProject", "getOrg"} => r.doc # NoDoc
          /\ r.at = "deleteProject" \/ (r.op = "invite" /\ r.at = "getMember")
                => r.user \in granted'[r.org]
          /\ r.op = "invite" /\ r.at = "getMember"
                => ~IsMemberExist(r.doc.members, r.target)
          /\ r.op = "remove" /\ r.at = "getOrg" => r.target # r.user
          /\ r.at # "getProfile"
          /\ r.at = "postProject" => r.op = "create" /\ handler[p].at = "getProfile"

HistoryGrows ==
    /\ issued \subseteq issued'
    /\ orphaned \subseteq orphaned'
    /\ \A o \in OrgIDs : /\ brought[o] \subseteq brought'[o]
                         /\ invited[o] \subseteq invited'[o]
                         /\ accepted[o] \subseteq accepted'[o]
                         /\ granted[o] \subseteq granted'[o]

\* A request is what a handler at a call is serving.
LEMMA AtRequest ==
    ASSUME TypeOK, NEW p \in Handlers, handler[p].at # "idle"
    PROVE  handler[p] \in Request
BY DEF TypeOK, Idle

\* The history of decisions is only added to.
LEMMA Growth ==
    ASSUME TypeOK, [Next]_vars
    PROVE  HistoryGrows
<1> USE DEF TypeOK, HistoryGrows, arrived, history, store
<1>1. CASE UNCHANGED vars
  BY <1>1 DEF vars
<1>2. CASE Restart
  BY <1>2 DEF Restart
<1>3. ASSUME NEW p \in Handlers, Receive(p) PROVE HistoryGrows
  BY <1>3 DEF Receive
<1>4. ASSUME NEW p \in Handlers, CallFails(p) PROVE HistoryGrows
  BY <1>4 DEF CallFails
<1>5. ASSUME NEW p \in Handlers, Step(p) PROVE HistoryGrows
  <2>1. CASE GetProfile(p)  BY <2>1 DEF GetProfile
  <2>2. CASE OrgMissing(p)  BY <2>2 DEF OrgMissing
  <2>3. CASE DecideDelete(p)  BY <2>3 DEF DecideDelete
  <2>4. CASE DecideAccept(p)  BY <2>4 DEF DecideAccept
  <2>5. CASE DecideLeave(p)  BY <2>5 DEF DecideLeave
  <2>6. CASE DecideInvite(p)  BY <2>6 DEF DecideInvite
  <2>7. CASE DecideRemove(p)  BY <2>7 DEF DecideRemove
  <2>8. CASE DecidePrivilege(p)  BY <2>8 DEF DecidePrivilege
  <2>9. CASE InviteMember(p)  BY <2>9 DEF InviteMember
  <2>10. CASE PostProject(p)  BY <2>10 DEF PostProject
  <2>11. CASE CreateRoleBinding(p)  BY <2>11 DEF CreateRoleBinding
  <2>12. CASE UpdateAdminRole(p)  BY <2>12 DEF UpdateAdminRole
  <2>13. CASE UpdateEditRole(p)  BY <2>13 DEF UpdateEditRole
  <2>14. CASE PutOrg(p)  BY <2>14 DEF PutOrg
  <2>15. CASE GetProfileAgain(p)  BY <2>15 DEF GetProfileAgain
  <2>16. CASE PutProfile(p)  BY <2>16 DEF PutProfile
  <2>17. CASE GetMember(p)  BY <2>17 DEF GetMember
  <2>18. CASE PutMember(p)  BY <2>18 DEF PutMember
  <2>19. CASE DeleteProject(p)  BY <2>19 DEF DeleteProject
  <2>20. CASE GetCreator(p)  BY <2>20 DEF GetCreator
  <2>21. CASE PutCreator(p)  BY <2>21 DEF PutCreator
  <2>22. CASE DeleteOrg(p)  BY <2>22 DEF DeleteOrg
  <2> QED  BY <1>5, <2>1, <2>2, <2>3, <2>4, <2>5, <2>6, <2>7, <2>8, <2>9, <2>10,
              <2>11, <2>12, <2>13, <2>14, <2>15, <2>16, <2>17, <2>18, <2>19,
              <2>20, <2>21, <2>22 DEF Step
<1> QED  BY <1>1, <1>2, <1>3, <1>4, <1>5 DEF Next

\* What was good stays good.
LEMMA GoodStays ==
    ASSUME HistoryGrows, NEW o \in OrgIDs, NEW doc, GoodDoc(o, doc)
    PROVE  GoodDoc(o, doc)'
<1>1. Sound(doc.members, brought'[o], invited'[o] \cap Registered, accepted'[o],
            granted'[o])
  BY SoundGrows DEF HistoryGrows, GoodDoc
<1> QED  BY <1>1 DEF GoodDoc, HistoryGrows

\* A handler that goes on with the copy it has, whatever becomes of the
\* profile and the error it keeps, moves.
LEMMA CallMoves ==
    ASSUME Loaded, NEW p \in Handlers, handler[p] \in Request,
           handler[p].at \notin {"getProfile", "postProject", "getOrg"},
           NEW call \in Calls \ {"getProfile", "postProject", "getOrg", "deleteProject"},
           call = "getMember" => handler[p].op # "invite",
           NEW prof \in Profile, NEW err \in BOOLEAN,
           handler' = [handler EXCEPT
               ![p] = [handler[p] EXCEPT !.at = call, !.prof = prof, !.err = err]]
    PROVE  Moves(p)
<1> DEFINE r == [handler[p] EXCEPT !.at = call, !.prof = prof, !.err = err]
<1>1. r \in Request /\ r.at = call /\ r.op = handler[p].op /\ r.user = handler[p].user
      /\ r.org = handler[p].org /\ r.doc = handler[p].doc
  BY DEF Request
<1>2. handler[p].doc # NoDoc
  BY DEF Loaded, Request
<1> QED  BY <1>1, <1>2 DEF Moves

LEMMA GoMoves ==
    ASSUME Loaded, NEW p \in Handlers, handler[p] \in Request,
           handler[p].at \notin {"getProfile", "postProject", "getOrg"},
           NEW call \in Calls \ {"getProfile", "postProject", "getOrg", "deleteProject"},
           call = "getMember" => handler[p].op # "invite",
           Go(p, call)
    PROVE  Moves(p)
<1> DEFINE h == handler[p]
<1>1. h.prof \in Profile /\ h.err \in BOOLEAN
      /\ [h EXCEPT !.at = call] = [h EXCEPT !.at = call, !.prof = h.prof, !.err = h.err]
  BY DEF Request
<1>2. handler' = [handler EXCEPT
               ![p] = [handler[p] EXCEPT !.at = call, !.prof = h.prof, !.err = h.err]]
  BY <1>1 DEF Go
<1> QED  BY <1>1, <1>2, CallMoves

LEMMA ReloadMoves ==
    ASSUME Loaded, NEW p \in Handlers, handler[p] \in Request,
           handler[p].at \notin {"getProfile", "postProject", "getOrg"},
           NEW call \in Calls \ {"getProfile", "postProject", "getOrg", "deleteProject",
                                "getMember"},
           NEW prof \in Profile,
           handler' = [handler EXCEPT ![p].at = call, ![p].prof = prof]
    PROVE  Moves(p)
<1> DEFINE h == handler[p]
<1>1. h.err \in BOOLEAN /\ [h EXCEPT !.at = call, !.prof = prof]
                            = [h EXCEPT !.at = call, !.prof = prof, !.err = h.err]
  BY DEF Request
<1>2. handler' = [handler EXCEPT
               ![p] = [handler[p] EXCEPT !.at = call, !.prof = prof, !.err = h.err]]
  BY <1>1
<1>3. call # "deleteProject" /\ call # "getMember" /\ call \in Calls \ {"getProfile", "postProject", "getOrg"}
  OBVIOUS
<1>4. h.prof \in Profile /\ h.err \in BOOLEAN
  BY DEF Request
<1> QED  BY <1>2, <1>3, <1>4, CallMoves

\* So does one whose write went through, answered or not.
LEMMA WentOnMoves ==
    ASSUME Loaded, NEW p \in Handlers, handler[p] \in Request,
           handler[p].at \notin {"getProfile", "postProject", "getOrg"},
           NEW call \in Calls \ {"getProfile", "postProject", "getOrg", "deleteProject",
                                "getMember"},
           WentOnTo(p, call)
    PROVE  Moves(p)
BY GoMoves DEF WentOnTo, Answer, Moves

\* And one that took a copy of the stored organization and changed it well.
LEMMA KeepMoves ==
    ASSUME TypeOK, NEW p \in Handlers, handler[p] \in Request, Stored(p) # NoDoc,
           NEW members \in SUBSET OrgMember,
           NEW call \in Calls \ {"getProfile", "postProject", "getOrg"},
           Sound(members, brought'[handler[p].org], invited'[handler[p].org] \cap Registered,
                 accepted'[handler[p].org], granted'[handler[p].org]),
           handler[p].org \in orphaned' \/ HasJoinedAdmin(members),
           call = "deleteProject" \/ (handler[p].op = "invite" /\ call = "getMember")
               => handler[p].user \in granted'[handler[p].org],
           call = "getMember" => ~IsMemberExist(members, handler[p].target),
           Keep(p, members, call)
    PROVE  Moves(p)
<1>1. [Stored(p) EXCEPT !.members = members] \in Organization
  BY DEF TypeOK, Stored, Request, Organization
<1>2. PICK d \in Organization : d = [Stored(p) EXCEPT !.members = members]
  BY <1>1
<1>3. d # NoDoc /\ d.members = members
  BY <1>2, OrgAssumption DEF TypeOK, Stored, Request, Organization
<1>4. [handler[p] EXCEPT !.at = call, !.doc = d] \in Request
  BY DEF Request
<1>5. PICK r \in Request : r = [handler[p] EXCEPT !.at = call, !.doc = d]
  BY <1>4
<1>6. /\ r.at = call /\ r.op = handler[p].op /\ r.user = handler[p].user
      /\ r.org = handler[p].org /\ r.doc = d /\ r.target = handler[p].target
  BY <1>5 DEF Request
<1>7. handler' = [handler EXCEPT ![p] = r]
  BY <1>2, <1>5 DEF Keep
<1>8. GoodDoc(r.org, r.doc)'
  BY <1>3, <1>6 DEF GoodDoc
<1> QED  BY <1>3, <1>6, <1>7, <1>8 DEF Moves

\* What a handler sees when it reads its organization is good.
LEMMA ReadsGood ==
    ASSUME IInv, NEW p \in Handlers, NEW op, Reads(p, op)
    PROVE  /\ handler[p] \in Request
           /\ Stored(p) \in Organization
           /\ Members(p) \in SUBSET OrgMember
           /\ GoodDoc(handler[p].org, Stored(p))
           /\ UniqueNames(Members(p), brought[handler[p].org])
<1>1. handler[p] \in Request
  BY AtRequest DEF Reads, At, IInv
<1>2. Stored(p) \in Organization
  BY <1>1 DEF IInv, TypeOK, Reads, Stored, Request
<1>3. GoodDoc(handler[p].org, Stored(p))
  BY <1>1 DEF IInv, Documents, Reads, Stored, Request
<1> QED  BY <1>1, <1>2, <1>3 DEF Members, Organization, GoodDoc, Sound

\* An administrator of a good document had been granted the flag.
LEMMA AdminGranted ==
    ASSUME NEW o, NEW doc, NEW u, GoodDoc(o, doc), IsAdmin(doc.members, u)
    PROVE  u \in granted[o]
BY DEF GoodDoc, Sound, IsAdmin

\* The copy of a decision that neither joins nor grants is good when it kept
\* to what was stored, and a joined administrator.
LEMMA ReadStays ==
    ASSUME IInv, HistoryGrows, NEW p \in Handlers, NEW op, Reads(p, op),
           NEW o, o = handler[p].org
    PROVE  /\ o \in OrgIDs
           /\ Sound(Members(p), brought[o], invited[o] \cap Registered, accepted[o],
                    granted[o])
           /\ Sound(Members(p), brought'[o], invited'[o] \cap Registered, accepted'[o],
                    granted'[o])
           /\ o \in orphaned' \/ HasJoinedAdmin(Members(p))
           /\ \A u : IsAdmin(Members(p), u) => u \in granted[o] /\ u \in granted'[o]
<1>1. o \in OrgIDs
  BY ReadsGood DEF Request
<1>2. Sound(Members(p), brought[o], invited[o] \cap Registered, accepted[o], granted[o])
      /\ (o \in orphaned \/ HasJoinedAdmin(Members(p)))
  BY ReadsGood DEF GoodDoc, Members
<1>3. Sound(Members(p), brought'[o], invited'[o] \cap Registered, accepted'[o],
            granted'[o])
  BY <1>1, <1>2, SoundGrows DEF HistoryGrows
<1>4. \A u : IsAdmin(Members(p), u) => u \in granted[o]
  BY <1>2 DEF Sound, IsAdmin
<1> QED  BY <1>1, <1>2, <1>3, <1>4 DEF HistoryGrows

LEMMA AnswerMoves == ASSUME NEW p, Answer(p) PROVE Moves(p)
BY DEF Answer, Moves

LEMMA DeleteMoves ==
    ASSUME IInv, HistoryGrows, NEW p \in Handlers, DecideDelete(p)
    PROVE  Moves(p)
<1>1. Reads(p, "delete")
  BY DEF DecideDelete
<1>2. CASE Keep(p, Members(p), "deleteProject") /\ IsAdmin(Members(p), handler[p].user)
  BY <1>1, <1>2, KeepMoves, ReadsGood, ReadStays DEF IInv, Calls, Reads
<1> QED  BY <1>2, AnswerMoves DEF DecideDelete

LEMMA AcceptMoves ==
    ASSUME IInv, HistoryGrows, NEW p \in Handlers, DecideAccept(p)
    PROVE  Moves(p)
<1> DEFINE r == handler[p]
           I == invited[r.org] \cap Registered
           A == accepted[r.org] \cup {u \in {r.user} : IsMemberExist(Members(p), u)}
<1>1. Reads(p, "accept") /\ Keep(p, MemberJoined(Members(p), r.user), "putOrg")
  BY DEF DecideAccept
<1>2. /\ MemberJoined(Members(p), r.user) \in SUBSET OrgMember
      /\ Sound(MemberJoined(Members(p), r.user), brought[r.org], I, A, granted[r.org])
  BY <1>1, ReadsGood, ReadStays, JoinSound
<1>3. /\ brought' = brought /\ invited' = invited /\ accepted'[r.org] = A
      /\ granted' = granted
  BY <1>1, ReadStays DEF DecideAccept, IInv, TypeOK
<1>4. r.org \in orphaned' \/ HasJoinedAdmin(MemberJoined(Members(p), r.user))
  BY <1>1, ReadsGood, ReadStays, JoinKeepsAdmin
<1>5. r.op = "accept"
  BY <1>1 DEF Reads, At
<1> QED  BY <1>1, <1>2, <1>3, <1>4, <1>5, ReadsGood, KeepMoves DEF IInv, Calls, Reads

LEMMA LeaveMoves ==
    ASSUME IInv, HistoryGrows, NEW p \in Handlers, DecideLeave(p)
    PROVE  Moves(p)
<1> DEFINE r == handler[p]
<1>1. Reads(p, "leave")
  BY DEF DecideLeave
<1>2. CASE Answer(p)
  BY <1>2, AnswerMoves
<1>3. CASE ~Answer(p)
  <2>1. PICK left \in RemoveMember(Members(p), r.user) : Keep(p, left, "putOrg")
    BY <1>3 DEF DecideLeave, RemovePanics
  <2>2. /\ ~IsLastAdmin(Members(p), r.user)
        /\ orphaned' = orphaned \cup {o \in {r.org} : Several(Members(p), r.user)}
    BY <1>3 DEF DecideLeave, RemovePanics
  <2>3. /\ left \in SUBSET OrgMember
        /\ Sound(left, brought'[r.org], invited'[r.org] \cap Registered,
                 accepted'[r.org], granted'[r.org])
    BY <1>1, ReadsGood, ReadStays, RemoveSound
  <2>4. r.org \in orphaned' \/ HasJoinedAdmin(left)
    BY <1>1, <2>2, ReadsGood, ReadStays, LeaveKeepsAdmin
  <2> QED  BY <1>1, <2>1, <2>3, <2>4, ReadsGood, KeepMoves DEF IInv, Calls, Reads, At
<1> QED  BY <1>2, <1>3

LEMMA DecideInviteMoves ==
    ASSUME IInv, HistoryGrows, NEW p \in Handlers, DecideInvite(p)
    PROVE  Moves(p)
<1>1. Reads(p, "invite")
  BY DEF DecideInvite
<1>2. CASE /\ Keep(p, Members(p), "getMember") /\ IsAdmin(Members(p), handler[p].user)
           /\ ~IsMemberExist(Members(p), handler[p].target)
  BY <1>1, <1>2, KeepMoves, ReadsGood, ReadStays DEF IInv, Calls, Reads
<1> QED  BY <1>2, AnswerMoves DEF DecideInvite

LEMMA RemoveMoves ==
    ASSUME IInv, HistoryGrows, NEW p \in Handlers, DecideRemove(p)
    PROVE  Moves(p)
<1> DEFINE r == handler[p]
<1>1. Reads(p, "remove") /\ r.target # r.user
  BY DEF DecideRemove, IInv, Authority, Reads
<1>2. CASE Answer(p)
  BY <1>2, AnswerMoves
<1>3. CASE ~Answer(p)
  <2>1. PICK left \in RemoveMember(Members(p), r.target) : Keep(p, left, "putOrg")
    BY <1>3 DEF DecideRemove, RemovePanics
  <2>2. orphaned' = orphaned \cup
           {o \in {r.org} : ~HasJoinedAdmin(EntriesOf(Members(p), r.user))}
    BY <1>3 DEF DecideRemove, RemovePanics
  <2>3. /\ left \in SUBSET OrgMember
        /\ Sound(left, brought'[r.org], invited'[r.org] \cap Registered,
                 accepted'[r.org], granted'[r.org])
    BY <1>1, ReadsGood, ReadStays, RemoveSound
  <2>4. r.org \in orphaned' \/ HasJoinedAdmin(left)
    BY <1>1, <2>2, ReadsGood, RemoveKeepsAdmin
  <2> QED  BY <1>1, <2>1, <2>3, <2>4, ReadsGood, KeepMoves DEF IInv, Calls, Reads, At
<1> QED  BY <1>2, <1>3

LEMMA PrivilegeMoves ==
    ASSUME IInv, HistoryGrows, NEW p \in Handlers, DecidePrivilege(p)
    PROVE  Moves(p)
<1> DEFINE r == handler[p]
           G == granted[r.org] \cup {u \in {r.target} : r.flag}
<1>1. Reads(p, "privileged") /\ r.flag \in BOOLEAN
  BY ReadsGood DEF DecidePrivilege, Request
<1>2. CASE Answer(p)
  BY <1>2, AnswerMoves
<1>3. CASE ~Answer(p)
  <2>1. PICK ms \in SetPrivilege(Members(p), r.target, r.flag) : Keep(p, ms, "adminRole")
    BY <1>3 DEF DecidePrivilege
  <2>2. ~IsLastAdmin(Members(p), r.target) /\ granted' = [granted EXCEPT ![r.org] = G]
    BY <1>3 DEF DecidePrivilege
  <2>3. /\ ms \in SUBSET OrgMember
        /\ Sound(ms, brought[r.org], invited[r.org] \cap Registered, accepted[r.org], G)
    BY <1>1, ReadsGood, ReadStays, PrivilegeSound
  <2>4. /\ granted'[r.org] = G /\ brought' = brought /\ invited' = invited
        /\ accepted' = accepted
    BY <1>1, <2>2, ReadStays DEF IInv, TypeOK, DecidePrivilege
  <2>5. r.org \in orphaned' \/ HasJoinedAdmin(ms)
    BY <1>1, <2>1, <2>2, ReadsGood, ReadStays, PrivilegeKeepsAdmin
  <2> HIDE DEF G
  <2> QED  BY <1>1, <2>1, <2>3, <2>4, <2>5, ReadsGood, KeepMoves
           DEF IInv, Calls, Reads, At
<1> QED  BY <1>2, <1>3

\* OrgInvite's copy after the new entry.
LEMMA InviteMoves ==
    ASSUME IInv, HistoryGrows, NEW p \in Handlers, InviteMember(p)
    PROVE  Moves(p)
<1> DEFINE h == handler[p]
           I == invited[h.org]
           G == granted[h.org] \cup {u \in {h.target} : h.flag}
<1>1. /\ h \in Request /\ h.at = "getMember" /\ h.op = "invite" /\ h.doc # NoDoc
      /\ GoodDoc(h.org, h.doc)
      /\ ~IsMemberExist(h.doc.members, h.target)
  BY AtRequest DEF InviteMember, At, IInv, Loaded, Calls, Copies, Idle, Authority
<1>2. h.doc \in Organization /\ h.doc.members \in SUBSET OrgMember /\ h.org \in OrgIDs
      /\ h.target \in Users /\ h.flag \in BOOLEAN
  BY <1>1 DEF Request, Organization
<1>3. PICK e : e = [name |-> h.target, admin |-> h.flag, status |-> "invited",
                    nth |-> 0]
  OBVIOUS
<1>4. CASE Answer(p)
  BY <1>4, AnswerMoves
<1>5. CASE /\ h.target \in Registered
           /\ handler' = [handler EXCEPT ![p].at = "adminRole",
                                         ![p].doc.members = @ \cup {e}]
           /\ invited' = [invited EXCEPT ![h.org] = @ \cup {h.target}]
           /\ granted' = [granted EXCEPT ![h.org] = G]
  <2>1. /\ h.doc.members \cup {e} \in SUBSET OrgMember
        /\ Sound(h.doc.members \cup {e}, brought[h.org],
                 (I \cap Registered) \cup {h.target}, accepted[h.org], G)
    BY <1>1, <1>2, <1>3, InviteSound DEF GoodDoc
  <2>2. /\ invited'[h.org] \cap Registered = (I \cap Registered) \cup {h.target}
        /\ accepted' = accepted /\ orphaned' = orphaned /\ granted'[h.org] = G
        /\ brought' = brought
    BY <1>2, <1>5 DEF InviteMember, IInv, TypeOK
  <2>3. h.org \in orphaned' \/ HasJoinedAdmin(h.doc.members \cup {e})
    BY <1>1, <2>2, InviteKeepsAdmin DEF GoodDoc
  <2>4. [h.doc EXCEPT !.members = @ \cup {e}] \in Organization
    BY <1>2, <2>1 DEF Organization
  <2>5. PICK d \in Organization : d = [h.doc EXCEPT !.members = @ \cup {e}]
    BY <2>4
  <2>6. d # NoDoc /\ d.members = h.doc.members \cup {e}
    BY <1>2, <2>5, OrgAssumption DEF Organization
  <2>7. [h EXCEPT !.at = "adminRole", !.doc = d] \in Request
    BY <1>1 DEF Request, Calls
  <2>8. PICK r \in Request : r = [h EXCEPT !.at = "adminRole", !.doc = d]
    BY <2>7
  <2>9. /\ r.at = "adminRole" /\ r.op = h.op /\ r.user = h.user
        /\ r.org = h.org /\ r.doc = d
    BY <1>1, <2>8 DEF Request
  <2>10. handler' = [handler EXCEPT ![p] = r]
    BY <1>1, <1>5, <2>5, <2>8 DEF Request, Organization
  <2>11. GoodDoc(r.org, r.doc)'
    BY <2>1, <2>2, <2>3, <2>6, <2>9 DEF GoodDoc
  <2> HIDE DEF h
  <2> QED  BY <2>6, <2>9, <2>10, <2>11 DEF Moves, h
<1> QED  BY <1>3, <1>4, <1>5 DEF InviteMember

\* CreateOrg's new organization.
LEMMA NewIs ==
    ASSUME NEW u \in Registered, NEW body \in Bodies
    PROVE  \E d \in Organization, m \in OrgMember :
              /\ d = NewOrganization(u, body) /\ d.members = body \cup {m}
              /\ m = [name |-> u, admin |-> TRUE, status |-> "joined",
                      nth |-> Cardinality(EntriesOf(body, u))]
              /\ m.name = u /\ m.admin /\ m.status = "joined"
<1>1. body \in SUBSET OrgMember /\ IsFiniteSet(body) /\ u \in Users
  BY OrgAssumption
<1>2. Cardinality(EntriesOf(body, u)) \in Nat
  <2>1. EntriesOf(body, u) \subseteq body
    BY DEF EntriesOf
  <2> QED  BY <1>1, <2>1, FS_Subset, FS_CardinalityType
<1>3. PICK k \in Nat : k = Cardinality(EntriesOf(body, u))
  BY <1>2
<1>4. PICK m : m = [name |-> u, admin |-> TRUE, status |-> "joined", nth |-> k]
  OBVIOUS
<1>5. m \in OrgMember /\ m.name = u /\ m.admin /\ m.status = "joined"
  BY <1>1, <1>4 DEF OrgMember
<1>6. PICK d : d = [createBy |-> u, members |-> body \cup {m}]
  OBVIOUS
<1>7. d \in Organization /\ d.members = body \cup {m}
  BY <1>1, <1>5, <1>6 DEF Organization
<1>8. d = NewOrganization(u, body)
  BY <1>3, <1>4, <1>6 DEF NewOrganization
<1> QED  BY <1>3, <1>4, <1>5, <1>7, <1>8

LEMMA CreateMoves ==
    ASSUME IInv, HistoryGrows, NEW p \in Handlers, PostProject(p)
    PROVE  Moves(p)
<1> DEFINE h == handler[p]
<1>1. h \in Request
  BY AtRequest DEF PostProject, IInv
<1>2. /\ h.org \in OrgIDs /\ h.user \in Registered /\ h.user \in Users
      /\ h.at = "postProject"
  BY <1>1, OrgAssumption DEF Request, PostProject
<1>3. PICK body \in Bodies, call \in {"postAdmin", "putOrg"} :
         LET new == NewOrganization(h.user, body)
         IN  /\ handler' = [handler EXCEPT ![p].at = call, ![p].doc = new]
             /\ brought' = [brought EXCEPT ![h.org] = @ \cup {m.name : m \in body}]
             /\ invited' = [invited EXCEPT ![h.org] = @ \cup {m.name : m \in new.members}]
             /\ granted' = [granted EXCEPT ![h.org] = @ \cup AdminNames(new.members)]
             /\ accepted' = [accepted EXCEPT ![h.org] = @ \cup {h.user}]
  BY DEF PostProject
<1>4. PICK d \in Organization, m \in OrgMember :
         /\ d = NewOrganization(h.user, body) /\ d.members = body \cup {m}
         /\ m.name = h.user /\ m.admin /\ m.status = "joined"
  BY <1>2, NewIs
<1>5. d # NoDoc
  BY OrgAssumption
<1>6. /\ Sound(d.members, brought'[h.org], invited'[h.org] \cap Registered,
               accepted'[h.org], granted'[h.org])
      /\ HasJoinedAdmin(d.members)
  <2>1. /\ {x.name : x \in body} \subseteq brought'[h.org]
        /\ h.user \in invited'[h.org] \cap Registered
        /\ h.user \in accepted'[h.org] /\ AdminNames(d.members) \subseteq granted'[h.org]
    BY <1>2, <1>3, <1>4 DEF IInv, TypeOK
  <2> HIDE DEF h
  <2>2. HasJoinedAdmin(d.members)
    BY <1>4 DEF HasJoinedAdmin, JoinedAdmins
  <2>3. UniqueNames(d.members, brought'[h.org])
    BY <1>4, <2>1 DEF UniqueNames
  <2>4. \A x \in d.members : x.admin => x.name \in granted'[h.org]
    BY <2>1 DEF AdminNames
  <2> QED  BY <1>4, <2>1, <2>2, <2>3, <2>4 DEF Sound
<1>7. [h EXCEPT !.at = call, !.doc = d] \in Request
  BY <1>1 DEF Request, Calls
<1>8. PICK r \in Request : r = [h EXCEPT !.at = call, !.doc = d]
  BY <1>7
<1>9. r.at = call /\ r.op = h.op /\ r.user = h.user /\ r.org = h.org /\ r.doc = d
  BY <1>1, <1>8 DEF Request
<1>10. handler' = [handler EXCEPT ![p] = r]
  BY <1>3, <1>4, <1>8
<1>11. GoodDoc(r.org, r.doc)'
  BY <1>6, <1>9 DEF GoodDoc
<1> QED  BY <1>5, <1>9, <1>10, <1>11 DEF Moves

LEMMA ProfileMoves ==
    ASSUME IInv, NEW p \in Handlers, GetProfile(p)
    PROVE  Moves(p)
<1> DEFINE h == handler[p]
           call == IF h.op = "create" THEN "postProject" ELSE "getOrg"
<1>1. h \in Request /\ h.at = "getProfile" /\ profile[h.user] \in Profile
  BY AtRequest DEF GetProfile, IInv, TypeOK, Request
<1>2. CASE Answer(p)
  BY <1>2, AnswerMoves
<1>3. CASE ~Answer(p)
  <2>1. PICK prof \in Profile :
           handler' = [handler EXCEPT ![p].at = call, ![p].prof = prof]
    BY <1>1, <1>3 DEF GetProfile, Request
  <2>2. h.op = "remove" => h.target # h.user
    BY <1>3 DEF GetProfile, Admitted
  <2>3. [h EXCEPT !.at = call, !.prof = prof] \in Request
    BY <1>1 DEF Request, Calls
  <2>4. PICK r \in Request : r = [h EXCEPT !.at = call, !.prof = prof]
    BY <2>3
  <2>5. /\ r.at = call /\ r.op = h.op /\ r.user = h.user /\ r.org = h.org
        /\ r.doc = h.doc /\ r.target = h.target
    BY <1>1, <2>4 DEF Request
  <2>6. handler' = [handler EXCEPT ![p] = r]
    BY <2>1, <2>4
  <2> QED  BY <1>1, <2>2, <2>5, <2>6 DEF Moves
<1> QED  BY <1>2, <1>3

LEMMA StepMoves ==
    ASSUME IInv, HistoryGrows, NEW p \in Handlers, Step(p)
    PROVE  Moves(p)
<1> DEFINE h == handler[p]
<1> USE DEF At, Calls
<1>0. Loaded /\ TypeOK
  BY DEF IInv
<1>1. CASE GetProfile(p)  BY <1>1, ProfileMoves
<1>2. CASE OrgMissing(p)  BY <1>2, AnswerMoves DEF OrgMissing
<1>3. CASE DecideDelete(p)  BY <1>3, DeleteMoves
<1>4. CASE DecideAccept(p)  BY <1>4, AcceptMoves
<1>5. CASE DecideLeave(p)  BY <1>5, LeaveMoves
<1>6. CASE DecideInvite(p)  BY <1>6, DecideInviteMoves
<1>7. CASE DecideRemove(p)  BY <1>7, RemoveMoves
<1>8. CASE DecidePrivilege(p)  BY <1>8, PrivilegeMoves
<1>9. CASE InviteMember(p)  BY <1>9, InviteMoves
<1>10. CASE PostProject(p)  BY <1>10, CreateMoves
<1>11. CASE CreateRoleBinding(p)
  BY <1>0, <1>11, AtRequest, WentOnMoves DEF CreateRoleBinding
<1>12. CASE UpdateAdminRole(p)
  <2>1. PICK err \in BOOLEAN :
            handler' = [handler EXCEPT ![p].at = "editRole", ![p].err = err]
    BY <1>12 DEF UpdateAdminRole
  <2>2. h \in Request /\ h.at = "adminRole"
    BY <1>0, <1>12, AtRequest DEF UpdateAdminRole
  <2>3. h.prof \in Profile /\ [h EXCEPT !.at = "editRole", !.err = err] =
              [h EXCEPT !.at = "editRole", !.prof = h.prof, !.err = err]
    BY <2>2 DEF Request
  <2>4. handler' = [handler EXCEPT
              ![p] = [handler[p] EXCEPT !.at = "editRole", !.prof = h.prof, !.err = err]]
    BY <2>1, <2>3
  <2> QED  BY <1>0, <2>2, <2>3, <2>4, CallMoves
<1>13. CASE UpdateEditRole(p)
  BY <1>0, <1>13, AtRequest, GoMoves, AnswerMoves DEF UpdateEditRole
<1>14. CASE PutOrg(p)
  BY <1>0, <1>14, AtRequest, WentOnMoves, AnswerMoves DEF PutOrg
<1>15. CASE GetProfileAgain(p)
  <2>1. h \in Request /\ h.at = "getAgain"
    BY <1>0, <1>15, AtRequest DEF GetProfileAgain
  <2>2. PICK prof \in Profile : prof = profile[h.user]
    BY <1>0, <2>1 DEF TypeOK, Request
  <2> QED  BY <1>0, <1>15, <2>1, <2>2, ReloadMoves DEF GetProfileAgain
<1>16. CASE PutProfile(p)
  BY <1>0, <1>16, AtRequest, WentOnMoves, AnswerMoves DEF PutProfile
<1>17. CASE GetMember(p)
  <2>1. h \in Request /\ h.at = "getMember" /\ h.op = "remove"
    BY <1>0, <1>17, AtRequest DEF GetMember
  <2>2. CASE h.target \notin Registered
    BY <1>17, <2>2, AnswerMoves DEF GetMember
  <2>3. CASE h.target \in Registered
    <3>1. PICK prof \in Profile : prof = profile[h.target]
      BY <1>0, <2>3 DEF TypeOK
    <3> QED  BY <1>0, <1>17, <2>1, <2>3, <3>1, ReloadMoves DEF GetMember
  <2> QED  BY <2>2, <2>3
<1>18. CASE PutMember(p)  BY <1>18, AnswerMoves DEF PutMember
<1>19. CASE DeleteProject(p)
  BY <1>0, <1>19, AtRequest, WentOnMoves, AnswerMoves DEF DeleteProject
<1>20. CASE GetCreator(p)
  <2>1. h \in Request /\ h.at = "getCreator" /\ h.doc # NoDoc
    BY <1>0, <1>20, AtRequest DEF GetCreator, Loaded
  <2>2. PICK prof \in Profile : prof = profile[h.doc.createBy]
    BY <1>0, <2>1 DEF TypeOK, Request, Organization
  <2> QED  BY <1>0, <1>20, <2>1, <2>2, ReloadMoves DEF GetCreator
<1>21. CASE PutCreator(p)
  BY <1>0, <1>21, AtRequest, GoMoves DEF PutCreator
<1>22. CASE DeleteOrg(p)  BY <1>22, AnswerMoves DEF DeleteOrg
<1> QED  BY <1>1, <1>2, <1>3, <1>4, <1>5, <1>6, <1>7, <1>8, <1>9, <1>10, <1>11,
            <1>12, <1>13, <1>14, <1>15, <1>16, <1>17, <1>18, <1>19, <1>20, <1>21,
            <1>22 DEF Step
-----------------------------------------------------------------------------
\* Which steps write documents, bindings and the history of invitations.
LEMMA Frame ==
    ASSUME NEW p \in Handlers, Step(p)
    PROVE  /\ orgDoc' = orgDoc \/ PutOrg(p) \/ DeleteOrg(p)
           /\ adminRole' = adminRole \/ UpdateAdminRole(p) \/ DeleteProject(p)
           /\ editRole' = editRole \/ UpdateEditRole(p) \/ DeleteProject(p)
           /\ projects' \subseteq projects \cup {handler[p].org}
           /\ projects \subseteq projects' \/ DeleteProject(p)
           /\ \/ invited' = invited /\ granted' = granted
              \/ PostProject(p) \/ InviteMember(p) \/ DecidePrivilege(p)
           /\ brought' = brought \/ PostProject(p)
           /\ profile' = profile \/ PutProfile(p) \/ PutMember(p) \/ PutCreator(p)
           /\ UNCHANGED arrived
BY DEF Step, GetProfile, OrgMissing, DecideDelete, DecideAccept, DecideLeave,
       DecideInvite, DecideRemove, DecidePrivilege, InviteMember, PostProject,
       CreateRoleBinding, UpdateAdminRole, UpdateEditRole, PutOrg, GetProfileAgain,
       PutProfile, GetMember, PutMember, DeleteProject, GetCreator, PutCreator,
       DeleteOrg, store, arrived, history

LEMMA DocumentsStep ==
    ASSUME IInv, HistoryGrows, NEW p \in Handlers, Step(p)
    PROVE  Documents'
<1> SUFFICES ASSUME NEW o \in OrgIDs, orgDoc'[o] # NoDoc
             PROVE  GoodDoc(o, orgDoc[o])'
  BY DEF Documents
<1>1. CASE orgDoc'[o] = orgDoc[o]
  <2>1. PICK d : d = orgDoc[o]
    OBVIOUS
  <2>2. GoodDoc(o, d)
    BY <1>1, <2>1 DEF IInv, Documents
  <2>3. GoodDoc(o, d)'
    BY <2>2, GoodStays
  <2> QED  BY <1>1, <2>1, <2>3 DEF GoodDoc
<1>2. CASE orgDoc'[o] # orgDoc[o]
  <2>1. /\ handler[p].at = "putOrg" /\ handler[p] \in Request
        /\ o = handler[p].org /\ orgDoc'[o] = handler[p].doc
    BY <1>2, Frame, AtRequest DEF PutOrg, DeleteOrg, IInv, TypeOK
  <2>2. PICK d : d = handler[p].doc
    OBVIOUS
  <2>3. GoodDoc(o, d)
    BY <2>1, <2>2 DEF IInv, Copies, Loaded, Calls, Idle
  <2>4. GoodDoc(o, d)'
    BY <2>3, GoodStays
  <2> QED  BY <2>1, <2>2, <2>4 DEF GoodDoc
<1> QED  BY <1>1, <1>2

\* A binding is given the administrators, or the others, of a good copy.
LEMMA RolesStep ==
    ASSUME IInv, HistoryGrows, NEW p \in Handlers, Step(p)
    PROVE  Roles'
<1> DEFINE h == handler[p]
<1> SUFFICES ASSUME NEW o \in OrgIDs
             PROVE  /\ adminRole'[o] \subseteq granted'[o]
                    /\ editRole'[o] \cup brought'[o] \subseteq invited'[o]
  BY DEF Roles
<1>1. /\ adminRole[o] \subseteq granted'[o]
      /\ editRole[o] \cup brought[o] \subseteq invited'[o]
  BY DEF IInv, Roles, HistoryGrows
<1>2. adminRole'[o] \subseteq granted'[o]
  <2>1. CASE UpdateAdminRole(p)
    <3>1. h \in Request /\ h.doc # NoDoc
      BY <2>1, AtRequest DEF UpdateAdminRole, IInv, Loaded, Calls
    <3>2. AdminNames(h.doc.members) \subseteq granted'[h.org]
      BY <3>1 DEF IInv, Copies, Idle, Request, GoodDoc, Sound, AdminNames, HistoryGrows
    <3>3. adminRole'[o] = adminRole[o] \/ adminRole'[o] = {}
          \/ (o = h.org /\ adminRole'[o] = AdminNames(h.doc.members))
      BY <2>1 DEF UpdateAdminRole, UpdateRole, IInv, TypeOK
    <3> QED  BY <1>1, <3>2, <3>3
  <2>2. CASE DeleteProject(p)
    BY <1>1, <2>2 DEF DeleteProject, IInv, TypeOK
  <2> QED  BY <1>1, <2>1, <2>2, Frame
<1>3. editRole'[o] \subseteq invited'[o]
  <2>1. CASE UpdateEditRole(p)
    <3>1. h \in Request /\ h.doc # NoDoc
      BY <2>1, AtRequest DEF UpdateEditRole, IInv, Loaded, Calls
    <3>2. EditNames(h.doc.members) \subseteq invited'[h.org]
      <4>1. \A m \in h.doc.members : m.name \in brought[h.org] \cup invited[h.org]
        BY <3>1 DEF IInv, Copies, Idle, Request, GoodDoc, Sound
      <4> QED  BY <3>1, <4>1 DEF IInv, Roles, HistoryGrows, EditNames, Request
    <3>3. editRole'[o] = editRole[o] \/ editRole'[o] = {}
          \/ (o = h.org /\ editRole'[o] = EditNames(h.doc.members))
      BY <2>1 DEF UpdateEditRole, UpdateRole, IInv, TypeOK
    <3> QED  BY <1>1, <3>2, <3>3
  <2>2. CASE DeleteProject(p)
    BY <1>1, <2>2 DEF DeleteProject, IInv, TypeOK
  <2> QED  BY <1>1, <2>1, <2>2, Frame
<1>4. brought'[o] \subseteq invited'[o]
  <2>1. CASE PostProject(p)
    <3>1. PICK body \in Bodies :
             LET new == NewOrganization(h.user, body)
             IN  /\ brought' = [brought EXCEPT ![h.org] = @ \cup {m.name : m \in body}]
                 /\ invited' = [invited EXCEPT
                        ![h.org] = @ \cup {m.name : m \in new.members}]
      BY <2>1 DEF PostProject
    <3>2. body \subseteq NewOrganization(h.user, body).members
      BY DEF NewOrganization
    <3>3. o # h.org => brought'[o] = brought[o]
      BY <3>1 DEF IInv, TypeOK
    <3>4. o = h.org => /\ brought'[o] = brought[o] \cup {m.name : m \in body}
                       /\ {m.name : m \in NewOrganization(h.user, body).members}
                             \subseteq invited'[o]
      BY <3>1 DEF IInv, TypeOK
    <3> QED  BY <1>1, <3>2, <3>3, <3>4
  <2> QED  BY <1>1, <2>1, Frame
<1> QED  BY <1>2, <1>3, <1>4

\* What handlers hold after one of them moved.
LEMMA HandlersStep ==
    ASSUME IInv, HistoryGrows, NEW p \in Handlers, Moves(p), handler[p].at # "idle"
    PROVE  Copies' /\ Loaded' /\ Authority' /\ handler' \in [Handlers -> Request \cup {Idle}]
<1>1. handler \in [Handlers -> Request \cup {Idle}]
  BY DEF IInv, TypeOK
<1>2. PICK r \in Request \cup {Idle} :
         /\ handler' = [handler EXCEPT ![p] = r]
         /\ r = Idle \/
            /\ r.op = handler[p].op /\ r.user = handler[p].user /\ r.org = handler[p].org
            /\ r.doc # handler[p].doc => r.doc # NoDoc /\ GoodDoc(r.org, r.doc)'
            /\ r.at \in Calls \ {"getProfile", "postProject", "getOrg"} => r.doc # NoDoc
            /\ r.at = "deleteProject" \/ (r.op = "invite" /\ r.at = "getMember")
                  => r.user \in granted'[r.org]
            /\ r.op = "invite" /\ r.at = "getMember"
                  => ~IsMemberExist(r.doc.members, r.target)
            /\ r.op = "remove" /\ r.at = "getOrg" => r.target # r.user
  BY DEF Moves
<1>3. \A q \in Handlers : handler'[q] = IF q = p THEN r ELSE handler[q]
  BY <1>1, <1>2
<1>4. handler' \in [Handlers -> Request \cup {Idle}]
  BY <1>1, <1>2
<1>5. \A q \in Handlers : handler[q] # Idle => handler[q] \in Request
  BY <1>1
<1>6. handler[p] # Idle
  BY DEF Idle
<1>7. Copies'
  <2> SUFFICES ASSUME NEW q \in Handlers, handler'[q] # Idle, handler'[q].doc # NoDoc
               PROVE  GoodDoc(handler[q].org, handler[q].doc)'
    BY DEF Copies
  <2>1. PICK o, d : o = handler'[q].org /\ d = handler'[q].doc
    OBVIOUS
  <2>2. GoodDoc(o, d)'
    <3>1. CASE q # p \/ r.doc = handler[p].doc
      <4>1. handler[q] # Idle /\ o = handler[q].org /\ d = handler[q].doc
        BY <1>2, <1>3, <1>6, <2>1, <3>1
      <4> QED  BY <1>5, <2>1, <4>1, GoodStays DEF IInv, Copies, Request
    <3>2. CASE q = p /\ r.doc # handler[p].doc
      BY <1>2, <1>3, <2>1, <3>2 DEF GoodDoc
    <3> QED  BY <3>1, <3>2
  <2> QED  BY <2>1, <2>2 DEF GoodDoc
<1>8. Loaded'
  BY <1>2, <1>3 DEF Loaded, IInv, Idle, Calls
<1>9. Authority'
  <2> SUFFICES ASSUME NEW q \in Handlers
               PROVE  /\ At(q, "invite", "getMember")' \/ handler'[q].at = "deleteProject"
                            => handler'[q].user \in granted'[handler'[q].org]
                      /\ At(q, "invite", "getMember")' =>
                            ~IsMemberExist(handler'[q].doc.members, handler'[q].target)
                      /\ At(q, "remove", "getOrg")' => handler'[q].target # handler'[q].user
    BY DEF Authority
  <2>1. CASE q = p
    BY <1>2, <1>3, <2>1 DEF At, Idle
  <2>2. CASE q # p
    <3>1. handler'[q] = handler[q]
      BY <1>3, <2>2
    <3>2. CASE handler[q] = Idle
      BY <3>1, <3>2 DEF At, Idle
    <3>3. CASE handler[q] \in Request
      BY <3>1, <3>3 DEF At, IInv, Authority, HistoryGrows, Request
    <3> QED  BY <1>5, <3>2, <3>3
  <2> QED  BY <2>1, <2>2
<1> QED  BY <1>4, <1>7, <1>8, <1>9

\* Only a handler that serves a request takes a step.
LEMMA StepServes ==
    ASSUME NEW p \in Handlers, Step(p)
    PROVE  handler[p].at # "idle"
<1>1. CASE GetProfile(p)  BY <1>1 DEF GetProfile, Reads, At
<1>2. CASE OrgMissing(p)  BY <1>2 DEF OrgMissing, Reads, At
<1>3. CASE DecideDelete(p)  BY <1>3 DEF DecideDelete, Reads, At
<1>4. CASE DecideAccept(p)  BY <1>4 DEF DecideAccept, Reads, At
<1>5. CASE DecideLeave(p)  BY <1>5 DEF DecideLeave, Reads, At
<1>6. CASE DecideInvite(p)  BY <1>6 DEF DecideInvite, Reads, At
<1>7. CASE DecideRemove(p)  BY <1>7 DEF DecideRemove, Reads, At
<1>8. CASE DecidePrivilege(p)  BY <1>8 DEF DecidePrivilege, Reads, At
<1>9. CASE InviteMember(p)  BY <1>9 DEF InviteMember, Reads, At
<1>10. CASE PostProject(p)  BY <1>10 DEF PostProject, Reads, At
<1>11. CASE CreateRoleBinding(p)  BY <1>11 DEF CreateRoleBinding, Reads, At
<1>12. CASE UpdateAdminRole(p)  BY <1>12 DEF UpdateAdminRole, At
<1>13. CASE UpdateEditRole(p)  BY <1>13 DEF UpdateEditRole, At
<1>14. CASE PutOrg(p)  BY <1>14 DEF PutOrg, Reads, At
<1>15. CASE GetProfileAgain(p)  BY <1>15 DEF GetProfileAgain, Reads, At
<1>16. CASE PutProfile(p)  BY <1>16 DEF PutProfile, Reads, At
<1>17. CASE GetMember(p)  BY <1>17 DEF GetMember, Reads, At
<1>18. CASE PutMember(p)  BY <1>18 DEF PutMember, Reads, At
<1>19. CASE DeleteProject(p)  BY <1>19 DEF DeleteProject, Reads, At
<1>20. CASE GetCreator(p)  BY <1>20 DEF GetCreator, Reads, At
<1>21. CASE PutCreator(p)  BY <1>21 DEF PutCreator, Reads, At
<1>22. CASE DeleteOrg(p)  BY <1>22 DEF DeleteOrg, Reads, At
<1> QED  BY <1>1, <1>2, <1>3, <1>4, <1>5, <1>6, <1>7, <1>8, <1>9, <1>10, <1>11,
        <1>12, <1>13, <1>14, <1>15, <1>16, <1>17, <1>18, <1>19, <1>20, <1>21, <1>22 DEF Step

\* An id is fresh until its creation is decided.
LEMMA FreshStep ==
    ASSUME IInv, HistoryGrows, NEW p \in Handlers, Step(p), Moves(p)
    PROVE  Fresh'
<1> DEFINE h == handler[p]
<1>1. h \in Request /\ h # Idle /\ h.org \in issued /\ h.org \in OrgIDs
  <2>1. h \in Request /\ h.at # "idle"
    BY StepServes, AtRequest DEF IInv
  <2>2. h # Idle
    BY <2>1 DEF Idle
  <2> QED  BY <2>1, <2>2 DEF IInv, Fresh, Request
<1>2. issued' = issued
  BY Frame DEF arrived
<1>3. PICK r \in Request \cup {Idle} :
         /\ handler' = [handler EXCEPT ![p] = r]
         /\ r = Idle \/ /\ r.op = h.op /\ r.org = h.org
                        /\ r.at # "getProfile"
                        /\ r.at = "postProject" => r.op = "create" /\ h.at = "getProfile"
  BY DEF Moves
<1>4. \A q \in Handlers : handler'[q] = IF q = p THEN r ELSE handler[q]
  BY <1>3 DEF IInv, TypeOK
<1>5. \A q \in Handlers : Pending(q)' =>
          /\ Pending(q) /\ handler'[q].org = handler[q].org
          /\ q = p => h.at = "getProfile"
  BY <1>3, <1>4 DEF Pending, Idle
<1>6. \A o \in OrgIDs \ {h.org} : invited'[o] = invited[o] /\ granted'[o] = granted[o]
  <2>1. CASE PostProject(p)  BY <2>1 DEF PostProject, IInv, TypeOK
  <2>2. CASE InviteMember(p)  BY <2>2 DEF InviteMember, IInv, TypeOK
  <2>3. CASE DecidePrivilege(p)  BY <2>3 DEF DecidePrivilege, IInv, TypeOK
  <2> QED  BY <2>1, <2>2, <2>3, Frame
<1>7. \/ invited' = invited /\ granted' = granted
      \/ h.at = "postProject"
      \/ granted[h.org] # {}
  <2>1. CASE InviteMember(p)
    BY <2>1 DEF InviteMember, IInv, Authority
  <2>2. CASE DecidePrivilege(p)
    <3>1. Reads(p, "privileged")
      BY <2>2 DEF DecidePrivilege
    <3>2. CASE IsAdmin(Members(p), h.user)
      BY <3>1, <3>2, ReadStays
    <3>3. CASE ~IsAdmin(Members(p), h.user)
      BY <2>2, <3>3 DEF DecidePrivilege
    <3> QED  BY <3>2, <3>3
  <2> QED  BY <2>1, <2>2, Frame DEF PostProject
<1>8. \A q \in Handlers : Pending(q)' =>
          invited'[handler'[q].org] = {} /\ granted'[handler'[q].org] = {}
  <2> SUFFICES ASSUME NEW q \in Handlers, Pending(q)'
               PROVE  invited'[handler[q].org] = {} /\ granted'[handler[q].org] = {}
    BY <1>5
  <2>1. /\ Pending(q) /\ invited[handler[q].org] = {} /\ granted[handler[q].org] = {}
        /\ handler[q].org \in OrgIDs
    BY <1>5 DEF IInv, Fresh, Pending, TypeOK, Idle, Request
  <2>2. CASE handler[q].org # h.org
    BY <1>6, <2>1, <2>2
  <2>3. CASE handler[q].org = h.org /\ h.at = "postProject"
    <3>1. Pending(p)
      BY <2>3 DEF Pending, IInv, Fresh
    <3>2. q = p
      BY <2>1, <2>3, <3>1 DEF IInv, Fresh
    <3> QED  BY <1>5, <2>3, <3>2
  <2> QED  BY <1>7, <2>1, <2>2, <2>3
<1>9. \A o \in OrgIDs \ issued' : invited'[o] = {} /\ granted'[o] = {}
  BY <1>1, <1>2, <1>6 DEF IInv, Fresh
<1>10. \A q \in Handlers : handler'[q] # Idle => handler'[q].org \in issued'
  BY <1>1, <1>2, <1>3, <1>4 DEF IInv, Fresh
<1>11. \A q, s \in Handlers : Pending(q)' /\ Pending(s)' /\ q # s
          => handler'[q].org # handler'[s].org
  BY <1>5 DEF IInv, Fresh
<1>12. \A q \in Handlers : handler'[q].at = "postProject" => handler'[q].op = "create"
  BY <1>3, <1>4 DEF IInv, Fresh, Idle
<1> QED  BY <1>8, <1>9, <1>10, <1>11, <1>12 DEF Fresh

\* What the operations make of a profile is a profile.
LEMMA ProfileTypes ==
    ASSUME NEW prof \in Profile, NEW o \in OrgIDs
    PROVE  /\ DropOrg(prof, o) \in Profile
           /\ AddOrg(prof, o) \in Profile
           /\ [prof EXCEPT !.orgs[o] = @ + 1, !.used = @ + 1] \in Profile
           /\ [prof EXCEPT !.used = @ - 1] \in Profile
<1>1. prof.orgs \in [OrgIDs -> Nat] /\ prof.orgs[o] \in Nat /\ prof.used \in Int
  BY DEF Profile
<1>2. \A n \in Nat : [prof.orgs EXCEPT ![o] = n] \in [OrgIDs -> Nat]
  BY <1>1
<1>3. \A f \in [OrgIDs -> Nat] : [prof EXCEPT !.orgs = f] \in Profile
  BY <1>1 DEF Profile
<1>4. \A f \in [OrgIDs -> Nat], i \in Int : [prof EXCEPT !.orgs = f, !.used = i] \in Profile
  BY <1>1 DEF Profile
<1>5. DropOrg(prof, o) \in Profile
  <2>1. (IF prof.orgs[o] > 0 THEN prof.orgs[o] - 1 ELSE prof.orgs[o]) \in Nat
    BY <1>1
  <2>2. PICK n \in Nat : n = IF prof.orgs[o] > 0 THEN prof.orgs[o] - 1 ELSE prof.orgs[o]
    BY <2>1
  <2>3. DropOrg(prof, o) = [prof EXCEPT !.orgs = [prof.orgs EXCEPT ![o] = n]]
    BY <2>2 DEF DropOrg
  <2> QED  BY <1>2, <1>3, <2>3
<1>6. AddOrg(prof, o) \in Profile
  <2>1. (IF prof.orgs[o] > 0 THEN prof.orgs[o] ELSE 1) \in Nat
    BY <1>1
  <2>2. PICK n \in Nat : n = IF prof.orgs[o] > 0 THEN prof.orgs[o] ELSE 1
    BY <2>1
  <2>3. AddOrg(prof, o) = [prof EXCEPT !.orgs = [prof.orgs EXCEPT ![o] = n]]
    BY <2>2 DEF AddOrg
  <2> QED  BY <1>2, <1>3, <2>3
<1>7. [prof EXCEPT !.orgs[o] = @ + 1, !.used = @ + 1] \in Profile
  <2>1. PICK n \in Nat, i \in Int : n = prof.orgs[o] + 1 /\ i = prof.used + 1
    BY <1>1
  <2>2. [prof EXCEPT !.orgs[o] = @ + 1, !.used = @ + 1]
           = [prof EXCEPT !.orgs = [prof.orgs EXCEPT ![o] = n], !.used = i]
    BY <2>1
  <2> QED  BY <1>2, <1>4, <2>2
<1>8. [prof EXCEPT !.used = @ - 1] \in Profile
  BY <1>1 DEF Profile
<1> QED  BY <1>5, <1>6, <1>7, <1>8

\* Everything but the handlers keeps its type.
OtherTypes ==
    /\ profile \in [Registered -> Profile]
    /\ orgDoc \in [OrgIDs -> Organization \cup {NoDoc}]
    /\ projects \subseteq OrgIDs
    /\ adminRole \in [OrgIDs -> SUBSET Users]
    /\ editRole \in [OrgIDs -> SUBSET Users]
    /\ faults \in 0 .. MaxFaults
    /\ issued \subseteq OrgIDs
    /\ requests \in 0 .. MaxRequests
    /\ brought \in [OrgIDs -> SUBSET Users]
    /\ invited \in [OrgIDs -> SUBSET Users]
    /\ accepted \in [OrgIDs -> SUBSET Users]
    /\ granted \in [OrgIDs -> SUBSET Users]
    /\ orphaned \subseteq OrgIDs

LEMMA TypesStep ==
    ASSUME IInv, NEW p \in Handlers, Step(p), handler[p].at # "idle"
    PROVE  OtherTypes'
<1> DEFINE h == handler[p]
<1> USE DEF OtherTypes, store, arrived, history, Answer, WentOnTo, NoFault, Fault
<1>1. h \in Request /\ OtherTypes
  BY AtRequest DEF IInv, TypeOK
<1>2. /\ h.org \in OrgIDs /\ h.user \in Registered /\ h.target \in Users
      /\ h.flag \in BOOLEAN /\ h.prof \in Profile /\ h.user \in Users
      /\ h.doc \in Organization \cup {NoDoc}
  BY <1>1, OrgAssumption DEF Request
<1>3. faults + 1 \in 0 .. MaxFaults \/ ~(faults < MaxFaults)
  BY <1>1, OrgAssumption
<1>4. CallerProfile(h) \in Profile /\ [h.prof EXCEPT !.used = @ - 1] \in Profile
      /\ DropOrg(h.prof, h.org) \in Profile
  BY <1>2, ProfileTypes DEF CallerProfile
<1>5. h.doc # NoDoc => /\ AdminNames(h.doc.members) \subseteq Users
                       /\ EditNames(h.doc.members) \subseteq Users
  BY <1>2 DEF AdminNames, EditNames, Organization, OrgMember
<1>6. h.at \in {"adminRole", "editRole", "putOrg"} => h.doc # NoDoc
  BY DEF IInv, Loaded, Calls
<1> HIDE DEF h
<1>7. CASE GetProfile(p)
  BY <1>1, <1>2, <1>7 DEF GetProfile, h
<1>8. CASE OrgMissing(p)
  BY <1>1, <1>2, <1>8 DEF OrgMissing, h
<1>9. CASE DecideDelete(p)
  BY <1>1, <1>2, <1>9 DEF DecideDelete, h
<1>10. CASE DecideAccept(p)
  BY <1>1, <1>2, <1>10 DEF DecideAccept, h
<1>11. CASE DecideLeave(p)
  BY <1>1, <1>2, <1>11 DEF DecideLeave, h
<1>12. CASE DecideInvite(p)
  BY <1>1, <1>2, <1>12 DEF DecideInvite, h
<1>13. CASE DecideRemove(p)
  BY <1>1, <1>2, <1>13 DEF DecideRemove, h
<1>14. CASE DecidePrivilege(p)
  BY <1>1, <1>2, <1>14 DEF DecidePrivilege, h
<1>15. CASE InviteMember(p)
  BY <1>1, <1>2, <1>15 DEF InviteMember, h
<1>16. CASE PostProject(p)
  <2>1. PICK body \in Bodies :
           LET new == NewOrganization(h.user, body)
           IN  /\ brought' = [brought EXCEPT ![h.org] = @ \cup {m.name : m \in body}]
               /\ invited' = [invited EXCEPT
                      ![h.org] = @ \cup {m.name : m \in new.members}]
               /\ granted' = [granted EXCEPT ![h.org] = @ \cup AdminNames(new.members)]
    BY <1>16 DEF PostProject, h
  <2>2. PICK d \in Organization : d = NewOrganization(h.user, body)
    BY <1>2, NewIs
  <2>3. /\ {m.name : m \in body} \subseteq Users /\ {m.name : m \in d.members} \subseteq Users
        /\ AdminNames(d.members) \subseteq Users
    BY OrgAssumption DEF Organization, OrgMember, AdminNames
  <2>4. /\ brought' \in [OrgIDs -> SUBSET Users] /\ invited' \in [OrgIDs -> SUBSET Users]
        /\ granted' \in [OrgIDs -> SUBSET Users]
    BY <1>1, <1>2, <2>1, <2>2, <2>3
  <2>5. faults' \in 0 .. MaxFaults
    BY <1>1, <1>3, <1>16 DEF PostProject
  <2>6. /\ profile' = profile /\ orgDoc' = orgDoc /\ adminRole' = adminRole
        /\ editRole' = editRole /\ issued' = issued /\ requests' = requests
        /\ orphaned' = orphaned
        /\ accepted' = [accepted EXCEPT ![h.org] = @ \cup {h.user}]
        /\ projects' \in {projects, projects \cup {h.org}}
    BY <1>16 DEF PostProject, h
  <2> QED  BY <1>1, <1>2, <2>4, <2>5, <2>6
<1>17. CASE CreateRoleBinding(p)
  BY <1>1, <1>2, <1>3, <1>6, <1>17 DEF CreateRoleBinding, h
<1>18. CASE UpdateAdminRole(p)
  BY <1>1, <1>2, <1>3, <1>5, <1>6, <1>18 DEF UpdateAdminRole, UpdateRole, h
<1>19. CASE UpdateEditRole(p)
  BY <1>1, <1>2, <1>3, <1>5, <1>6, <1>19 DEF UpdateEditRole, UpdateRole, h
<1>20. CASE PutOrg(p)
  BY <1>1, <1>2, <1>3, <1>6, <1>20 DEF PutOrg, h
<1>21. CASE GetProfileAgain(p)
  BY <1>1, <1>2, <1>21 DEF GetProfileAgain, h
<1>22. CASE PutProfile(p)
  BY <1>1, <1>2, <1>3, <1>4, <1>22 DEF PutProfile, h
<1>23. CASE GetMember(p)
  BY <1>1, <1>2, <1>23 DEF GetMember, h
<1>24. CASE PutMember(p)
  BY <1>1, <1>2, <1>3, <1>4, <1>24 DEF PutMember, h
<1>25. CASE DeleteProject(p)
  BY <1>1, <1>2, <1>3, <1>6, <1>25 DEF DeleteProject, h
<1>26. CASE GetCreator(p)
  BY <1>1, <1>2, <1>26 DEF GetCreator, h
<1>27. CASE PutCreator(p)
  BY <1>1, <1>2, <1>3, <1>4, <1>27 DEF PutCreator, h
<1>28. CASE DeleteOrg(p)
  BY <1>1, <1>2, <1>3, <1>6, <1>28 DEF DeleteOrg, h
<1> QED  BY <1>7, <1>8, <1>9, <1>10, <1>11, <1>12, <1>13, <1>14, <1>15, <1>16, <1>17,
            <1>18, <1>19, <1>20, <1>21, <1>22, <1>23, <1>24, <1>25, <1>26, <1>27,
            <1>28 DEF Step

\* Only a handler at a call takes a step.
LEMMA StepActive ==
    ASSUME NEW p \in Handlers, Step(p)
    PROVE  handler[p].at # "idle"
BY DEF Step, GetProfile, OrgMissing, DecideDelete, DecideAccept, DecideLeave,
       DecideInvite, DecideRemove, DecidePrivilege, InviteMember, PostProject,
       CreateRoleBinding, UpdateAdminRole, UpdateEditRole, PutOrg, GetProfileAgain,
       PutProfile, GetMember, PutMember, DeleteProject, GetCreator, PutCreator,
       DeleteOrg, Reads, At

\* The parts of the invariant that only speak of what is stored.
LEMMA StoredStays ==
    ASSUME IInv, HistoryGrows, UNCHANGED store, UNCHANGED history
    PROVE  Documents' /\ Roles'
<1>1. orgDoc' = orgDoc /\ adminRole' = adminRole /\ editRole' = editRole
  BY DEF store
<1>2. Documents'
  <2> SUFFICES ASSUME NEW o \in OrgIDs, orgDoc[o] # NoDoc
               PROVE  GoodDoc(o, orgDoc[o])'
    BY <1>1 DEF Documents
  <2>1. PICK d : d = orgDoc[o]
    OBVIOUS
  <2>2. GoodDoc(o, d)'
    BY <2>1, GoodStays DEF IInv, Documents
  <2> QED  BY <1>1, <2>1, <2>2 DEF GoodDoc
<1>3. Roles'
  <2> SUFFICES ASSUME NEW o \in OrgIDs
               PROVE  /\ adminRole[o] \subseteq granted'[o]
                      /\ editRole[o] \cup brought'[o] \subseteq invited'[o]
    BY <1>1 DEF Roles
  <2> QED  BY DEF IInv, Roles, HistoryGrows, history
<1> QED  BY <1>2, <1>3

LEMMA InitIInv == Init => IInv
<1> SUFFICES ASSUME Init PROVE IInv
  OBVIOUS
<1>1. TypeOK
  BY OrgAssumption DEF Init, TypeOK, NoOne
<1> QED  BY <1>1 DEF Init, IInv, Documents, Copies, Roles, Loaded, Authority, Fresh,
            Pending, At, Idle, NoOne, Calls

LEMMA NextIInv == IInv /\ [Next]_vars => IInv'
<1> SUFFICES ASSUME IInv, [Next]_vars PROVE IInv'
  OBVIOUS
<1>1. HistoryGrows
  BY Growth DEF IInv
<1>2. CASE UNCHANGED vars
  BY <1>2 DEF IInv, vars, store, arrived, history, TypeOK, Documents, Copies, Roles,
     Loaded, Authority, Fresh, GoodDoc, Pending, At
<1>3. CASE Restart
  <2>1. handler' = [p \in Handlers |-> Idle] /\ UNCHANGED <<store, arrived, history>>
    BY <1>3 DEF Restart
  <2>2. TypeOK'
    BY <1>3, <2>1, OrgAssumption DEF IInv, TypeOK, Restart, Fault, store, arrived, history
  <2>3. Copies' /\ Loaded' /\ Authority' /\ Fresh'
    BY <2>1 DEF IInv, Copies, Loaded, Authority, Fresh, Pending, At, Idle, Calls,
       arrived, history
  <2> QED  BY <1>1, <2>1, <2>2, <2>3, StoredStays DEF IInv
<1>4. ASSUME NEW p \in Handlers, Receive(p) PROVE IInv'
  <2>1. PICK r \in Request :
           /\ handler' = [handler EXCEPT ![p] = r]
           /\ r.at = "getProfile" /\ r.doc = NoDoc /\ issued' = issued \cup {r.org}
           /\ r.op = "create" => r.org \notin issued
    <3>1. PICK op \in Operations, u \in Registered, o \in OrgIDs, t \in Users,
               flag \in BOOLEAN :
             /\ op \notin {"invite", "remove", "privileged"} => t = u
             /\ op \notin {"invite", "privileged"} => ~flag
             /\ IF op = "create" THEN o \notin issued ELSE o \in issued
             /\ op = "accept" /\ ~AnyoneAccepts =>
                   orgDoc[o] # NoDoc /\ IsMemberExist(orgDoc[o].members, u)
             /\ issued' = issued \cup {o}
             /\ handler' = [handler EXCEPT ![p] = NewRequest(op, u, o, t, flag)]
      BY <1>4, Zenon DEF Receive
    <3>2. PICK r : r = NewRequest(op, u, o, t, flag)
      OBVIOUS
    <3>3. r \in Request /\ r.at = "getProfile" /\ r.doc = NoDoc /\ r.op = op /\ r.org = o
      BY <3>2, OrgAssumption DEF NewRequest, Request, Calls
    <3> QED  BY <3>1, <3>2, <3>3
  <2>2. /\ UNCHANGED <<store, history>> /\ faults' = faults
        /\ requests < MaxRequests /\ requests' = requests + 1
    BY <1>4 DEF Receive
  <2>3. \A q \in Handlers : handler'[q] = IF q = p THEN r ELSE handler[q]
    BY <2>1 DEF IInv, TypeOK
  <2>4. TypeOK'
    <3>1. requests' \in 0 .. MaxRequests
      BY <2>2, OrgAssumption DEF IInv, TypeOK
    <3>2. issued' \subseteq OrgIDs
      BY <2>1 DEF IInv, TypeOK, Request
    <3> QED  BY <2>1, <2>2, <3>1, <3>2 DEF IInv, TypeOK, store, history
  <2>5. Copies'
    BY <2>1, <2>2, <2>3 DEF IInv, Copies, GoodDoc, history
  <2>6. Loaded' /\ Authority'
    BY <2>1, <2>2, <2>3 DEF IInv, Loaded, Authority, At, history
  <2>7. Fresh'
    <3>1. invited' = invited /\ granted' = granted
      BY <2>2 DEF history
    <3>2. \A q \in Handlers : Pending(q)' =>
             (q # p /\ Pending(q)) \/ (q = p /\ r.org \notin issued)
      BY <2>1, <2>3 DEF Pending
    <3>3. r.org \in OrgIDs
      BY DEF Request
    <3>4. \A q \in Handlers : Pending(q) => handler[q] # Idle
      BY DEF Pending, Idle
    <3> QED  BY <2>1, <2>3, <3>1, <3>2, <3>3, <3>4 DEF IInv, Fresh
  <2> QED  BY <1>1, <2>2, <2>4, <2>5, <2>6, <2>7, StoredStays DEF IInv
<1>5. ASSUME NEW p \in Handlers, CallFails(p) PROVE IInv'
  <2>1. /\ handler[p].at # "idle" /\ Answer(p) /\ UNCHANGED <<store, arrived, history>>
        /\ faults < MaxFaults /\ faults' = faults + 1
    BY <1>5 DEF CallFails, Calls, Fault
  <2>2. Copies' /\ Loaded' /\ Authority' /\ handler' \in [Handlers -> Request \cup {Idle}]
    BY <1>1, <2>1, AnswerMoves, HandlersStep
  <2>3. TypeOK'
    BY <2>1, <2>2, OrgAssumption DEF IInv, TypeOK, store, arrived, history
  <2>4. Fresh'
    <3>1. \A q \in Handlers : handler'[q] = IF q = p THEN Idle ELSE handler[q]
      BY <2>1 DEF Answer, IInv, TypeOK
    <3> QED  BY <2>1, <3>1 DEF IInv, Fresh, Pending, Idle, arrived, history
  <2> QED  BY <1>1, <2>1, <2>2, <2>3, <2>4, StoredStays DEF IInv
<1>6. ASSUME NEW p \in Handlers, Step(p) PROVE IInv'
  <2>1. Moves(p) /\ handler[p].at # "idle"
    BY <1>1, <1>6, StepMoves, StepActive
  <2>2. Copies' /\ Loaded' /\ Authority' /\ handler' \in [Handlers -> Request \cup {Idle}]
    BY <1>1, <2>1, HandlersStep
  <2>3. TypeOK'
    BY <1>6, <2>1, <2>2, TypesStep DEF OtherTypes, TypeOK
  <2> QED  BY <1>1, <1>6, <2>1, <2>2, <2>3, DocumentsStep, RolesStep, FreshStep DEF IInv
<1> QED  BY <1>2, <1>3, <1>4, <1>5, <1>6 DEF Next
-----------------------------------------------------------------------------
\* The inductive invariant holds in every reachable state.
THEOREM Inductive == Spec => []IInv
BY InitIInv, NextIInv, PTL DEF Spec

\* The variables keep their types.
THEOREM TypeCorrect == Spec => []TypeOK
<1>1. IInv => TypeOK
  BY DEF IInv
<1> QED  BY <1>1, Inductive, PTL

\* No interleaving of reads and whole-document writes lists a user twice
\* whom the creation request did not list.
THEOREM MembersUnique == Spec => []UniqueMembers
<1>1. IInv => UniqueMembers
  BY DEF IInv, Documents, UniqueMembers, Existing, GoodDoc, Sound
<1> QED  BY <1>1, Inductive, PTL

\* Nobody but those the creation request listed becomes a member uninvited,
\* nor joined without accepting.
THEOREM MembershipEarned == Spec => []MembershipIsEarned
<1>1. IInv => MembershipIsEarned
  BY DEF IInv, Documents, MembershipIsEarned, Existing, GoodDoc, Sound
<1> QED  BY <1>1, Inductive, PTL

\* Nobody holds an administrator's flag or binding without a grant.
THEOREM AdminsGranted == Spec => []AdminsWereGranted
<1>1. IInv => AdminsWereGranted
  BY DEF IInv, Documents, Roles, AdminsWereGranted, Existing, GoodDoc, Sound, AdminNames
<1> QED  BY <1>1, Inductive, PTL

\* An organization loses its last joined administrator in two ways only.
THEOREM LastAdminGuarded == Spec => []OnlyOrphanedLackAdmin
<1>1. IInv => OnlyOrphanedLackAdmin
  BY DEF IInv, Documents, OnlyOrphanedLackAdmin, Existing, GoodDoc
<1> QED  BY <1>1, Inductive, PTL

\* Authority comes from an administrator: the action property, from the
\* invariant before the step.
THEOREM AuthorityFromAdmins == Spec => AuthorityChain
<1>1. IInv /\ [Next]_vars => [AuthorityStep]_vars
  <2> SUFFICES ASSUME IInv, Next, NEW o \in OrgIDs,
                      \/ invited'[o] # invited[o] /\ invited[o] # {}
                      \/ granted'[o] # granted[o] /\ granted[o] # {}
                      \/ o \in projects /\ o \notin projects'
               PROVE  \E p \in Handlers : /\ handler[p] # Idle /\ handler[p].org = o
                                         /\ handler[p].user \in granted[o]
    BY DEF AuthorityStep
  <2>1. PICK p \in Handlers : Step(p)
    BY DEF Next, Restart, Receive, CallFails, store, history
  <2>2. handler[p].at # "idle" /\ handler[p] # Idle
    BY <2>1, StepActive DEF Idle
  <2>3. CASE PostProject(p)
    <3>1. invited[handler[p].org] = {} /\ granted[handler[p].org] = {}
      BY <2>3 DEF PostProject, IInv, Fresh, Pending
    <3>2. projects \subseteq projects'
      BY <2>3 DEF PostProject
    <3> QED  BY <2>3, <3>1, <3>2 DEF PostProject, IInv, TypeOK
  <2>4. CASE InviteMember(p)
    BY <2>2, <2>4 DEF InviteMember, IInv, Authority, TypeOK, store
  <2>5. CASE DecidePrivilege(p)
    <3>1. Reads(p, "privileged") /\ handler[p].org = o /\ IsAdmin(Members(p), handler[p].user)
      BY <2>5 DEF DecidePrivilege, IInv, TypeOK, store
    <3> QED  BY <2>2, <3>1, ReadsGood, AdminGranted DEF Members
  <2>6. CASE DeleteProject(p)
    BY <2>2, <2>6 DEF DeleteProject, IInv, Authority, TypeOK, history
  <2> QED  BY <2>1, <2>3, <2>4, <2>5, <2>6, Frame
<1> QED  BY <1>1, Inductive, PTL DEF Spec, AuthorityChain
=============================================================================
