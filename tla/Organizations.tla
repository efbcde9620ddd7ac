--------------------------- MODULE Organizations ----------------------------
(***************************************************************************)
(* The organization API of datafoundry_proxy (organization.go, user.go):   *)
(* create, delete, accept, leave, invite, remove, privileged.              *)
(*                                                                         *)
(* net/http runs every request in a goroutine of its own.  A handler       *)
(* copies a profile and an organization document out of etcd, decides on   *)
(* those copies, and writes whole values back with a plain Set: no lock,   *)
(* no transaction, no compare-and-swap.  OpenShift holds the project of an *)
(* organization and its two role bindings.  One step below is one call to  *)
(* etcd or to OpenShift together with the local work up to the next call.  *)
(* Any call may fail, and the process may die, MaxFaults times in all.     *)
(***************************************************************************)
EXTENDS OrgMembers, Integers, FiniteSets

CONSTANTS
    Registered,     \* users that signed up
    OrgIDs,         \* organization identifiers
    NameOf,         \* the organization name a creation request for the id asks for
    Handlers,       \* the goroutines net/http starts
    MaxFaults,      \* bound: failed calls plus process deaths in a behaviour
    MaxRequests,    \* bound: requests received in a behaviour
    OrgLimit,       \* the 9999999 of CreateOrg
    Bodies,         \* the member lists creation requests carry in their bodies
    FirstProfile,   \* what a user's sign-up wrote, as far as it matters here
    AnyoneAccepts,  \* clients may "accept" an organization that never invited them
    NoDoc           \* no document under organizations/<id>

Organization == [createBy : Registered, members : SUBSET OrgMember]
\* OrgList, as the number of times it names an organization, and OrgUsed.
Profile == [orgs : [OrgIDs -> Nat], used : Int]
Operations ==
    {"create", "delete", "accept", "leave", "invite", "remove", "privileged"}
Calls == {"getProfile", "getOrg", "getMember", "postProject", "postAdmin",
          "postEdit", "deleteProject", "adminRole", "editRole", "putOrg",
          "getAgain", "putProfile", "putMember", "getCreator", "putCreator",
          "deleteOrg"}

ASSUME OrgAssumption ==
    /\ Registered \subseteq Users
    /\ MaxFaults \in Nat
    /\ MaxRequests \in Nat
    /\ OrgLimit \in Nat \ {0}
    /\ AnyoneAccepts \in BOOLEAN
    /\ Bodies \subseteq SUBSET OrgMember
    /\ \A body \in Bodies : IsFiniteSet(body)
    /\ \A body \in Bodies : \A m, n \in body :     \* numbered from 0
          /\ m.nth < Cardinality(EntriesOf(body, m.name))
          /\ m.name = n.name /\ m.nth = n.nth => m = n
    /\ FirstProfile \in [Registered -> Profile]
    /\ NoDoc \notin Organization

VARIABLES
    profile,    \* etcd users/<u>/profile: OrgList and Status.Quota.OrgUsed
    orgDoc,     \* etcd organizations/<id>
    projects,   \* OpenShift: the projects that exist
    adminRole,  \* OpenShift: the subjects of role binding admin-<creator>
    editRole,   \* OpenShift: the subjects of role binding edit-<creator>
    handler,    \* what each goroutine is about to call, and its copies
    faults,     \* faults so far
    issued,     \* ids generatedOrgName has returned
    requests,   \* requests so far
    \* History of the decisions handlers took; no handler reads these.
    brought,    \* who the request that created the organization listed
    invited,    \* who was put on a member list, by a creation or an invite
    accepted,   \* who became a joined member, by a creation or an accept
    granted,    \* who was given the admin flag, and by what
    orphaned    \* where an admin that had not joined removed a member, or
                \* a member with several entries left

store   == <<profile, orgDoc, projects, adminRole, editRole>>
history == <<brought, invited, accepted, granted, orphaned>>
arrived == <<issued, requests>>
vars    == <<store, handler, faults, arrived, history>>

Idle == [at |-> "idle"]

\* A request being served: the next call, its parameters, the UserInfo and
\* the Orgnazition the handler holds, and the error UpdateRoleBinding keeps.
Request == [at : Calls, op : Operations, user : Registered, org : OrgIDs,
            target : Users, flag : BOOLEAN, prof : Profile,
            doc : Organization \cup {NoDoc}, err : BOOLEAN]

TypeOK ==
    /\ profile \in [Registered -> Profile]
    /\ orgDoc \in [OrgIDs -> Organization \cup {NoDoc}]
    /\ projects \subseteq OrgIDs
    /\ adminRole \in [OrgIDs -> SUBSET Users]
    /\ editRole \in [OrgIDs -> SUBSET Users]
    /\ handler \in [Handlers -> Request \cup {Idle}]
    /\ faults \in 0 .. MaxFaults
    /\ issued \subseteq OrgIDs
    /\ requests \in 0 .. MaxRequests
    /\ brought \in [OrgIDs -> SUBSET Users]
    /\ invited \in [OrgIDs -> SUBSET Users]
    /\ accepted \in [OrgIDs -> SUBSET Users]
    /\ granted \in [OrgIDs -> SUBSET Users]
    /\ orphaned \subseteq OrgIDs

NoOne == [o \in OrgIDs |-> {}]

\* AddToEtcd resets other fields: OrgList and OrgUsed stay as the body of the
\* sign-up request had them.
Init ==
    /\ profile = FirstProfile
    /\ orgDoc = [o \in OrgIDs |-> NoDoc]
    /\ projects = {} /\ adminRole = NoOne /\ editRole = NoOne
    /\ handler = [p \in Handlers |-> Idle]
    /\ faults = 0 /\ issued = {} /\ requests = 0
    /\ brought = NoOne /\ invited = NoOne /\ accepted = NoOne /\ granted = NoOne
    /\ orphaned = {}
-----------------------------------------------------------------------------
\* The handler goes on to its next call, with these copies; or it answers.
Go(p, call) == handler' = [handler EXCEPT ![p].at = call]
Answer(p)   == handler' = [handler EXCEPT ![p] = Idle]

NoFault == UNCHANGED faults
Fault   == faults < MaxFaults /\ faults' = faults + 1

\* A write took effect; its answer comes back, or is lost and the handler
\* takes it for an error and stops.
WentOnTo(p, call) == (Go(p, call) /\ NoFault) \/ (Answer(p) /\ Fault)

At(p, op, call) == handler[p].at = call /\ handler[p].op = op

NewRequest(op, u, o, t, flag) ==
    [at |-> "getProfile", op |-> op, user |-> u, org |-> o, target |-> t,
     flag |-> flag, prof |-> FirstProfile[u], doc |-> NoDoc, err |-> FALSE]

\* A request arrives.  ManageOrganization and the two handlers it forwards
\* to each start by reading the caller's profile; the first of these reads
\* only decides whether to go on.  Which organization id a creation gets is
\* chosen here; generatedOrgName never returns one id twice.
Receive(p) ==
    /\ handler[p] = Idle
    /\ requests < MaxRequests /\ requests' = requests + 1
    /\ \E op \in Operations, u \in Registered, o \in OrgIDs,
          t \in Users, flag \in BOOLEAN :
        /\ op \notin {"invite", "remove", "privileged"} => t = u
        /\ op \notin {"invite", "privileged"} => ~flag
        /\ IF op = "create" THEN o \notin issued ELSE o \in issued
        /\ op = "accept" /\ ~AnyoneAccepts =>
              orgDoc[o] # NoDoc /\ IsMemberExist(orgDoc[o].members, u)
        /\ issued' = issued \cup {o}
        /\ handler' = [handler EXCEPT ![p] = NewRequest(op, u, o, t, flag)]
    /\ UNCHANGED <<store, faults, history>>

\* CheckIfOrgExistByID, DeleteOrgFromList (the first entry) and AddOrgToList.
Lists(prof, o) == prof.orgs[o] > 0
DropOrg(prof, o) == [prof EXCEPT !.orgs[o] = IF @ > 0 THEN @ - 1 ELSE @]
AddOrg(prof, o)  == [prof EXCEPT !.orgs[o] = IF @ > 0 THEN @ ELSE 1]

\* The checks between reading the caller's profile and the next call.
Admitted(r, prof) ==
    CASE r.op = "create" ->
            /\ \A o \in OrgIDs : Lists(prof, o) => NameOf[o] # NameOf[r.org]
            /\ prof.used < OrgLimit
      [] r.op = "accept" -> TRUE
      [] r.op = "remove" -> Lists(prof, r.org) /\ r.target # r.user
      [] OTHER -> Lists(prof, r.org)

GetProfile(p) ==
    LET r    == handler[p]
        prof == profile[r.user]
    IN  /\ r.at = "getProfile"
        /\ IF Admitted(r, prof)
           THEN handler' = [handler EXCEPT
                    ![p].at = IF r.op = "create" THEN "postProject" ELSE "getOrg",
                    ![p].prof = IF r.op \in {"create", "delete", "leave"}
                                THEN prof ELSE @]
           ELSE Answer(p)
        /\ UNCHANGED <<store, faults, arrived, history>>
-----------------------------------------------------------------------------
\* CreateOrg and CreateProject.  A transport error of the project request
\* is shadowed and read as success, whether the request was served or not; a
\* bad status ends the handler.  The two bindings are created without subjects.
\* The creator's entry is appended to the list decoded from the body.
NewOrganization(u, body) ==
    [createBy |-> u,
     members |-> body \cup {[name |-> u, admin |-> TRUE, status |-> "joined",
                             nth |-> Cardinality(EntriesOf(body, u))]}]

PostProject(p) ==
    LET r == handler[p]
    IN  /\ r.at = "postProject"
        /\ \E body \in Bodies :
              LET new   == NewOrganization(r.user, body)
                  names == {m.name : m \in new.members}
              IN  /\ \/ /\ projects' = projects \cup {r.org}
                        /\ handler' = [handler EXCEPT ![p].at = "postAdmin",
                                                      ![p].doc = new]
                        /\ NoFault
                     \/ /\ projects' \in {projects, projects \cup {r.org}}
                        /\ handler' = [handler EXCEPT ![p].at = "putOrg",
                                                      ![p].doc = new]
                        /\ Fault
                  /\ brought' = [brought EXCEPT ![r.org] =
                         @ \cup {m.name : m \in body}]
                  /\ invited' = [invited EXCEPT ![r.org] = @ \cup names]
                  /\ granted' = [granted EXCEPT ![r.org] =
                         @ \cup AdminNames(new.members)]
        /\ accepted' = [accepted EXCEPT ![r.org] = @ \cup {r.user}]
        /\ UNCHANGED <<profile, orgDoc, adminRole, editRole, arrived, orphaned>>

CreateRoleBinding(p) ==
    /\ \/ handler[p].at = "postAdmin" /\ WentOnTo(p, "postEdit")
       \/ handler[p].at = "postEdit" /\ WentOnTo(p, "putOrg")
    /\ UNCHANGED <<store, arrived, history>>
-----------------------------------------------------------------------------
\* The organization is read and the operation decided on the copy.
Stored(p) == orgDoc[handler[p].org]
Members(p) == Stored(p).members
Reads(p, op) == At(p, op, "getOrg") /\ Stored(p) # NoDoc

\* Keep the copy, with its member list changed, and go on.
Keep(p, members, call) ==
    handler' = [handler EXCEPT ![p].at = call,
                    ![p].doc = [Stored(p) EXCEPT !.members = members]]

\* Key not found: an error for every operation (OrgInvite dereferences nil,
\* which ends the request as well).
OrgMissing(p) ==
    /\ handler[p].at = "getOrg" /\ Stored(p) = NoDoc
    /\ Answer(p)
    /\ UNCHANGED <<store, faults, arrived, history>>

DecideDelete(p) ==
    /\ Reads(p, "delete")
    /\ IF /\ IsAdmin(Members(p), handler[p].user)
          /\ ~SeveralJoined(Members(p))
       THEN Keep(p, Members(p), "deleteProject")
       ELSE Answer(p)
    /\ UNCHANGED <<store, faults, arrived, history>>

\* OrgJoin: whoever asks; only an existing entry of the caller changes.
DecideAccept(p) ==
    LET r == handler[p]
    IN  /\ Reads(p, "accept")
        /\ Keep(p, MemberJoined(Members(p), r.user), "putOrg")
        /\ accepted' = [accepted EXCEPT ![r.org] = @ \cup
                {u \in {r.user} : IsMemberExist(Members(p), u)}]
        /\ UNCHANGED <<store, faults, arrived, brought, invited, granted, orphaned>>

\* RemoveMember panics on some lists where u has several entries (the loop
\* runs past the end of the shortened slice), and that ends the request.
RemovePanics(p, u) == Several(Members(p), u) /\ Answer(p)

DecideLeave(p) ==
    LET r == handler[p]
    IN  /\ Reads(p, "leave")
        /\ IF ~IsLastAdmin(Members(p), r.user)
           THEN \/ /\ \E left \in RemoveMember(Members(p), r.user) :
                         Keep(p, left, "putOrg")
                   /\ orphaned' = orphaned \cup
                          {o \in {r.org} : Several(Members(p), r.user)}
                \/ RemovePanics(p, r.user) /\ UNCHANGED orphaned
           ELSE Answer(p) /\ UNCHANGED orphaned
        /\ UNCHANGED <<store, faults, arrived, brought, invited, accepted, granted>>

DecideInvite(p) ==
    LET r == handler[p]
    IN  /\ Reads(p, "invite")
        /\ IF IsAdmin(Members(p), r.user) /\ ~IsMemberExist(Members(p), r.target)
           THEN Keep(p, Members(p), "getMember")
           ELSE Answer(p)
        /\ UNCHANGED <<store, faults, arrived, history>>

DecideRemove(p) ==
    LET r == handler[p]
    IN  /\ Reads(p, "remove")
        /\ IF IsAdmin(Members(p), r.user) /\ IsMemberExist(Members(p), r.target)
           THEN \/ /\ \E left \in RemoveMember(Members(p), r.target) :
                         Keep(p, left, "putOrg")
                   /\ orphaned' = orphaned \cup {o \in {r.org} :
                          ~HasJoinedAdmin(EntriesOf(Members(p), r.user))}
                \/ RemovePanics(p, r.target) /\ UNCHANGED orphaned
           ELSE Answer(p) /\ UNCHANGED orphaned
        /\ UNCHANGED <<store, faults, arrived, brought, invited, accepted, granted>>

DecidePrivilege(p) ==
    LET r == handler[p]
    IN  /\ Reads(p, "privileged")
        /\ IF /\ IsAdmin(Members(p), r.user)
              /\ ~IsLastAdmin(Members(p), r.target)
              /\ IsMemberExist(Members(p), r.target)
           THEN /\ \E set \in SetPrivilege(Members(p), r.target, r.flag) :
                      Keep(p, set, "adminRole")
                /\ granted' = [granted EXCEPT ![r.org] =
                       @ \cup {u \in {r.target} : r.flag}]
           ELSE Answer(p) /\ UNCHANGED granted
        /\ UNCHANGED <<store, faults, arrived, brought, invited, accepted, orphaned>>

\* OrgInvite again: IfExist, then the new entry.
InviteMember(p) ==
    LET r     == handler[p]
        entry == [name |-> r.target, admin |-> r.flag, status |-> "invited",
                  nth |-> 0]
    IN  /\ At(p, "invite", "getMember")
        /\ IF r.target \in Registered
           THEN /\ handler' = [handler EXCEPT ![p].at = "adminRole",
                                              ![p].doc.members = @ \cup {entry}]
                /\ invited' = [invited EXCEPT ![r.org] = @ \cup {r.target}]
                /\ granted' = [granted EXCEPT ![r.org] =
                       @ \cup {u \in {r.target} : r.flag}]
           ELSE Answer(p) /\ UNCHANGED <<invited, granted>>
        /\ UNCHANGED <<store, faults, arrived, brought, accepted, orphaned>>
-----------------------------------------------------------------------------
\* UpdateRoleBinding: the admin binding, then the edit binding whatever came
\* of the first.  Each is read and put back under its resourceVersion, or
\* deleted and posted when the read fails: one step, which on a fault leaves
\* the old subjects, the new ones, or none.  Without a project both fail.
UpdateRole(p, role, subjects, err) ==
    LET o == handler[p].org
    IN  \/ /\ o \in projects /\ role' = [role EXCEPT ![o] = subjects]
          /\ ~err /\ NoFault
       \/ /\ o \notin projects /\ UNCHANGED role
          /\ err /\ NoFault
       \/ /\ o \in projects
          /\ role' \in {[role EXCEPT ![o] = s] : s \in {role[o], subjects, {}}}
          /\ err /\ Fault

UpdateAdminRole(p) ==
    /\ handler[p].at = "adminRole"
    /\ \E err \in BOOLEAN :
        /\ UpdateRole(p, adminRole, AdminNames(handler[p].doc.members), err)
        /\ handler' = [handler EXCEPT ![p].at = "editRole", ![p].err = err]
    /\ UNCHANGED <<profile, orgDoc, projects, editRole, arrived, history>>

\* An error of either binding ends the operation; otherwise remove goes on
\* to the member's profile, invite and privileged to the organization.
UpdateEditRole(p) ==
    LET r == handler[p]
    IN  /\ r.at = "editRole"
        /\ \E err \in BOOLEAN :
            /\ UpdateRole(p, editRole, EditNames(r.doc.members), err)
            /\ IF err \/ r.err THEN Answer(p)
               ELSE Go(p, IF r.op = "remove" THEN "getMember" ELSE "putOrg")
        /\ UNCHANGED <<profile, orgDoc, projects, adminRole, arrived, history>>
-----------------------------------------------------------------------------
\* org.Update / org.Create: the whole copy, whatever the key holds by now.
PutOrg(p) ==
    LET r == handler[p]
    IN  /\ r.at = "putOrg"
        /\ orgDoc' = [orgDoc EXCEPT ![r.org] = r.doc]
        /\ \/ r.op = "create" /\ WentOnTo(p, "putProfile")
           \/ r.op = "accept" /\ WentOnTo(p, "getAgain")
           \/ r.op = "leave"  /\ WentOnTo(p, "putProfile")
           \/ r.op = "remove" /\ WentOnTo(p, "adminRole")
           \/ r.op \in {"invite", "privileged"} /\ Answer(p) /\ NoFault
        /\ UNCHANGED <<profile, projects, adminRole, editRole, arrived, history>>

\* OrgJoin reads the caller's profile again, after the organization is put.
GetProfileAgain(p) ==
    /\ handler[p].at = "getAgain"
    /\ handler' = [handler EXCEPT ![p].at = "putProfile",
                                  ![p].prof = profile[handler[p].user]]
    /\ UNCHANGED <<store, faults, arrived, history>>

\* (mutant: leave and delete do not drop the organization from the list)
CallerProfileKept(r) ==
    CASE r.op = "create" -> [r.prof EXCEPT !.orgs[r.org] = @ + 1, !.used = @ + 1]
      [] r.op = "accept" -> AddOrg(r.prof, r.org)
      [] OTHER           -> r.prof

\* The caller's UserInfo with the change of the operation, over the one in
\* etcd: create and accept list the organization, leave and delete drop it.
CallerProfile(r) ==
    CASE r.op = "create" -> [r.prof EXCEPT !.orgs[r.org] = @ + 1, !.used = @ + 1]
      [] r.op = "accept" -> AddOrg(r.prof, r.org)
      [] OTHER           -> DropOrg(r.prof, r.org)

PutProfile(p) ==
    LET r == handler[p]
    IN  /\ r.at = "putProfile"
        /\ profile' = [profile EXCEPT ![r.user] = CallerProfile(r)]
        /\ IF r.op = "delete" THEN WentOnTo(p, "getCreator")
                              ELSE Answer(p) /\ NoFault
        /\ UNCHANGED <<orgDoc, projects, adminRole, editRole, arrived, history>>

\* OrgRemoveMember: the profile of the member that was removed.
GetMember(p) ==
    LET r == handler[p]
    IN  /\ At(p, "remove", "getMember")
        /\ IF r.target \in Registered
           THEN handler' = [handler EXCEPT ![p].at = "putMember",
                                          ![p].prof = profile[r.target]]
           ELSE Answer(p)
        /\ UNCHANGED <<store, faults, arrived, history>>

PutMember(p) ==
    LET r == handler[p]
    IN  /\ r.at = "putMember"
        /\ profile' = [profile EXCEPT ![r.target] = DropOrg(r.prof, r.org)]
        /\ Answer(p)
        /\ UNCHANGED <<orgDoc, projects, adminRole, editRole, faults, arrived, history>>
-----------------------------------------------------------------------------
\* The rest of DeleteOrg: the project and its bindings go, the caller's list,
\* the creator's quota, and last the document.  The errors of the two last
\* writes are dropped.
DeleteProject(p) ==
    LET o == handler[p].org
    IN  /\ handler[p].at = "deleteProject"
        /\ IF o \in projects
           THEN /\ projects' = projects \ {o}
                /\ adminRole' = [adminRole EXCEPT ![o] = {}]
                /\ editRole' = [editRole EXCEPT ![o] = {}]
                /\ WentOnTo(p, "putProfile")
           ELSE Answer(p) /\ NoFault /\ UNCHANGED <<projects, adminRole, editRole>>
        /\ UNCHANGED <<profile, orgDoc, arrived, history>>

\* (mutant: the quota of whoever deletes is read)
GetCreatorCaller(p) ==
    /\ handler[p].at = "getCreator"
    /\ handler' = [handler EXCEPT ![p].at = "putCreator",
                                  ![p].prof = profile[handler[p].user]]
    /\ UNCHANGED <<store, faults, arrived, history>>

GetCreator(p) ==
    /\ handler[p].at = "getCreator"
    /\ handler' = [handler EXCEPT ![p].at = "putCreator",
                                  ![p].prof = profile[handler[p].doc.createBy]]
    /\ UNCHANGED <<store, faults, arrived, history>>

PutCreator(p) ==
    LET r == handler[p]
    IN  /\ r.at = "putCreator"
        /\ \/ /\ profile' = [profile EXCEPT ![r.doc.createBy] =
                    [r.prof EXCEPT !.used = @ - 1]]
              /\ NoFault
           \/ UNCHANGED profile /\ Fault
        /\ Go(p, "deleteOrg")
        /\ UNCHANGED <<orgDoc, projects, adminRole, editRole, arrived, history>>

\* (mutant: the document is left behind)
DeleteOrgKept(p) ==
    /\ handler[p].at = "deleteOrg"
    /\ Answer(p)
    /\ UNCHANGED <<store, faults, arrived, history>>

DeleteOrg(p) ==
    LET r == handler[p]
    IN  /\ r.at = "deleteOrg"
        /\ \/ orgDoc' = [orgDoc EXCEPT ![r.org] = NoDoc] /\ NoFault
           \/ UNCHANGED orgDoc /\ Fault
        /\ Answer(p)
        /\ UNCHANGED <<profile, projects, adminRole, editRole, arrived, history>>
-----------------------------------------------------------------------------
\* A call whose error the handler returns fails without an effect.  (A panic
\* in DeleteOrg or OrgInvite on a nil result ends the request as well.)
CallFails(p) ==
    /\ handler[p].at \in Calls \ {"adminRole", "editRole", "putCreator", "deleteOrg"}
    /\ Fault
    /\ Answer(p)
    /\ UNCHANGED <<store, arrived, history>>

\* The process dies (glog.Fatal in another request, say) and is started again.
Restart ==
    /\ Fault
    /\ handler' = [p \in Handlers |-> Idle]
    /\ handler' # handler
    /\ UNCHANGED <<store, arrived, history>>

Step(p) ==
    \/ GetProfile(p)      \/ OrgMissing(p)       \/ DecideDelete(p)
    \/ DecideAccept(p)    \/ DecideLeave(p)      \/ DecideInvite(p)
    \/ DecideRemove(p)    \/ DecidePrivilege(p)  \/ InviteMember(p)
    \/ PostProject(p)     \/ CreateRoleBinding(p)
    \/ UpdateAdminRole(p) \/ UpdateEditRole(p)   \/ PutOrg(p)
    \/ GetProfileAgain(p) \/ PutProfile(p)       \/ GetMember(p)
    \/ PutMember(p)       \/ DeleteProject(p)    \/ GetCreator(p)
    \/ PutCreator(p)      \/ DeleteOrg(p)

Next == Restart \/ \E p \in Handlers : Receive(p) \/ Step(p) \/ CallFails(p)

Spec == Init /\ [][Next]_vars
-----------------------------------------------------------------------------
(***************************************************************************)
(* What holds whatever the handlers interleave, lose or leave unfinished.  *)
(***************************************************************************)
Existing == {o \in OrgIDs : orgDoc[o] # NoDoc}

\* No document ever lists a user twice whom the creation request did not
\* list, although OrgInvite tests for the name on its own copy and other writes
\* may come in between; the loop of RemoveMember relies on it
\* (organization.go:381).
UniqueMembers == \A o \in Existing : UniqueNames(orgDoc[o].members, brought[o])

\* Every member the creation request did not list is a registered user who
\* was invited or created the organization, and a joined one has accepted it
\* himself or created it: no interleaving of stale writes makes a member of
\* somebody else.
MembershipIsEarned ==
    \A o \in Existing : \A m \in orgDoc[o].members :
        m.name \notin brought[o] =>
            /\ m.name \in invited[o] \cap Registered
            /\ m.status = "joined" => m.name \in accepted[o]

\* Whoever has the admin flag or is a subject of the admin binding was given
\* it by a creation (the creator, and who its request lists with the flag), an
\* invite or a privileged request; subjects of the edit binding were invited
\* or listed by the creation request.
AdminsWereGranted ==
    /\ \A o \in Existing : AdminNames(orgDoc[o].members) \subseteq granted[o]
    /\ \A o \in OrgIDs : adminRole[o] \subseteq granted[o]
    /\ \A o \in OrgIDs : editRole[o] \subseteq invited[o]

\* Every invitation, every grant of the admin flag and every removal of a
\* project is the work of a handler whose caller had been given the admin
\* flag before: the authority of an organization grows from its creator.
AuthorityStep ==
    \A o \in OrgIDs :
        \/ invited'[o] # invited[o] /\ invited[o] # {}
        \/ granted'[o] # granted[o] /\ granted[o] # {}
        \/ o \in projects /\ o \notin projects'
        => \E p \in Handlers :
              /\ handler[p] # Idle /\ handler[p].org = o
              /\ handler[p].user \in granted[o]
AuthorityChain == [][AuthorityStep]_vars

\* The guards of leave, privileged and remove keep a joined administrator in
\* every document although each looks at a copy.  There are two ways around
\* them: a member removed by an administrator who has not joined (IsAdmin
\* ignores the status IsLastAdmin counts by, organization.go:330 and 346), and
\* an administrator with several entries, which the creation request put
\* there, who leaves: IsLastAdmin counts each of them, RemoveMember may take
\* them all (organization.go:346 and 382).
OnlyOrphanedLackAdmin ==
    \A o \in Existing \ orphaned : HasJoinedAdmin(orgDoc[o].members)

\* An organization keeps a joined administrator: "Last admin restricted"
\* (errcode.go:60), the answer of leave and privileged at user.go:391 and 515.
NeedsAdmin == \A o \in Existing : HasJoinedAdmin(orgDoc[o].members)
-----------------------------------------------------------------------------
(***************************************************************************)
(* What holds between requests when they are served one at a time and no   *)
(* call has failed.                                                        *)
(***************************************************************************)
Quiet == faults = 0 /\ \A p \in Handlers : handler[p] = Idle

\* The organizations some sign-up request listed.
Foreseen == {o \in OrgIDs : \E u \in Registered : Lists(FirstProfile[u], o)}

\* A user's list and the member lists agree: the handlers write both, in
\* different documents and different orders.  A joined member lists the
\* organization unless the creation request made him a member, and who lists
\* it is a joined member unless a sign-up request listed it.
ListsMatchMembers ==
    Quiet => \A u \in Registered, o \in OrgIDs :
        /\ o \in Existing /\ HasJoined(orgDoc[o].members, u) /\ u \notin brought[o]
              => Lists(profile[u], o)
        /\ Lists(profile[u], o) /\ o \notin Foreseen
              => o \in Existing /\ HasJoined(orgDoc[o].members, u)

\* An organization has a project exactly when it has a document.
ProjectsMatchDocuments == Quiet => projects = Existing

\* OrgUsed counts the organizations a user created that still exist, on top
\* of what his sign-up request said, also when another administrator deletes
\* one.
QuotaMatchesCreated ==
    Quiet => \A u \in Registered :
        profile[u].used = FirstProfile[u].used +
            Cardinality({o \in Existing : orgDoc[o].createBy = u})

\* Every member but the creator (to whom OpenShift itself gives the project)
\* and those the creation request listed (CreateRoleBinding names no subject)
\* is a subject of the binding of his flag and of no other.  The converse
\* does not hold: OrgLeave does not touch the bindings.
MembersHaveTheirRole ==
    Quiet => \A o \in Existing : \A m \in orgDoc[o].members :
        m.name \notin brought[o] \cup {orgDoc[o].createBy} =>
            /\ m.name \in adminRole[o] <=> m.admin
            /\ m.name \in editRole[o] <=> ~m.admin

\* One at a time, every change of a document is one request of OrgRules
\* carried out whole, failed calls and deaths or not: by whom it may be made,
\* and what it leaves behind.
Rules == INSTANCE OrgRules WITH org <- orgDoc
ImplementsRules == Rules!Spec
=============================================================================
