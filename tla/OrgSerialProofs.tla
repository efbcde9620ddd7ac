-------------------------- MODULE OrgSerialProofs ---------------------------
(***************************************************************************)
(* Proofs about Organizations when requests do not overlap: for any number *)
(* of users, organizations and requests, what a request leaves behind.     *)
(*                                                                         *)
(* A request takes up to seven calls, and between two of them none of the  *)
(* properties holds: a document is put before the profile that lists it,   *)
(* a project is posted before its document.  The invariant says for every  *)
(* call what the handler's copies are next to what is stored (Decided,     *)
(* Current), which faults and restarts do not disturb, and what a handler  *)
(* still owes the store (Listings, Projects, Quota, Bindings), which they  *)
(* do.                                                                     *)
(***************************************************************************)
EXTENDS OrganizationsProofs, FiniteSetTheorems

\* No two requests are served at once.
OneAtATime ==
    \A p, q \in Handlers : handler[p] # Idle /\ handler[q] # Idle => p = q

\* The operations that make a call.
Ops(call) ==
    CASE call \in {"postProject", "postAdmin", "postEdit"} -> {"create"}
      [] call = "getOrg" -> Operations \ {"create"}
      [] call \in {"deleteProject", "getCreator", "putCreator", "deleteOrg"} -> {"delete"}
      [] call \in {"adminRole", "editRole"} -> {"invite", "privileged", "remove"}
      [] call = "getAgain" -> {"accept"}
      [] call = "putMember" -> {"remove"}
      [] call = "getMember" -> {"invite", "remove"}
      [] call = "putOrg" -> Operations \ {"delete"}
      [] call = "putProfile" -> {"create", "accept", "leave", "delete"}
      [] OTHER -> Operations

\* The handler serves this operation and is at one of these calls.
Busy(p, op, calls) == handler[p].at \in calls /\ handler[p].op = op

\* A document of u for o, with a member list the creation request brought.
IsNew(doc, u, o) ==
    \E body \in Bodies : /\ doc = NewOrganization(u, body)
                         /\ \A m \in body : m.name \in brought[o]

\* Its copy is the stored document with this member list.
Changed(p, members) ==
    Stored(p) # NoDoc /\ handler[p].doc = [Stored(p) EXCEPT !.members = members]

\* What the copy is next to the stored document, for each operation, and the
\* guard of the decision, which is true of the stored document until the put.
CreateDecided(p) ==
    /\ Busy(p, "create", {"getProfile", "postProject"}) => Stored(p) = NoDoc
    /\ Busy(p, "create", {"postAdmin", "postEdit", "putOrg"}) =>
          Stored(p) = NoDoc /\ IsNew(handler[p].doc, handler[p].user, handler[p].org)
    /\ Busy(p, "create", {"putProfile"}) =>
          Stored(p) # NoDoc /\ IsNew(Stored(p), handler[p].user, handler[p].org)

Deleting == {"deleteProject", "putProfile", "getCreator", "putCreator", "deleteOrg"}

DeleteDecided(p) ==
    Busy(p, "delete", Deleting) =>
        /\ Stored(p) # NoDoc /\ handler[p].doc = Stored(p)
        /\ IsAdmin(Members(p), handler[p].user) /\ ~SeveralJoined(Members(p))

AcceptDecided(p) ==
    LET u == handler[p].user
    IN  /\ Busy(p, "accept", {"getProfile", "getOrg"}) /\ ~AnyoneAccepts =>
              Stored(p) # NoDoc /\ IsMemberExist(Members(p), u)
        /\ Busy(p, "accept", {"putOrg"}) =>
              /\ Changed(p, MemberJoined(Members(p), u))
              /\ ~AnyoneAccepts => IsMemberExist(Members(p), u)
        /\ Busy(p, "accept", {"getAgain", "putProfile"}) /\ ~AnyoneAccepts =>
              Stored(p) # NoDoc /\ HasJoined(Members(p), u)

\* Of several entries the creation request brought, some may stay.
Left(p, u) == u \in brought[handler[p].org] \/ ~IsMemberExist(Members(p), u)

LeaveDecided(p) ==
    LET u == handler[p].user
    IN  /\ Busy(p, "leave", {"putOrg"}) =>
              /\ \E left \in RemoveMember(Members(p), u) : Changed(p, left)
              /\ ~IsLastAdmin(Members(p), u)
        /\ Busy(p, "leave", {"putProfile"}) => Stored(p) # NoDoc /\ Left(p, u)

RemoveDecided(p) ==
    LET r == handler[p]
    IN  /\ Busy(p, "remove", {"putOrg"}) =>
              /\ \E left \in RemoveMember(Members(p), r.target) : Changed(p, left)
              /\ IsAdmin(Members(p), r.user) /\ r.user # r.target
        /\ Busy(p, "remove", {"adminRole", "editRole", "getMember", "putMember"}) =>
              Stored(p) # NoDoc /\ r.doc = Stored(p) /\ Left(p, r.target)

NewEntry(r) ==
    [name |-> r.target, admin |-> r.flag, status |-> "invited", nth |-> 0]

InviteDecided(p) ==
    LET r == handler[p]
    IN  /\ Busy(p, "invite", {"getMember"}) =>
              /\ Changed(p, Members(p))
              /\ IsAdmin(Members(p), r.user) /\ ~IsMemberExist(Members(p), r.target)
        /\ Busy(p, "invite", {"adminRole", "editRole", "putOrg"}) =>
              /\ Changed(p, Members(p) \cup {NewEntry(r)})
              /\ IsAdmin(Members(p), r.user) /\ ~IsMemberExist(Members(p), r.target)
              /\ r.target \in Registered

PrivilegeDecided(p) ==
    LET r == handler[p]
    IN  Busy(p, "privileged", {"adminRole", "editRole", "putOrg"}) =>
              /\ \E set \in SetPrivilege(Members(p), r.target, r.flag) : Changed(p, set)
              /\ IsAdmin(Members(p), r.user) /\ IsMemberExist(Members(p), r.target)
              /\ ~IsLastAdmin(Members(p), r.target)

Decided(p) ==
    /\ CreateDecided(p) /\ DeleteDecided(p) /\ AcceptDecided(p) /\ LeaveDecided(p)
    /\ RemoveDecided(p) /\ InviteDecided(p) /\ PrivilegeDecided(p)

\* The caller lists the organization; or does not, a sign-up's list aside.
Enlisted(p) == Lists(profile[handler[p].user], handler[p].org)
Unlisted(p) == handler[p].org \in Foreseen \/ ~Enlisted(p)

\* The copy of a profile is the stored one; a creation's caller does not list
\* the organization yet, a deletion's does until the deletion has put his
\* profile, a sign-up's list aside.
Current(p) ==
    LET r == handler[p]
    IN  /\ r.at # "getProfile" /\ r.op \in {"create", "leave"} => r.prof = profile[r.user]
        /\ Busy(p, "delete", {"getOrg", "deleteProject", "putProfile"}) =>
              r.prof = profile[r.user] /\ Enlisted(p)
        /\ Busy(p, "accept", {"putProfile"}) => r.prof = profile[r.user]
        /\ Busy(p, "remove", {"putMember"}) =>
              r.target \in Registered /\ r.prof = profile[r.target]
        /\ Busy(p, "delete", {"putCreator"}) => r.prof = profile[r.doc.createBy]
        /\ Busy(p, "delete", {"getCreator", "putCreator", "deleteOrg"}) =>
              Unlisted(p)
        /\ r.op = "create" => Unlisted(p)

Fits(p) ==
    handler[p] # Idle =>
        /\ handler[p].op \in Ops(handler[p].at) /\ handler[p].org \in issued
        /\ Decided(p) /\ Current(p)

Unissued ==
    \A o \in OrgIDs \ issued :
        /\ orgDoc[o] = NoDoc /\ o \notin projects
        /\ o \in Foreseen \/ \A u \in Registered : ~Lists(profile[u], o)

\* No organization is listed twice, a sign-up's list aside.
Once ==
    \A u \in Registered, o \in OrgIDs \ Foreseen : profile[u].orgs[o] \in {0, 1}

SInv == IInv /\ Unissued /\ Once /\ \A p \in Handlers : Fits(p)
-----------------------------------------------------------------------------
\* The request of p goes on with another call.
To(p, call) ==
    LET r == handler[p]  s == handler'[p]
    IN  /\ s.at = call /\ s # Idle
        /\ s.op = r.op /\ s.user = r.user /\ s.org = r.org
        /\ s.target = r.target /\ s.flag = r.flag

SameCopies(p) ==
    LET r == handler[p]  s == handler'[p]
    IN  s.prof = r.prof /\ s.doc = r.doc /\ s.err = r.err

\* What follows a call, and what a step of p does to p: it answers, or its
\* request goes on with that call.
NextCall(op, at, call) ==
    CASE at = "getProfile"    -> call = IF op = "create" THEN "postProject" ELSE "getOrg"
      [] at = "postProject"   -> call \in {"postAdmin", "putOrg"}
      [] at = "postAdmin"     -> call = "postEdit"
      [] at = "postEdit"      -> call = "putOrg"
      [] at = "getOrg"        -> call = CASE op = "delete" -> "deleteProject"
                                          [] op = "invite" -> "getMember"
                                          [] op = "privileged" -> "adminRole"
                                          [] OTHER -> "putOrg"
      [] at = "getMember"     -> call = IF op = "remove" THEN "putMember" ELSE "adminRole"
      [] at = "adminRole"     -> call = "editRole"
      [] at = "editRole"      -> call = IF op = "remove" THEN "getMember" ELSE "putOrg"
      [] at = "putOrg"        -> CASE op = "accept" -> call = "getAgain"
                                   [] op = "remove" -> call = "adminRole"
                                   [] op \in {"create", "leave"} -> call = "putProfile"
                                   [] OTHER -> FALSE
      [] at = "getAgain"      -> call = "putProfile"
      [] at = "deleteProject" -> call = "putProfile"
      [] at = "putProfile"    -> op = "delete" /\ call = "getCreator"
      [] at = "getCreator"    -> call = "putCreator"
      [] at = "putCreator"    -> call = "deleteOrg"
      [] OTHER -> FALSE

Goes(p) ==
    \/ handler'[p] = Idle
    \/ /\ To(p, handler'[p].at)
       /\ NextCall(handler[p].op, handler[p].at, handler'[p].at)

LEMMA ListedStays ==
    ASSUME NEW p, NEW call, To(p, call), UNCHANGED profile
    PROVE  (Enlisted(p)' <=> Enlisted(p)) /\ (Unlisted(p)' <=> Unlisted(p))
BY DEF To, Enlisted, Unlisted, Lists, Foreseen

LEMMA GoTo ==
    ASSUME TypeOK, NEW p \in Handlers, handler[p] \in Request, NEW call \in Calls,
           Go(p, call)
    PROVE  To(p, call) /\ SameCopies(p)
<1> DEFINE s == [handler[p] EXCEPT !.at = call]
<1>1. handler'[p] = s
  BY DEF Go, TypeOK
<1>2. /\ s.at = call /\ s.op = handler[p].op /\ s.user = handler[p].user
      /\ s.org = handler[p].org /\ s.target = handler[p].target /\ s.flag = handler[p].flag
      /\ s.prof = handler[p].prof /\ s.doc = handler[p].doc /\ s.err = handler[p].err
  BY DEF Request
<1>3. call # "idle"
  BY DEF Calls
<1> HIDE DEF s
<1> QED  BY <1>1, <1>2, <1>3 DEF To, SameCopies, Idle

\* The next call, with a copy of a profile, or of a document.
Loads(p, call, prof) ==
    handler' = [handler EXCEPT ![p].at = call, ![p].prof = prof]
Retains(p, call, doc) ==
    handler' = [handler EXCEPT ![p].at = call, ![p].doc = doc]

LEMMA LoadTo ==
    ASSUME TypeOK, NEW p \in Handlers, handler[p] \in Request, NEW call \in Calls,
           NEW prof, Loads(p, call, prof)
    PROVE  To(p, call) /\ handler'[p].prof = prof /\ handler'[p].doc = handler[p].doc
           /\ handler'[p].err = handler[p].err
<1> DEFINE s == [handler[p] EXCEPT !.at = call, !.prof = prof]
<1>1. handler'[p] = s
  BY DEF TypeOK, Loads
<1>2. /\ s.at = call /\ s.op = handler[p].op /\ s.user = handler[p].user
      /\ s.org = handler[p].org /\ s.target = handler[p].target /\ s.flag = handler[p].flag
      /\ s.prof = prof /\ s.doc = handler[p].doc /\ s.err = handler[p].err
  BY DEF Request
<1>3. call # "idle"
  BY DEF Calls
<1> HIDE DEF s
<1> QED  BY <1>1, <1>2, <1>3 DEF To, Idle

LEMMA CopyTo ==
    ASSUME TypeOK, NEW p \in Handlers, handler[p] \in Request, NEW call \in Calls,
           NEW doc, Retains(p, call, doc)
    PROVE  To(p, call) /\ handler'[p].prof = handler[p].prof /\ handler'[p].doc = doc
           /\ handler'[p].err = handler[p].err
<1> DEFINE s == [handler[p] EXCEPT !.at = call, !.doc = doc]
<1>1. handler'[p] = s
  BY DEF TypeOK, Retains
<1>2. /\ s.at = call /\ s.op = handler[p].op /\ s.user = handler[p].user
      /\ s.org = handler[p].org /\ s.target = handler[p].target /\ s.flag = handler[p].flag
      /\ s.prof = handler[p].prof /\ s.doc = doc /\ s.err = handler[p].err
  BY DEF Request
<1>3. call # "idle"
  BY DEF Calls
<1> HIDE DEF s
<1> QED  BY <1>1, <1>2, <1>3 DEF To, Idle

LEMMA IdleFits == ASSUME NEW p, handler'[p] = Idle PROVE Fits(p)'
BY DEF Fits

LEMMA AnswerFits ==
    ASSUME TypeOK, NEW p \in Handlers, Answer(p)
    PROVE  handler'[p] = Idle /\ Fits(p)' /\ Goes(p)
BY DEF Answer, TypeOK, Fits, Goes

\* A step between two calls that rest on one decision keeps it.
LEMMA Onward ==
    ASSUME NEW p \in Handlers, Fits(p), handler[p] \in Request, NEW call,
           To(p, call), SameCopies(p),
           UNCHANGED <<profile, orgDoc, issued, brought>>,
           \/ handler[p].op = "create" /\ {handler[p].at, call} \subseteq {"postAdmin", "postEdit", "putOrg"}
           \/ /\ handler[p].op \in {"invite", "privileged"}
              /\ {handler[p].at, call} \subseteq {"adminRole", "editRole", "putOrg"}
           \/ /\ handler[p].op = "remove"
              /\ {handler[p].at, call} \subseteq {"adminRole", "editRole", "getMember"}
    PROVE  Fits(p)'
<1>1. handler[p] # Idle
  BY DEF Request, Idle, Calls
<1>2. Decided(p)'
  BY <1>1 DEF Fits, To, SameCopies, Decided, CreateDecided, DeleteDecided,
     AcceptDecided, LeaveDecided, RemoveDecided, InviteDecided, PrivilegeDecided,
     Busy, Changed, Stored, Members, NewEntry, Deleting, Left, IsNew
<1>3. Current(p)'
  BY <1>1, ListedStays DEF Fits, To, SameCopies, Current, Busy
<1> QED
  BY <1>1, <1>2, <1>3 DEF Fits, To, Ops, Operations
-----------------------------------------------------------------------------
(***************************************************************************)
(* One lemma for each action: the handler's next call finds what it needs. *)
(***************************************************************************)
LEMMA GetProfileFits ==
    ASSUME TypeOK, NEW p \in Handlers, handler[p] \in Request, Fits(p), GetProfile(p)
    PROVE  Fits(p)' /\ Goes(p)
<1> DEFINE r == handler[p]
<1>1. CASE Answer(p)
  BY <1>1, AnswerFits
<1>2. CASE ~Answer(p)
  <2>0. PICK call \in Calls : call = IF r.op = "create" THEN "postProject" ELSE "getOrg"
    BY DEF Calls
  <2>1. PICK prof : /\ prof = IF r.op \in {"create", "delete", "leave"}
                              THEN profile[r.user] ELSE r.prof
                    /\ handler' = [handler EXCEPT ![p].at = call, ![p].prof = prof]
    BY <1>2, <2>0 DEF GetProfile
  <2>a. Loads(p, call, prof)
    BY <2>1 DEF Loads
  <2>2. To(p, call) /\ handler'[p].prof = prof
    BY <2>a, LoadTo
  <2>3. UNCHANGED <<profile, orgDoc, issued, brought>> /\ r.at = "getProfile" /\ r # Idle
        /\ Admitted(r, profile[r.user])
    BY <1>2 DEF GetProfile, store, arrived, history, Idle
  <2>4. r.op \in Operations
    BY DEF Request
  <2>5. r.op = "delete" => Enlisted(p)
    BY <2>3, <2>4 DEF Admitted, Enlisted
  <2>6. Decided(p)'
    BY <2>0, <2>2, <2>3, <2>4 DEF Goes, NextCall, Fits, To, Decided, CreateDecided, DeleteDecided,
       AcceptDecided, LeaveDecided, RemoveDecided, InviteDecided, PrivilegeDecided,
       Busy, Stored, Members, Deleting
  <2>7. Current(p)'
    <3>1. (Enlisted(p)' <=> Enlisted(p)) /\ (Unlisted(p)' <=> Unlisted(p))
      BY <2>2, <2>3, ListedStays
    <3> QED
      BY <2>0, <2>1, <2>2, <2>3, <2>4, <2>5, <3>1 DEF To, Fits, Current, Busy
  <2> QED
    BY <2>0, <2>2, <2>3, <2>4, <2>6, <2>7 DEF Goes, NextCall, Fits, To, Ops, Operations
<1> QED  BY <1>1, <1>2

LEMMA PostProjectFits ==
    ASSUME TypeOK, NEW p \in Handlers, handler[p] \in Request, Fits(p), PostProject(p)
    PROVE  Fits(p)' /\ Goes(p)
<1> DEFINE r == handler[p]
<1>1. PICK body \in Bodies :
         /\ \E call \in {"postAdmin", "putOrg"} :
               Retains(p, call, NewOrganization(r.user, body))
         /\ brought' = [brought EXCEPT ![r.org] = @ \cup {m.name : m \in body}]
  BY DEF PostProject, Retains
<1>a. PICK doc : doc = NewOrganization(r.user, body)
  OBVIOUS
<1>2. PICK call \in {"postAdmin", "putOrg"} : Retains(p, call, doc)
  BY <1>1, <1>a
<1>3. To(p, call) /\ handler'[p].prof = r.prof /\ handler'[p].doc = doc
  BY <1>2, CopyTo DEF Calls
<1>4. UNCHANGED <<profile, orgDoc, issued>> /\ r.at = "postProject" /\ r # Idle
  BY DEF PostProject, arrived, Idle
<1>5. \A m \in body : m.name \in brought'[handler[p].org]
  <2>1. brought'[r.org] = brought[r.org] \cup {m.name : m \in body}
    BY <1>1 DEF TypeOK, Request
  <2> QED  BY <1>3, <2>1 DEF To
<1>6. IsNew(doc, r.user, r.org)'
  BY <1>a, <1>3, <1>5 DEF IsNew, To
<1>7. r.op = "create" /\ Stored(p) = NoDoc
  BY <1>4 DEF Fits, Ops, Decided, CreateDecided, Busy
<1>8. Current(p)'
  BY <1>3, <1>4, <1>7, ListedStays DEF To, Fits, Current, Busy
<1> HIDE DEF r
<1>9. Decided(p)'
  BY <1>3, <1>4, <1>6, <1>7 DEF r, To, Decided, CreateDecided, DeleteDecided,
     AcceptDecided, LeaveDecided, RemoveDecided, InviteDecided, PrivilegeDecided,
     Busy, Stored, Deleting
<1> QED
  BY <1>3, <1>4, <1>7, <1>8, <1>9 DEF Goes, NextCall, r, Fits, To, Ops, Operations

LEMMA CreateRoleBindingFits ==
    ASSUME TypeOK, NEW p \in Handlers, handler[p] \in Request, Fits(p),
           CreateRoleBinding(p)
    PROVE  Fits(p)' /\ Goes(p)
<1>1. CASE Answer(p)
  BY <1>1, AnswerFits
<1>2. ASSUME NEW call \in {"postEdit", "putOrg"}, Go(p, call),
             handler[p].at = IF call = "postEdit" THEN "postAdmin" ELSE "postEdit"
      PROVE  Fits(p)' /\ Goes(p)
  <2>1. To(p, call) /\ SameCopies(p)
    BY <1>2, GoTo DEF Calls
  <2>2. handler[p].op = "create"
    BY <1>2 DEF Fits, Ops, Idle
  <2>3. UNCHANGED <<profile, orgDoc, issued, brought>>
    BY DEF CreateRoleBinding, store, arrived, history
  <2>4. Goes(p)
    BY <1>2, <2>1 DEF Goes, NextCall, To
  <2> QED  BY <1>2, <2>1, <2>2, <2>3, <2>4, Onward
<1> QED  BY <1>1, <1>2 DEF CreateRoleBinding, WentOnTo

\* The six decisions: a copy, changed by the operation, under its guard.
LEMMA KeepTo ==
    ASSUME IInv, NEW p \in Handlers, NEW op, Reads(p, op), NEW members, NEW call \in Calls,
           Keep(p, members, call)
    PROVE  /\ To(p, call) /\ handler'[p].prof = handler[p].prof
           /\ handler'[p].doc = [Stored(p) EXCEPT !.members = members]
           /\ handler[p] # Idle /\ handler[p] \in Request
           /\ Stored(p) \in Organization /\ Stored(p) # NoDoc
<1>1. handler[p] \in Request /\ handler[p] # Idle /\ Stored(p) \in Organization
  BY ReadsGood DEF Reads, At, Idle
<1>2. Stored(p) # NoDoc
  BY DEF Reads
<1>3. PICK doc : doc = [Stored(p) EXCEPT !.members = members]
  OBVIOUS
<1>4. Retains(p, call, doc)
  BY <1>3 DEF Keep, Retains
<1>5. To(p, call) /\ handler'[p].prof = handler[p].prof /\ handler'[p].doc = doc
  BY <1>1, <1>4, CopyTo DEF IInv
<1> QED  BY <1>1, <1>2, <1>3, <1>5

LEMMA DecideDeleteFits ==
    ASSUME IInv, NEW p \in Handlers, Fits(p), DecideDelete(p)
    PROVE  Fits(p)' /\ Goes(p)
<1> DEFINE r == handler[p]
<1>1. Reads(p, "delete") /\ UNCHANGED <<profile, orgDoc, issued, brought>>
  BY DEF DecideDelete, store, arrived, history
<1>2. CASE Answer(p)
  BY <1>2, AnswerFits DEF IInv
<1>3. CASE /\ Keep(p, Members(p), "deleteProject")
           /\ IsAdmin(Members(p), r.user) /\ ~SeveralJoined(Members(p))
  <2>1. /\ To(p, "deleteProject") /\ handler'[p].prof = r.prof /\ r # Idle
        /\ handler'[p].doc = [Stored(p) EXCEPT !.members = Members(p)]
        /\ Stored(p) \in Organization /\ Stored(p) # NoDoc
    BY <1>1, <1>3, KeepTo DEF Calls
  <2>2. handler'[p].doc = Stored(p)
    BY <2>1 DEF Members, Organization
  <2>3. (Enlisted(p)' <=> Enlisted(p)) /\ (Unlisted(p)' <=> Unlisted(p))
    BY <1>1, <2>1, ListedStays
  <2> QED
    BY <1>1, <1>3, <2>1, <2>2, <2>3 DEF Goes, NextCall, Fits, To, Ops, Operations, Decided, Reads, At,
       CreateDecided, DeleteDecided, AcceptDecided, LeaveDecided, RemoveDecided,
       InviteDecided, PrivilegeDecided, Current, Busy, Stored, Members
<1> QED  BY <1>2, <1>3 DEF DecideDelete

LEMMA DecideAcceptFits ==
    ASSUME IInv, NEW p \in Handlers, Fits(p), DecideAccept(p)
    PROVE  Fits(p)' /\ Goes(p)
<1> DEFINE r == handler[p]
<1>1. Reads(p, "accept") /\ UNCHANGED <<profile, orgDoc, issued, brought>>
      /\ Keep(p, MemberJoined(Members(p), r.user), "putOrg")
  BY DEF DecideAccept, store, arrived
<1>2. /\ To(p, "putOrg") /\ handler'[p].prof = r.prof /\ r # Idle
      /\ handler'[p].doc = [Stored(p) EXCEPT !.members = MemberJoined(Members(p), r.user)]
      /\ Stored(p) # NoDoc
  BY <1>1, KeepTo DEF Calls
<1> QED
  BY <1>1, <1>2 DEF Goes, NextCall, Fits, To, Ops, Operations, Decided, Reads, At, Changed,
     CreateDecided, DeleteDecided, AcceptDecided, LeaveDecided, RemoveDecided,
     InviteDecided, PrivilegeDecided, Current, Busy, Stored, Members

LEMMA DecideLeaveFits ==
    ASSUME IInv, NEW p \in Handlers, Fits(p), DecideLeave(p)
    PROVE  Fits(p)' /\ Goes(p)
<1> DEFINE r == handler[p]
<1>1. Reads(p, "leave") /\ UNCHANGED <<profile, orgDoc, issued, brought>>
  BY DEF DecideLeave, store, arrived
<1>2. CASE Answer(p)
  BY <1>2, AnswerFits DEF IInv
<1>3. CASE ~Answer(p)
  <2>0. PICK left \in RemoveMember(Members(p), r.user) : Keep(p, left, "putOrg")
    BY <1>3 DEF DecideLeave, RemovePanics
  <2>1. /\ To(p, "putOrg") /\ handler'[p].prof = r.prof /\ r # Idle
        /\ handler'[p].doc = [Stored(p) EXCEPT !.members = left]
        /\ Stored(p) # NoDoc
    BY <1>1, <2>0, KeepTo DEF Calls
  <2>2. ~IsLastAdmin(Members(p), r.user)
    BY <1>3 DEF DecideLeave
  <2> QED
    BY <1>1, <2>0, <2>1, <2>2 DEF Goes, NextCall, Fits, To, Ops, Operations, Decided, Reads, At, Changed,
       CreateDecided, DeleteDecided, AcceptDecided, LeaveDecided, RemoveDecided,
       InviteDecided, PrivilegeDecided, Current, Busy, Stored, Members
<1> QED  BY <1>2, <1>3

LEMMA DecideInviteFits ==
    ASSUME IInv, NEW p \in Handlers, Fits(p), DecideInvite(p)
    PROVE  Fits(p)' /\ Goes(p)
<1> DEFINE r == handler[p]
<1>1. Reads(p, "invite") /\ UNCHANGED <<profile, orgDoc, issued, brought>>
  BY DEF DecideInvite, store, arrived, history
<1>2. CASE Answer(p)
  BY <1>2, AnswerFits DEF IInv
<1>3. CASE /\ Keep(p, Members(p), "getMember")
           /\ IsAdmin(Members(p), r.user) /\ ~IsMemberExist(Members(p), r.target)
  <2>1. /\ To(p, "getMember") /\ handler'[p].prof = r.prof /\ r # Idle
        /\ handler'[p].doc = [Stored(p) EXCEPT !.members = Members(p)]
        /\ Stored(p) # NoDoc
    BY <1>1, <1>3, KeepTo DEF Calls
  <2> QED
    BY <1>1, <1>3, <2>1 DEF Goes, NextCall, Fits, To, Ops, Operations, Decided, Reads, At, Changed,
       CreateDecided, DeleteDecided, AcceptDecided, LeaveDecided, RemoveDecided,
       InviteDecided, PrivilegeDecided, Current, Busy, Stored, Members
<1> QED  BY <1>2, <1>3 DEF DecideInvite

LEMMA DecideRemoveFits ==
    ASSUME IInv, NEW p \in Handlers, Fits(p), DecideRemove(p)
    PROVE  Fits(p)' /\ Goes(p)
<1> DEFINE r == handler[p]
<1>1. Reads(p, "remove") /\ UNCHANGED <<profile, orgDoc, issued, brought>> /\ r.user # r.target
  BY DEF DecideRemove, store, arrived, IInv, Authority, Reads
<1>2. CASE Answer(p)
  BY <1>2, AnswerFits DEF IInv
<1>3. CASE ~Answer(p)
  <2>0. PICK left \in RemoveMember(Members(p), r.target) : Keep(p, left, "putOrg")
    BY <1>3 DEF DecideRemove, RemovePanics
  <2>1. /\ To(p, "putOrg") /\ handler'[p].prof = r.prof /\ r # Idle
        /\ handler'[p].doc = [Stored(p) EXCEPT !.members = left]
        /\ Stored(p) # NoDoc
    BY <1>1, <2>0, KeepTo DEF Calls
  <2>2. IsAdmin(Members(p), r.user)
    BY <1>3 DEF DecideRemove
  <2> QED
    BY <1>1, <2>0, <2>1, <2>2 DEF Goes, NextCall, Fits, To, Ops, Operations, Decided, Reads, At, Changed,
       CreateDecided, DeleteDecided, AcceptDecided, LeaveDecided, RemoveDecided,
       InviteDecided, PrivilegeDecided, Current, Busy, Stored, Members
<1> QED  BY <1>2, <1>3

LEMMA DecidePrivilegeFits ==
    ASSUME IInv, NEW p \in Handlers, Fits(p), DecidePrivilege(p)
    PROVE  Fits(p)' /\ Goes(p)
<1> DEFINE r == handler[p]
<1>1. Reads(p, "privileged") /\ UNCHANGED <<profile, orgDoc, issued, brought>>
  BY DEF DecidePrivilege, store, arrived
<1>2. CASE Answer(p)
  BY <1>2, AnswerFits DEF IInv
<1>3. CASE ~Answer(p)
  <2>0. PICK set \in SetPrivilege(Members(p), r.target, r.flag) :
           Keep(p, set, "adminRole")
    BY <1>3 DEF DecidePrivilege
  <2>1. /\ To(p, "adminRole") /\ handler'[p].prof = r.prof /\ r # Idle
        /\ handler'[p].doc = [Stored(p) EXCEPT !.members = set]
        /\ Stored(p) # NoDoc
    BY <1>1, <2>0, KeepTo DEF Calls
  <2>2. /\ IsAdmin(Members(p), r.user) /\ IsMemberExist(Members(p), r.target)
        /\ ~IsLastAdmin(Members(p), r.target)
    BY <1>3 DEF DecidePrivilege
  <2> QED
    BY <1>1, <2>0, <2>1, <2>2 DEF Goes, NextCall, Fits, To, Ops, Operations, Decided, Reads, At, Changed,
       CreateDecided, DeleteDecided, AcceptDecided, LeaveDecided, RemoveDecided,
       InviteDecided, PrivilegeDecided, Current, Busy, Stored, Members
<1> QED  BY <1>2, <1>3

LEMMA InviteMemberFits ==
    ASSUME TypeOK, Loaded, NEW p \in Handlers, handler[p] \in Request, Fits(p),
           InviteMember(p)
    PROVE  Fits(p)' /\ Goes(p)
<1> DEFINE r == handler[p]
<1>1. /\ r.at = "getMember" /\ r.op = "invite" /\ r # Idle
      /\ UNCHANGED <<profile, orgDoc, issued, brought>>
  BY DEF InviteMember, At, store, arrived, Idle
<1>2. CASE Answer(p)
  BY <1>2, AnswerFits
<1>3. CASE /\ r.target \in Registered
           /\ handler' = [handler EXCEPT ![p].at = "adminRole",
                                         ![p].doc.members = @ \cup {NewEntry(r)}]
  <2>1. /\ Changed(p, Members(p)) /\ IsAdmin(Members(p), r.user)
        /\ ~IsMemberExist(Members(p), r.target)
    BY <1>1 DEF Fits, Decided, InviteDecided, Busy
  <2>2. Stored(p) \in Organization
    BY <2>1 DEF TypeOK, Stored, Request, Changed
  <2>3. r.doc = Stored(p) /\ r.doc.members = Members(p)
    BY <2>1, <2>2 DEF Changed, Members, Organization
  <2>4. PICK doc : doc = [Stored(p) EXCEPT !.members = Members(p) \cup {NewEntry(r)}]
    OBVIOUS
  <2>5. Retains(p, "adminRole", doc)
    BY <1>3, <2>3, <2>4 DEF Retains
  <2>6. To(p, "adminRole") /\ handler'[p].doc = doc
    BY <2>5, CopyTo DEF Calls
  <2>7. Decided(p)'
    BY <1>1, <1>3, <2>1, <2>4, <2>6 DEF To, Decided, CreateDecided, DeleteDecided,
       AcceptDecided, LeaveDecided, RemoveDecided, InviteDecided, PrivilegeDecided,
       Busy, Stored, Members, Deleting, Changed, NewEntry
  <2> QED
    BY <1>1, <2>6, <2>7 DEF Goes, NextCall, Fits, To, Ops, Current, Busy
<1> QED  BY <1>2, <1>3 DEF InviteMember, NewEntry

LEMMA UpdateAdminRoleFits ==
    ASSUME TypeOK, NEW p \in Handlers, handler[p] \in Request, Fits(p),
           UpdateAdminRole(p)
    PROVE  Fits(p)' /\ Goes(p)
<1> DEFINE r == handler[p]
<1>1. PICK err \in BOOLEAN : handler' = [handler EXCEPT ![p].at = "editRole", ![p].err = err]
  BY DEF UpdateAdminRole
<1>2. /\ r.at = "adminRole" /\ r # Idle /\ UNCHANGED <<profile, orgDoc, issued, brought>>
  BY DEF UpdateAdminRole, arrived, history, Idle
<1>3. To(p, "editRole") /\ handler'[p].prof = r.prof /\ handler'[p].doc = r.doc
  <2> DEFINE s == [handler[p] EXCEPT !.at = "editRole", !.err = err]
  <2>1. handler'[p] = s
    BY <1>1 DEF TypeOK
  <2>2. /\ s.at = "editRole" /\ s.op = r.op /\ s.user = r.user /\ s.org = r.org
        /\ s.target = r.target /\ s.flag = r.flag /\ s.prof = r.prof /\ s.doc = r.doc
    BY DEF Request
  <2> HIDE DEF s
  <2> QED  BY <2>1, <2>2 DEF To, Idle
<1>4. r.op \in {"invite", "privileged", "remove"}
  BY <1>2 DEF Fits, Ops
<1>5. Decided(p)' /\ Current(p)'
  <2>1. CASE r.op = "invite"
    BY <1>2, <1>3, <2>1 DEF Goes, NextCall, Fits, To, Decided, CreateDecided, DeleteDecided,
       AcceptDecided, LeaveDecided, RemoveDecided, InviteDecided, PrivilegeDecided,
       Busy, Stored, Members, Deleting, Changed, NewEntry, Current
  <2>2. CASE r.op = "privileged"
    BY <1>2, <1>3, <2>2 DEF Goes, NextCall, Fits, To, Decided, CreateDecided, DeleteDecided,
       AcceptDecided, LeaveDecided, RemoveDecided, InviteDecided, PrivilegeDecided,
       Busy, Stored, Members, Deleting, Changed, Current
  <2>3. CASE r.op = "remove"
    BY <1>2, <1>3, <2>3 DEF Goes, NextCall, Fits, To, Decided, CreateDecided, DeleteDecided,
       AcceptDecided, LeaveDecided, RemoveDecided, InviteDecided, PrivilegeDecided,
       Busy, Stored, Members, Deleting, Changed, Current, Left
  <2> QED  BY <1>4, <2>1, <2>2, <2>3
<1> QED  BY <1>2, <1>3, <1>4, <1>5 DEF Goes, NextCall, Fits, To, Ops

LEMMA UpdateEditRoleFits ==
    ASSUME TypeOK, NEW p \in Handlers, handler[p] \in Request, Fits(p),
           UpdateEditRole(p)
    PROVE  Fits(p)' /\ Goes(p)
<1> DEFINE r == handler[p]
<1>1. CASE Answer(p)
  BY <1>1, AnswerFits
<1>2. CASE ~Answer(p)
  <2>0. PICK call \in Calls : call = IF r.op = "remove" THEN "getMember" ELSE "putOrg"
    BY DEF Calls
  <2>1. Go(p, call)
    BY <1>2, <2>0 DEF UpdateEditRole
  <2>2. To(p, call) /\ SameCopies(p)
    BY <2>1, GoTo
  <2>3. /\ r.at = "editRole" /\ r # Idle /\ UNCHANGED <<profile, orgDoc, issued, brought>>
    BY DEF UpdateEditRole, arrived, history, Idle
  <2>4. r.op \in {"invite", "privileged", "remove"}
    BY <2>3 DEF Fits, Ops
  <2>5. Goes(p)
    BY <2>0, <2>2, <2>3 DEF Goes, NextCall, To
  <2> QED  BY <2>0, <2>2, <2>3, <2>4, <2>5, Onward
<1> QED  BY <1>1, <1>2

\* The put makes the copy the stored document.
LEMMA ChangedIs ==
    ASSUME IInv, NEW p \in Handlers, handler[p] \in Request,
           NEW members, Changed(p, members)
    PROVE  /\ Stored(p) \in Organization /\ Stored(p) = orgDoc[handler[p].org]
           /\ Members(p) \in SUBSET OrgMember
           /\ GoodDoc(handler[p].org, Stored(p))
           /\ UniqueNames(Members(p), brought[handler[p].org])
           /\ handler[p].doc.members = members
           /\ handler[p].doc.createBy = Stored(p).createBy
<1>1. Stored(p) \in Organization /\ Stored(p) = orgDoc[handler[p].org]
  BY DEF IInv, TypeOK, Stored, Request, Changed
<1>2. GoodDoc(handler[p].org, Stored(p))
  BY <1>1 DEF IInv, Documents, Request, Changed
<1> QED
  BY <1>1, <1>2 DEF Changed, Members, Organization, GoodDoc, Sound

\* A removal leaves no entry of whoever has one.
LEMMA RemovedIsGone ==
    ASSUME NEW members, NEW B, NEW u, UniqueNames(members, B), u \notin B,
           NEW left \in RemoveMember(members, u)
    PROVE  ~Several(members, u) /\ left = members \ EntriesOf(members, u)
           /\ ~IsMemberExist(left, u)
<1>1. PICK gone \in SUBSET EntriesOf(members, u) :
         left = members \ gone /\ (gone = {} => EntriesOf(members, u) = {})
  BY DEF RemoveMember
<1>2. ~Several(members, u)
  BY DEF Several, EntriesOf, UniqueNames
<1>3. gone = EntriesOf(members, u)
  BY <1>1, <1>2 DEF Several
<1> QED  BY <1>1, <1>2, <1>3 DEF IsMemberExist, EntriesOf

LEMMA PutOrgFits ==
    ASSUME IInv, NEW p \in Handlers, handler[p] \in Request, Fits(p), PutOrg(p)
    PROVE  Fits(p)' /\ Goes(p)
<1> DEFINE r == handler[p]
<1> USE DEF WentOnTo
<1>0. TypeOK
  BY DEF IInv
<1>1. /\ r.at = "putOrg" /\ r # Idle /\ r.org \in OrgIDs /\ orgDoc'[r.org] = r.doc
      /\ UNCHANGED <<profile, issued, brought>>
  BY <1>0 DEF PutOrg, arrived, history, Idle, TypeOK, Request
<1>2. r.doc # NoDoc
  BY <1>1 DEF IInv, Loaded, Calls
<1>3. CASE Answer(p)
  BY <1>0, <1>3, AnswerFits
<1>4. CASE r.op = "create" /\ Go(p, "putProfile")
  <2>1. To(p, "putProfile") /\ SameCopies(p)
    BY <1>0, <1>4, GoTo DEF Calls
  <2>2. IsNew(r.doc, r.user, r.org)
    BY <1>1, <1>4 DEF Fits, Decided, CreateDecided, Busy
  <2>3. IsNew(r.doc, r.user, r.org)'
    BY <1>1, <2>1, <2>2 DEF IsNew, To, SameCopies
  <2>4. Current(p)'
    BY <1>1, <1>4, <2>1, ListedStays DEF To, SameCopies, Fits, Current, Busy
  <2>5. Decided(p)'
    BY <1>1, <1>2, <1>4, <2>1, <2>3 DEF To, SameCopies, Decided, CreateDecided,
       DeleteDecided, AcceptDecided, LeaveDecided, RemoveDecided, InviteDecided,
       PrivilegeDecided, Busy, Stored
  <2> QED  BY <1>1, <1>4, <2>1, <2>4, <2>5 DEF Goes, NextCall, Fits, To, Ops
<1>5. CASE r.op = "accept" /\ Go(p, "getAgain")
  <2>1. To(p, "getAgain") /\ SameCopies(p)
    BY <1>0, <1>5, GoTo DEF Calls
  <2>2. Changed(p, MemberJoined(Members(p), r.user))
        /\ (~AnyoneAccepts => IsMemberExist(Members(p), r.user))
    BY <1>1, <1>5 DEF Fits, Decided, AcceptDecided, Busy
  <2>3. r.doc.members = MemberJoined(Members(p), r.user)
        /\ Members(p) \in SUBSET OrgMember
    BY <2>2, ChangedIs
  <2>4. Members(p)' = MemberJoined(Members(p), r.user) /\ Stored(p)' # NoDoc
    BY <1>1, <1>2, <2>1, <2>3 DEF To, Stored, Members
  <2>5. ~AnyoneAccepts => HasJoined(Members(p), r.user)'
    <3> SUFFICES ASSUME NEW m \in Members(p), m.name = r.user
                 PROVE  HasJoined(Members(p), r.user)'
      BY <2>2 DEF IsMemberExist
    <3>1. m \in OrgMember
      BY <2>3
    <3>2. PICK n : n = [m EXCEPT !.status = IF m.name = r.user THEN "joined" ELSE @]
      OBVIOUS
    <3>3. n.name = r.user /\ n.status = "joined"
      BY <3>1, <3>2 DEF OrgMember
    <3>4. n \in Members(p)'
      BY <2>4, <3>2 DEF MemberJoined
    <3> QED  BY <2>1, <3>3, <3>4 DEF HasJoined, To
  <2> QED
    BY <1>1, <1>5, <2>1, <2>4, <2>5 DEF Goes, NextCall, Fits, To, SameCopies, Ops, Decided, CreateDecided,
       DeleteDecided, AcceptDecided, LeaveDecided, RemoveDecided, InviteDecided,
       PrivilegeDecided, Busy, Current
<1>6. CASE r.op = "leave" /\ Go(p, "putProfile")
  <2>1. To(p, "putProfile") /\ SameCopies(p)
    BY <1>0, <1>6, GoTo DEF Calls
  <2>2. PICK left \in RemoveMember(Members(p), r.user) : Changed(p, left)
    BY <1>1, <1>6 DEF Fits, Decided, LeaveDecided, Busy
  <2>3. r.doc.members = left /\ UniqueNames(Members(p), brought[r.org])
    BY <2>2, ChangedIs
  <2>4. Members(p)' = left /\ Stored(p)' # NoDoc
    BY <1>1, <1>2, <2>1, <2>3 DEF To, Stored, Members
  <2>5. r.user \notin brought[r.org] => ~IsMemberExist(left, r.user)
    BY <2>2, <2>3, RemovedIsGone
  <2>6. Left(p, r.user)'
    BY <1>1, <2>1, <2>4, <2>5 DEF Left, IsMemberExist, To
  <2> QED
    BY <1>1, <1>6, <2>1, <2>4, <2>6 DEF Goes, NextCall, Fits, To, SameCopies, Ops, Decided, CreateDecided,
       DeleteDecided, AcceptDecided, LeaveDecided, RemoveDecided, InviteDecided,
       PrivilegeDecided, Busy, Current
<1>7. CASE r.op = "remove" /\ Go(p, "adminRole")
  <2>1. To(p, "adminRole") /\ SameCopies(p)
    BY <1>0, <1>7, GoTo DEF Calls
  <2>2. PICK left \in RemoveMember(Members(p), r.target) : Changed(p, left)
    BY <1>1, <1>7 DEF Fits, Decided, RemoveDecided, Busy
  <2>3. r.doc.members = left /\ UniqueNames(Members(p), brought[r.org])
    BY <2>2, ChangedIs
  <2>4. Members(p)' = left /\ Stored(p)' # NoDoc /\ handler'[p].doc = Stored(p)'
    BY <1>1, <1>2, <2>1, <2>3 DEF To, SameCopies, Stored, Members
  <2>5. r.target \notin brought[r.org] => ~IsMemberExist(left, r.target)
    BY <2>2, <2>3, RemovedIsGone
  <2>6. Left(p, r.target)'
    BY <1>1, <2>1, <2>4, <2>5 DEF Left, IsMemberExist, To
  <2> QED
    BY <1>1, <1>7, <2>1, <2>4, <2>6 DEF Goes, NextCall, Fits, To, SameCopies, Ops, Decided, CreateDecided,
       DeleteDecided, AcceptDecided, LeaveDecided, RemoveDecided, InviteDecided,
       PrivilegeDecided, Busy, Current
<1> QED  BY <1>3, <1>4, <1>5, <1>6, <1>7 DEF PutOrg

LEMMA GetProfileAgainFits ==
    ASSUME TypeOK, NEW p \in Handlers, handler[p] \in Request, Fits(p),
           GetProfileAgain(p)
    PROVE  Fits(p)' /\ Goes(p)
<1> DEFINE r == handler[p]
<1>1. PICK prof : prof = profile[r.user]
  OBVIOUS
<1>2. Loads(p, "putProfile", prof)
  BY <1>1 DEF GetProfileAgain, Loads
<1>3. To(p, "putProfile") /\ handler'[p].prof = prof /\ handler'[p].doc = r.doc
  BY <1>2, LoadTo DEF Calls
<1>4. /\ r.at = "getAgain" /\ r # Idle /\ UNCHANGED <<profile, orgDoc, issued, brought>>
  BY DEF GetProfileAgain, store, arrived, history, Idle
<1>5. r.op = "accept"
  BY <1>4 DEF Fits, Ops
<1> QED
  BY <1>1, <1>3, <1>4, <1>5 DEF Goes, NextCall, Fits, To, Ops, Decided, CreateDecided,
     DeleteDecided, AcceptDecided, LeaveDecided, RemoveDecided, InviteDecided,
     PrivilegeDecided, Busy, Current, Stored, Members

LEMMA GetMemberFits ==
    ASSUME TypeOK, NEW p \in Handlers, handler[p] \in Request, Fits(p), GetMember(p)
    PROVE  Fits(p)' /\ Goes(p)
<1> DEFINE r == handler[p]
<1>1. CASE Answer(p)
  BY <1>1, AnswerFits
<1>2. CASE ~Answer(p)
  <2>1. PICK prof : prof = profile[r.target]
    OBVIOUS
  <2>2. r.target \in Registered /\ Loads(p, "putMember", prof)
    BY <1>2, <2>1 DEF GetMember, Loads
  <2>3. To(p, "putMember") /\ handler'[p].prof = prof /\ handler'[p].doc = r.doc
    BY <2>2, LoadTo DEF Calls
  <2>4. /\ r.at = "getMember" /\ r.op = "remove" /\ r # Idle
        /\ UNCHANGED <<profile, orgDoc, issued, brought>>
    BY DEF GetMember, At, store, arrived, history, Idle
  <2> QED
    BY <2>1, <2>2, <2>3, <2>4 DEF Goes, NextCall, Fits, To, Ops, Decided, CreateDecided,
       DeleteDecided, AcceptDecided, LeaveDecided, RemoveDecided, InviteDecided,
       PrivilegeDecided, Busy, Current, Stored, Members, Left
<1> QED  BY <1>1, <1>2

LEMMA DeleteProjectFits ==
    ASSUME TypeOK, NEW p \in Handlers, handler[p] \in Request, Fits(p), DeleteProject(p)
    PROVE  Fits(p)' /\ Goes(p)
<1> DEFINE r == handler[p]
<1>1. CASE Answer(p)
  BY <1>1, AnswerFits
<1>2. CASE Go(p, "putProfile")
  <2>1. To(p, "putProfile") /\ SameCopies(p)
    BY <1>2, GoTo DEF Calls
  <2>2. /\ r.at = "deleteProject" /\ r # Idle /\ UNCHANGED <<profile, orgDoc, issued, brought>>
    BY DEF DeleteProject, arrived, history, Idle
  <2>3. r.op = "delete"
    BY <2>2 DEF Fits, Ops
  <2>4. (Enlisted(p)' <=> Enlisted(p)) /\ (Unlisted(p)' <=> Unlisted(p))
    BY <2>1, <2>2, ListedStays
  <2> QED
    BY <2>1, <2>2, <2>3, <2>4 DEF Goes, NextCall, Fits, To, SameCopies, Ops, Decided, CreateDecided,
       DeleteDecided, AcceptDecided, LeaveDecided, RemoveDecided, InviteDecided,
       PrivilegeDecided, Busy, Current, Stored, Members, Deleting
<1> QED  BY <1>1, <1>2 DEF DeleteProject, WentOnTo

\* The lists of a profile, counted.
Fewer(n) == IF n > 0 THEN n - 1 ELSE n

LEMMA DropIs ==
    ASSUME NEW prof \in Profile, NEW o \in OrgIDs
    PROVE  /\ DropOrg(prof, o).used = prof.used
           /\ \A x \in OrgIDs : DropOrg(prof, o).orgs[x] =
                 IF x = o THEN Fewer(prof.orgs[x]) ELSE prof.orgs[x]
<1>1. prof.orgs \in [OrgIDs -> Nat]
  BY DEF Profile
<1>2. PICK n : n = Fewer(prof.orgs[o])
  OBVIOUS
<1>3. DropOrg(prof, o) = [prof EXCEPT !.orgs = [prof.orgs EXCEPT ![o] = n]]
  BY <1>2 DEF DropOrg, Fewer
<1>4. DropOrg(prof, o).orgs = [prof.orgs EXCEPT ![o] = n]
      /\ DropOrg(prof, o).used = prof.used
  BY <1>3 DEF Profile
<1> QED  BY <1>1, <1>2, <1>4

LEMMA PutProfileFits ==
    ASSUME TypeOK, Once, NEW p \in Handlers, handler[p] \in Request, Fits(p),
           PutProfile(p)
    PROVE  Fits(p)' /\ Goes(p)
<1> DEFINE r == handler[p]
<1>1. CASE Answer(p)
  BY <1>1, AnswerFits
<1>2. CASE r.op = "delete" /\ Go(p, "getCreator")
  <2>1. To(p, "getCreator") /\ SameCopies(p)
    BY <1>2, GoTo DEF Calls
  <2>2. /\ r.at = "putProfile" /\ r # Idle /\ UNCHANGED <<orgDoc, issued, brought>>
        /\ profile' = [profile EXCEPT ![r.user] = CallerProfile(r)]
    BY DEF PutProfile, arrived, history, Idle
  <2>3. profile'[r.user] = DropOrg(profile[r.user], r.org) /\ profile[r.user] \in Profile
        /\ r.user \in Registered /\ r.org \in OrgIDs
    BY <1>2, <2>2 DEF CallerProfile, TypeOK, Request, Fits, Current, Busy
  <2>4. Unlisted(p)'
    <3>1. profile'[r.user].orgs[r.org] = Fewer(profile[r.user].orgs[r.org])
      BY <2>3, DropIs
    <3>2. r.org \in Foreseen \/ profile'[r.user].orgs[r.org] = 0
      BY <2>3, <3>1 DEF Once, Fewer
    <3> QED  BY <2>1, <3>2 DEF Unlisted, Enlisted, Lists, Foreseen, To
  <2> QED
    BY <1>2, <2>1, <2>2, <2>4 DEF Goes, NextCall, Fits, To, SameCopies, Ops, Decided, CreateDecided,
       DeleteDecided, AcceptDecided, LeaveDecided, RemoveDecided, InviteDecided,
       PrivilegeDecided, Busy, Current, Stored, Members, Deleting
<1> QED  BY <1>1, <1>2 DEF PutProfile, WentOnTo

LEMMA GetCreatorFits ==
    ASSUME TypeOK, NEW p \in Handlers, handler[p] \in Request, Fits(p), GetCreator(p)
    PROVE  Fits(p)' /\ Goes(p)
<1> DEFINE r == handler[p]
<1>1. PICK prof : prof = profile[r.doc.createBy]
  OBVIOUS
<1>2. Loads(p, "putCreator", prof)
  BY <1>1 DEF GetCreator, Loads
<1>3. To(p, "putCreator") /\ handler'[p].prof = prof /\ handler'[p].doc = r.doc
  BY <1>2, LoadTo DEF Calls
<1>4. /\ r.at = "getCreator" /\ r # Idle /\ UNCHANGED <<profile, orgDoc, issued, brought>>
  BY DEF GetCreator, store, arrived, history, Idle
<1>5. r.op = "delete"
  BY <1>4 DEF Fits, Ops
<1>6. (Enlisted(p)' <=> Enlisted(p)) /\ (Unlisted(p)' <=> Unlisted(p))
  BY <1>3, <1>4, ListedStays
<1> QED
  BY <1>1, <1>3, <1>4, <1>5, <1>6 DEF Goes, NextCall, Fits, To, Ops, Decided, CreateDecided,
     DeleteDecided, AcceptDecided, LeaveDecided, RemoveDecided, InviteDecided,
     PrivilegeDecided, Busy, Current, Stored, Members, Deleting

LEMMA PutCreatorFits ==
    ASSUME TypeOK, Loaded, NEW p \in Handlers, handler[p] \in Request, Fits(p), PutCreator(p)
    PROVE  Fits(p)' /\ Goes(p)
<1> DEFINE r == handler[p]
<1>1. To(p, "deleteOrg") /\ SameCopies(p)
  BY GoTo DEF Calls, PutCreator
<1>2. /\ r.at = "putCreator" /\ r # Idle /\ UNCHANGED <<orgDoc, issued, brought>>
  BY DEF PutCreator, arrived, history, Idle
<1>3. r.op = "delete"
  BY <1>2 DEF Fits, Ops
<1>4. profile'[r.user].orgs = profile[r.user].orgs
  <2>1. r.prof = profile[r.doc.createBy] /\ r.prof \in Profile /\ r.user \in Registered
    BY <1>2, <1>3 DEF Fits, Current, Busy, Request
  <2>2. [r.prof EXCEPT !.used = @ - 1].orgs = r.prof.orgs
    BY <2>1 DEF Profile
  <2> QED  BY <2>1, <2>2 DEF PutCreator, TypeOK
<1>5. Unlisted(p)' <=> Unlisted(p)
  BY <1>1, <1>4 DEF Unlisted, Enlisted, Lists, Foreseen, To
<1> QED
  BY <1>1, <1>2, <1>3, <1>5 DEF Goes, NextCall, Fits, To, SameCopies, Ops, Decided, CreateDecided,
     DeleteDecided, AcceptDecided, LeaveDecided, RemoveDecided, InviteDecided,
     PrivilegeDecided, Busy, Current, Stored, Members, Deleting

LEMMA StepFits ==
    ASSUME IInv, Once, NEW p \in Handlers, Step(p), Fits(p)
    PROVE  Fits(p)' /\ Goes(p)
<1>0. TypeOK /\ Loaded /\ handler[p] \in Request
  BY StepActive, AtRequest DEF IInv
<1>1. CASE GetProfile(p)  BY <1>0, <1>1, GetProfileFits
<1>2. CASE OrgMissing(p)  BY <1>0, <1>2, AnswerFits DEF OrgMissing
<1>3. CASE DecideDelete(p)  BY <1>3, DecideDeleteFits
<1>4. CASE DecideAccept(p)  BY <1>4, DecideAcceptFits
<1>5. CASE DecideLeave(p)  BY <1>5, DecideLeaveFits
<1>6. CASE DecideInvite(p)  BY <1>6, DecideInviteFits
<1>7. CASE DecideRemove(p)  BY <1>7, DecideRemoveFits
<1>8. CASE DecidePrivilege(p)  BY <1>8, DecidePrivilegeFits
<1>9. CASE InviteMember(p)  BY <1>0, <1>9, InviteMemberFits
<1>10. CASE PostProject(p)  BY <1>0, <1>10, PostProjectFits
<1>11. CASE CreateRoleBinding(p)  BY <1>0, <1>11, CreateRoleBindingFits
<1>12. CASE UpdateAdminRole(p)  BY <1>0, <1>12, UpdateAdminRoleFits
<1>13. CASE UpdateEditRole(p)  BY <1>0, <1>13, UpdateEditRoleFits
<1>14. CASE PutOrg(p)  BY <1>0, <1>14, PutOrgFits
<1>15. CASE GetProfileAgain(p)  BY <1>0, <1>15, GetProfileAgainFits
<1>16. CASE PutProfile(p)  BY <1>0, <1>16, PutProfileFits
<1>17. CASE GetMember(p)  BY <1>0, <1>17, GetMemberFits
<1>18. CASE PutMember(p)  BY <1>0, <1>18, AnswerFits DEF PutMember
<1>19. CASE DeleteProject(p)  BY <1>0, <1>19, DeleteProjectFits
<1>20. CASE GetCreator(p)  BY <1>0, <1>20, GetCreatorFits
<1>21. CASE PutCreator(p)  BY <1>0, <1>21, PutCreatorFits
<1>22. CASE DeleteOrg(p)  BY <1>0, <1>22, AnswerFits DEF DeleteOrg
<1> QED  BY <1>1, <1>2, <1>3, <1>4, <1>5, <1>6, <1>7, <1>8, <1>9, <1>10, <1>11,
            <1>12, <1>13, <1>14, <1>15, <1>16, <1>17, <1>18, <1>19, <1>20, <1>21,
            <1>22 DEF Step
-----------------------------------------------------------------------------
\* Which action a call is.
LEMMA ActionAt ==
    ASSUME NEW p \in Handlers, Step(p)
    PROVE  LET at == handler[p].at
           IN  /\ at = "getProfile" => GetProfile(p)
               /\ at = "postProject" => PostProject(p)
               /\ at \in {"postAdmin", "postEdit"} => CreateRoleBinding(p)
               /\ at = "adminRole" => UpdateAdminRole(p)
               /\ at = "editRole" => UpdateEditRole(p)
               /\ at = "putOrg" => PutOrg(p)
               /\ at = "getAgain" => GetProfileAgain(p)
               /\ at = "putProfile" => PutProfile(p)
               /\ at = "getMember" => GetMember(p) \/ InviteMember(p)
               /\ at = "putMember" => PutMember(p)
               /\ at = "deleteProject" => DeleteProject(p)
               /\ at = "getCreator" => GetCreator(p)
               /\ at = "putCreator" => PutCreator(p)
               /\ at = "deleteOrg" => DeleteOrg(p)
BY DEF Step, GetProfile, OrgMissing, DecideDelete, DecideAccept, DecideLeave,
       DecideInvite, DecideRemove, DecidePrivilege, InviteMember, PostProject,
       CreateRoleBinding, UpdateAdminRole, UpdateEditRole, PutOrg, GetProfileAgain,
       PutProfile, GetMember, PutMember, DeleteProject, GetCreator, PutCreator,
       DeleteOrg, Reads, At

\* What PutProfile makes of the caller's list, and of his count.
LEMMA CallerIs ==
    ASSUME NEW r \in Request
    PROVE  /\ CallerProfile(r).used = IF r.op = "create" THEN r.prof.used + 1
                                      ELSE r.prof.used
           /\ \A x \in OrgIDs : LET n == r.prof.orgs[x]
                                IN  CallerProfile(r).orgs[x] =
                 CASE x # r.org        -> n
                   [] r.op = "create" /\ x = r.org -> n + 1
                   [] r.op = "accept" /\ x = r.org -> IF n > 0 THEN n ELSE 1
                   [] OTHER            -> Fewer(n)
<1>1. /\ r.prof \in Profile /\ r.org \in OrgIDs /\ r.prof.orgs \in [OrgIDs -> Nat]
      /\ \A x \in OrgIDs : r.prof.orgs[x] \in Nat
  BY DEF Request, Profile
<1>2. CASE r.op = "create"
  <2>1. PICK n, i : n = r.prof.orgs[r.org] + 1 /\ i = r.prof.used + 1
    OBVIOUS
  <2>2. CallerProfile(r) =
           [r.prof EXCEPT !.orgs = [r.prof.orgs EXCEPT ![r.org] = n], !.used = i]
    BY <1>2, <2>1 DEF CallerProfile
  <2>3. /\ CallerProfile(r).orgs = [r.prof.orgs EXCEPT ![r.org] = n]
        /\ CallerProfile(r).used = i
    BY <1>1, <2>2 DEF Profile
  <2> QED  BY <1>1, <1>2, <2>1, <2>3
<1>3. CASE r.op = "accept"
  <2>1. PICK n : n = IF r.prof.orgs[r.org] > 0 THEN r.prof.orgs[r.org] ELSE 1
    OBVIOUS
  <2>2. CallerProfile(r) = [r.prof EXCEPT !.orgs = [r.prof.orgs EXCEPT ![r.org] = n]]
    BY <1>3, <2>1 DEF CallerProfile, AddOrg
  <2>3. /\ CallerProfile(r).orgs = [r.prof.orgs EXCEPT ![r.org] = n]
        /\ CallerProfile(r).used = r.prof.used
    BY <1>1, <2>2 DEF Profile
  <2> QED  BY <1>1, <1>3, <2>1, <2>3
<1>4. CASE r.op \notin {"create", "accept"}
  <2>1. CallerProfile(r) = DropOrg(r.prof, r.org)
    BY <1>4 DEF CallerProfile
  <2> QED  BY <1>1, <1>4, <2>1, DropIs
<1> QED  BY <1>2, <1>3, <1>4

\* What a step does to the lists and counts of the profiles.
LEMMA ProfileStep ==
    ASSUME IInv, NEW p \in Handlers, handler[p] \in Request, Fits(p), Step(p),
           NEW u \in Registered, NEW o \in OrgIDs
    PROVE  LET r == handler[p]
               n == profile[u].orgs[o]
           IN  profile'[u].orgs[o] =
                 CASE r.at = "putProfile" /\ u = r.user /\ o = r.org ->
                        (CASE r.op = "create" -> n + 1
                           [] r.op = "accept" -> IF n > 0 THEN n ELSE 1
                           [] OTHER           -> Fewer(n))
                   [] r.at = "putMember" /\ u = r.target /\ o = r.org -> Fewer(n)
                   [] OTHER -> n
<1> DEFINE r == handler[p]
<1>a. r # Idle
  BY StepActive DEF Idle
<1>0. TypeOK /\ r.op \in Ops(r.at) /\ r.prof \in Profile /\ r.user \in Registered
      /\ profile[u] \in Profile /\ r.org \in OrgIDs
  BY <1>a DEF IInv, TypeOK, Request, Fits
<1>1. CASE PutProfile(p)
  <2>1. profile' = [profile EXCEPT ![r.user] = CallerProfile(r)] /\ r.prof = profile[r.user]
        /\ r.op \in {"create", "accept", "leave", "delete"} /\ r.at = "putProfile"
    BY <1>a, <1>0, <1>1 DEF PutProfile, Fits, Current, Busy, Ops
  <2>2. profile'[u] = IF u = r.user THEN CallerProfile(r) ELSE profile[u]
    BY <1>0, <2>1 DEF TypeOK
  <2>3. CallerProfile(r).orgs[o] =
           CASE o # r.org                    -> profile[r.user].orgs[o]
             [] r.op = "create" /\ o = r.org -> profile[r.user].orgs[o] + 1
             [] r.op = "accept" /\ o = r.org -> IF profile[r.user].orgs[o] > 0
                                                THEN profile[r.user].orgs[o] ELSE 1
             [] OTHER                        -> Fewer(profile[r.user].orgs[o])
    BY <2>1, CallerIs
  <2> QED  BY <2>1, <2>2, <2>3
<1>2. CASE PutMember(p)
  <2>1. /\ profile' = [profile EXCEPT ![r.target] = DropOrg(r.prof, r.org)]
        /\ r.prof = profile[r.target] /\ r.target \in Registered /\ r.at = "putMember"
    BY <1>a, <1>0, <1>2 DEF PutMember, Fits, Current, Busy, Ops
  <2>2. profile'[u] = IF u = r.target THEN DropOrg(r.prof, r.org) ELSE profile[u]
    BY <1>0, <2>1 DEF TypeOK
  <2>3. DropOrg(r.prof, r.org).orgs[o] =
           IF o = r.org THEN Fewer(r.prof.orgs[o]) ELSE r.prof.orgs[o]
    BY <1>0, DropIs
  <2> QED  BY <2>1, <2>2, <2>3
<1>3. CASE PutCreator(p)
  <2>1. r.at = "putCreator" /\ r.op = "delete"
    BY <1>0, <1>3 DEF PutCreator, Ops
  <2>2. \/ profile' = profile
        \/ profile' = [profile EXCEPT ![r.doc.createBy] = [r.prof EXCEPT !.used = @ - 1]]
    BY <1>3 DEF PutCreator
  <2>3. r.prof = profile[r.doc.createBy]
    BY <1>a, <2>1 DEF Fits, Current, Busy
  <2>4. [r.prof EXCEPT !.used = @ - 1].orgs = r.prof.orgs
    BY <1>0 DEF Profile
  <2>5. profile'[u].orgs = profile[u].orgs
    BY <1>0, <2>2, <2>3, <2>4 DEF TypeOK
  <2> QED  BY <2>1, <2>5
<1>4. CASE ~PutProfile(p) /\ ~PutMember(p) /\ ~PutCreator(p)
  <2>1. profile' = profile
    BY <1>4, Frame
  <2>2. r.at \notin {"putProfile", "putMember"}
    BY <1>4, ActionAt
  <2> QED  BY <2>1, <2>2
<1> QED  BY <1>1, <1>2, <1>3, <1>4

\* What no sign-up listed is listed once at most, and not before its id is
\* issued.
LEMMA StepOnce ==
    ASSUME SInv, NEW p \in Handlers, handler[p] \in Request, handler[p] # Idle, Step(p),
           NEW u \in Registered, NEW o \in OrgIDs \ Foreseen
    PROVE  /\ profile'[u].orgs[o] \in {0, 1}
           /\ o \notin issued => profile'[u].orgs[o] = 0
<1> DEFINE r == handler[p]
           n == profile[u].orgs[o]
<1>1. IInv /\ Fits(p) /\ r.org \in issued /\ n \in {0, 1} /\ (o \notin issued => n = 0)
  BY DEF SInv, Fits, Once, Unissued, Lists
<1>2. r.op = "create" /\ u = r.user /\ o = r.org => n = 0
  BY <1>1 DEF Fits, Current, Unlisted, Enlisted, Lists
<1> QED  BY <1>1, <1>2, ProfileStep DEF Fewer

LEMMA InitSInv == Init => SInv
<1> SUFFICES ASSUME Init PROVE SInv
  OBVIOUS
<1>1. \A u \in Registered, o \in OrgIDs \ Foreseen : profile[u].orgs[o] = 0
  <2> SUFFICES ASSUME NEW u \in Registered, NEW o \in OrgIDs \ Foreseen
               PROVE  FirstProfile[u].orgs[o] = 0
    BY DEF Init
  <2>1. FirstProfile[u].orgs[o] \in Nat
    BY OrgAssumption DEF Profile
  <2>2. ~(FirstProfile[u].orgs[o] > 0)
    BY DEF Foreseen, Lists
  <2> QED  BY <2>1, <2>2
<1>2. Unissued /\ Once
  BY <1>1 DEF Init, Unissued, Once, Lists
<1>3. \A p \in Handlers : Fits(p)
  BY DEF Init, Fits
<1> QED  BY <1>2, <1>3, InitIInv DEF SInv

\* A step that leaves the handler and what it has copies of alone.
LEMMA StutterFits ==
    ASSUME NEW p \in Handlers, Fits(p), UNCHANGED <<profile, orgDoc, issued, brought, handler>>
    PROVE  Fits(p)'
BY DEF Fits, Ops, Decided, CreateDecided, DeleteDecided, AcceptDecided, LeaveDecided,
   RemoveDecided, InviteDecided, PrivilegeDecided, Busy, Current, Stored, Members,
   Deleting, Changed, NewEntry, Left, IsNew, Enlisted, Unlisted, Lists, Foreseen

\* While p is busy and alone, and only p changes, all others stay idle.
LEMMA OthersFit ==
    ASSUME OneAtATime, NEW p \in Handlers, handler[p] # Idle,
           NEW x, handler' = [handler EXCEPT ![p] = x], TypeOK,
           NEW q \in Handlers, q # p
    PROVE  handler[q] = Idle /\ handler'[q] = Idle /\ Fits(q)'
<1>1. handler[q] = Idle /\ handler'[q] = handler[q]
  BY DEF OneAtATime, TypeOK
<1> QED  BY <1>1, IdleFits

\* A request starts with nothing decided: a creation's id is new.
LEMMA ReceiveFits ==
    ASSUME IInv, Unissued, NEW p \in Handlers, Receive(p)
    PROVE  Fits(p)' /\ handler'[p] # Idle /\ handler[p] = Idle
           /\ \A q \in Handlers : q # p => handler'[q] = handler[q]
<1>1. PICK op \in Operations, u \in Registered, o \in OrgIDs, t \in Users,
           flag \in BOOLEAN :
         /\ op \notin {"invite", "remove", "privileged"} => t = u
         /\ op \notin {"invite", "privileged"} => ~flag
         /\ IF op = "create" THEN o \notin issued ELSE o \in issued
         /\ op = "accept" /\ ~AnyoneAccepts =>
               orgDoc[o] # NoDoc /\ IsMemberExist(orgDoc[o].members, u)
         /\ issued' = issued \cup {o}
         /\ handler' = [handler EXCEPT ![p] = NewRequest(op, u, o, t, flag)]
  BY Zenon DEF Receive
<1>2. PICK s : s = NewRequest(op, u, o, t, flag)
  OBVIOUS
<1>3. s.at = "getProfile" /\ s.op = op /\ s.user = u /\ s.org = o
  BY <1>2 DEF NewRequest
<1>4. handler'[p] = s /\ \A q \in Handlers : q # p => handler'[q] = handler[q]
  BY <1>1, <1>2 DEF IInv, TypeOK
<1>5. handler'[p] # Idle /\ handler[p] = Idle /\ orgDoc' = orgDoc
  BY <1>3, <1>4 DEF Idle, Receive, store
<1>6. op = "create" => orgDoc'[o] = NoDoc
  BY <1>1, <1>5 DEF Unissued
<1>7. Decided(p)'
  BY <1>1, <1>3, <1>4, <1>5, <1>6 DEF Decided, CreateDecided, DeleteDecided, AcceptDecided,
     LeaveDecided, RemoveDecided, InviteDecided, PrivilegeDecided, Busy, Stored, Members,
     Deleting
<1>8. Current(p)'
  <2>1. op = "create" => Unlisted(p)'
    BY <1>1, <1>3, <1>4 DEF Unissued, Unlisted, Enlisted, Lists, Foreseen, Receive, store
  <2> QED  BY <1>3, <1>4, <2>1 DEF Current, Busy
<1>9. handler'[p].op \in Ops(handler'[p].at)
  BY <1>3, <1>4 DEF Ops
<1> QED  BY <1>1, <1>3, <1>4, <1>5, <1>7, <1>8, <1>9 DEF Fits

\* Only p's step, and what it does to p.
LEMMA StepAlone ==
    ASSUME IInv, OneAtATime, NEW p \in Handlers, Step(p)
    PROVE  /\ handler[p] \in Request /\ handler[p] # Idle
           /\ \E x : handler' = [handler EXCEPT ![p] = x]
           /\ \A q \in Handlers : q # p => handler[q] = Idle /\ handler'[q] = Idle
<1>1. handler[p] \in Request /\ handler[p] # Idle
  BY StepActive, AtRequest DEF IInv, Idle
<1>2. HistoryGrows
  BY Growth DEF Next, IInv
<1>3. PICK x : handler' = [handler EXCEPT ![p] = x]
  BY <1>2, StepMoves DEF Moves
<1> QED  BY <1>1, <1>3, OthersFit DEF IInv

\* What no request of a step touches.
LEMMA Unchanging ==
    ASSUME Unissued, Once, UNCHANGED <<profile, orgDoc, projects>>, issued \subseteq issued'
    PROVE  Unissued' /\ Once'
BY DEF Unissued, Once, Lists, Foreseen

LEMMA NextSInv == SInv /\ OneAtATime /\ OneAtATime' /\ [Next]_vars => SInv'
<1> SUFFICES ASSUME SInv, OneAtATime, OneAtATime', [Next]_vars PROVE SInv'
  OBVIOUS
<1>1. IInv /\ IInv' /\ TypeOK
  BY NextIInv DEF SInv, IInv
<1>2. CASE UNCHANGED vars
  BY <1>1, <1>2, Unchanging, StutterFits DEF SInv, vars, store, arrived, history
<1>3. CASE Restart
  <2>1. handler' = [p \in Handlers |-> Idle] /\ UNCHANGED <<store, arrived>>
    BY <1>3 DEF Restart
  <2> QED  BY <1>1, <2>1, Unchanging, IdleFits DEF SInv, store, arrived
<1>4. ASSUME NEW p \in Handlers, Receive(p) PROVE SInv'
  <2>1. Fits(p)' /\ handler'[p] # Idle
        /\ \A q \in Handlers : q # p => handler'[q] = handler[q]
    BY <1>1, <1>4, ReceiveFits DEF SInv
  <2>2. \A q \in Handlers : q # p => Fits(q)'
    BY <2>1, IdleFits DEF OneAtATime
  <2>3. Unissued' /\ Once'
    BY <1>4, Unchanging DEF SInv, Receive, store
  <2> QED  BY <1>1, <2>1, <2>2, <2>3 DEF SInv
<1>5. ASSUME NEW p \in Handlers, CallFails(p) PROVE SInv'
  <2>1. handler[p] # Idle /\ Answer(p) /\ UNCHANGED <<store, arrived>>
    BY <1>5 DEF CallFails, Idle, Calls
  <2>2. \A q \in Handlers : Fits(q)'
    BY <1>1, <2>1, OthersFit, AnswerFits DEF Answer
  <2> QED  BY <1>1, <2>1, <2>2, Unchanging DEF SInv, store, arrived
<1>6. ASSUME NEW p \in Handlers, Step(p) PROVE SInv'
  <2>1. \A q \in Handlers : Fits(q)'
    BY <1>1, <1>6, StepAlone, StepFits, IdleFits DEF SInv
  <2>2. handler[p].org \in issued /\ issued' = issued
    BY <1>1, <1>6, StepAlone, Frame DEF SInv, Fits, arrived
  <2>3. \A o \in OrgIDs \ {handler[p].org} : orgDoc'[o] = orgDoc[o]
    BY <1>1, <1>6, Frame DEF TypeOK, PutOrg, DeleteOrg
  <2>a. handler[p] \in Request /\ handler[p] # Idle
    BY <1>1, <1>6, StepAlone
  <2>b. \A u \in Registered, o \in OrgIDs \ Foreseen :
           /\ profile'[u].orgs[o] \in {0, 1}
           /\ o \notin issued => profile'[u].orgs[o] = 0
    BY <1>6, <2>a, StepOnce
  <2>4. Unissued' /\ Once'
    <3>1. \A o \in OrgIDs \ issued : orgDoc'[o] = NoDoc /\ o \notin projects'
      BY <1>6, <2>2, <2>3, Frame DEF SInv, Unissued
    <3> QED  BY <2>2, <2>b, <3>1 DEF Unissued, Once, Lists, Foreseen
  <2> QED  BY <1>1, <2>1, <2>4 DEF SInv
<1> QED  BY <1>2, <1>3, <1>4, <1>5, <1>6 DEF Next
-----------------------------------------------------------------------------
(***************************************************************************)
(* The abstract specification: a put of a document, or its removal, is one *)
(* request of OrgRules carried out; every other step is none.              *)
(***************************************************************************)
\* The instance counts as this module does.
LEMMA SameCount == \A S : Rules!Cardinality(S) = Cardinality(S)
BY DEF Cardinality, Rules!Cardinality

LEMMA PutOrgRules ==
    ASSUME SInv, NEW p \in Handlers, PutOrg(p)
    PROVE  Rules!Next \/ UNCHANGED orgDoc
<1> DEFINE r == handler[p]
           o == r.org
           u == r.user
           s == Stored(p)
           ms == Members(p)
<1>1. /\ r \in Request /\ r # Idle /\ r.at = "putOrg" /\ Fits(p) /\ IInv
      /\ orgDoc' = [orgDoc EXCEPT ![o] = r.doc]
  BY AtRequest DEF PutOrg, SInv, IInv, Idle
<1>2. /\ o \in OrgIDs /\ u \in Registered /\ r.target \in Users /\ r.flag \in BOOLEAN
      /\ r.op \in Operations \ {"delete"}
  BY <1>1 DEF Request, Fits, Ops
<1>3. CASE r.op = "create"
  <2>1. s = NoDoc /\ IsNew(r.doc, u, o)
    BY <1>1, <1>3 DEF Fits, Decided, CreateDecided, Busy
  <2>2. PICK body \in Bodies : r.doc = NewOrganization(u, body)
    BY <2>1 DEF IsNew
  <2>3. r.doc = [createBy |-> u,
                 members |-> body \cup {Rules!Entry(u, TRUE, "joined",
                                                    Rules!Cardinality(Rules!Of(body, u)))}]
    BY <2>2, SameCount DEF Rules!Entry, Rules!Of, NewOrganization, EntriesOf
  <2>4. Rules!Create(o, u)
    BY <1>1, <2>1, <2>3 DEF Rules!Create, Stored
  <2> QED  BY <1>2, <2>4 DEF Rules!Next
<1>4. CASE r.op # "create"
  <2>1. \E members : Changed(p, members)
    BY <1>1, <1>2, <1>4 DEF Fits, Decided, AcceptDecided, LeaveDecided, RemoveDecided,
       InviteDecided, PrivilegeDecided, Busy, Operations
  <2>2. /\ s # NoDoc /\ s = orgDoc[o] /\ ms = orgDoc[o].members /\ ms \in SUBSET OrgMember
    BY <1>1, <2>1, ChangedIs DEF Changed, Members
  <2>3. ASSUME NEW members, Changed(p, members)
        PROVE  orgDoc' = [orgDoc EXCEPT ![o].members = members]
    BY <1>1, <2>2, <2>3 DEF Changed
  <2>4. \A x : Rules!Led(x) <=> HasJoinedAdmin(x)
    BY DEF Rules!Led, HasJoinedAdmin, JoinedAdmins
  <2>5. \A by : IsAdmin(ms, by) => by \in Rules!Admins(o)
    BY <2>2 DEF IsAdmin, Rules!Admins
  <2>6. ASSUME NEW by, NEW left \in RemoveMember(ms, by)
        PROVE  left \in Rules!Without(o, by) /\ (Rules!Several(o, by) <=> Several(ms, by))
    <3>1. PICK gone \in SUBSET EntriesOf(ms, by) :
             left = ms \ gone /\ (gone = {} => EntriesOf(ms, by) = {})
      BY <2>6 DEF RemoveMember
    <3>2. Rules!Of(orgDoc[o].members, by) = EntriesOf(ms, by)
      BY <2>2 DEF Rules!Of, EntriesOf
    <3>3. Rules!Several(o, by) <=> Several(ms, by)
      BY <3>2 DEF Rules!Several, Several
    <3>4. ~Several(ms, by) => gone = EntriesOf(ms, by)
      BY <3>1 DEF Several
    <3> QED  BY <2>2, <3>1, <3>2, <3>3, <3>4 DEF Rules!Without
  <2>7. CASE r.op = "accept"
    <3>1. Changed(p, MemberJoined(ms, u))
      BY <1>1, <2>7 DEF Fits, Decided, AcceptDecided, Busy
    <3>2. Rules!Led(ms) => Rules!Led(MemberJoined(ms, u))
      BY <2>2, <2>4, JoinKeepsAdmin
    <3>3. Rules!Becomes(o, MemberJoined(ms, u))
      BY <2>2, <2>3, <3>1, <3>2 DEF Rules!Becomes
    <3>4. Rules!Accept(o, u)
      BY <2>2, <3>3 DEF Rules!Accept, MemberJoined
    <3> QED  BY <1>2, <3>4 DEF Rules!Next
  <2>8. CASE r.op = "leave"
    <3>1. ~IsLastAdmin(ms, u)
      BY <1>1, <2>8 DEF Fits, Decided, LeaveDecided, Busy
    <3>2. PICK left \in RemoveMember(ms, u) : Changed(p, left)
      BY <1>1, <2>8 DEF Fits, Decided, LeaveDecided, Busy
    <3>3. left \in Rules!Without(o, u) /\ (Rules!Several(o, u) <=> Several(ms, u))
      BY <2>6
    <3>4. Rules!Led(ms) => Rules!Led(left) \/ Several(ms, u)
      BY <2>2, <2>4, <3>1, LeaveKeepsAdmin
    <3>5. orgDoc' = [orgDoc EXCEPT ![o].members = left]
      BY <2>3, <3>2
    <3>6. Rules!Leave(o, u)
      BY <2>2, <3>3, <3>4, <3>5 DEF Rules!Leave
    <3> QED  BY <1>2, <3>6 DEF Rules!Next
  <2>9. CASE r.op = "remove"
    <3>1. IsAdmin(ms, u) /\ u # r.target
      BY <1>1, <2>9 DEF Fits, Decided, RemoveDecided, Busy
    <3>2. PICK left \in RemoveMember(ms, r.target) : Changed(p, left)
      BY <1>1, <2>9 DEF Fits, Decided, RemoveDecided, Busy
    <3>3. left \in Rules!Without(o, r.target)
      BY <2>6
    <3>4. orgDoc' = [orgDoc EXCEPT ![o].members = left]
      BY <2>3, <3>2
    <3>5. Rules!Remove(o, u, r.target)
      BY <2>2, <2>5, <3>1, <3>3, <3>4 DEF Rules!Remove
    <3> QED  BY <1>2, <3>5 DEF Rules!Next
  <2>10. CASE r.op = "invite"
    <3>1. /\ Changed(p, ms \cup {NewEntry(r)})
          /\ IsAdmin(ms, u) /\ ~IsMemberExist(ms, r.target) /\ r.target \in Registered
      BY <1>1, <2>10 DEF Fits, Decided, InviteDecided, Busy
    <3>2. NewEntry(r) = Rules!Entry(r.target, r.flag, "invited", 0)
      BY DEF NewEntry, Rules!Entry
    <3>3. Rules!Led(ms) => Rules!Led(ms \cup {NewEntry(r)})
      BY DEF Rules!Led
    <3>4. Rules!Becomes(o, ms \cup {NewEntry(r)})
      BY <2>2, <2>3, <3>1, <3>3 DEF Rules!Becomes
    <3>5. Rules!Of(orgDoc[o].members, r.target) = {}
      BY <2>2, <3>1 DEF Rules!Of, IsMemberExist
    <3>6. Rules!Invite(o, u, r.target, r.flag)
      BY <2>2, <2>5, <3>1, <3>2, <3>4, <3>5 DEF Rules!Invite
    <3> QED  BY <1>2, <3>6 DEF Rules!Next
  <2>11. CASE r.op = "privileged"
    <3>1. IsAdmin(ms, u) /\ ~IsLastAdmin(ms, r.target)
      BY <1>1, <2>11 DEF Fits, Decided, PrivilegeDecided, Busy
    <3>2. PICK set \in SetPrivilege(ms, r.target, r.flag) : Changed(p, set)
      BY <1>1, <2>11 DEF Fits, Decided, PrivilegeDecided, Busy
    <3>3. PICK m \in EntriesOf(ms, r.target) :
             set = (ms \ {m}) \cup {[m EXCEPT !.admin = r.flag]}
      BY <3>2 DEF SetPrivilege
    <3>4. Rules!Led(ms) => Rules!Led(set)
      BY <1>2, <2>2, <2>4, <3>1, <3>2, PrivilegeKeepsAdmin
    <3>5. Rules!Becomes(o, set)
      BY <2>2, <2>3, <3>2, <3>4 DEF Rules!Becomes
    <3>6. m \in Rules!Of(orgDoc[o].members, r.target)
      BY <2>2, <3>3 DEF Rules!Of, EntriesOf
    <3>7. Rules!Privilege(o, u, r.target, r.flag)
      BY <2>2, <2>5, <3>1, <3>3, <3>5, <3>6 DEF Rules!Privilege
    <3> QED  BY <1>2, <3>7 DEF Rules!Next
  <2> QED  BY <1>2, <1>4, <2>7, <2>8, <2>9, <2>10, <2>11 DEF Operations
<1> QED  BY <1>3, <1>4

LEMMA DeleteOrgRules ==
    ASSUME SInv, NEW p \in Handlers, DeleteOrg(p)
    PROVE  Rules!Next \/ UNCHANGED orgDoc
<1> DEFINE r == handler[p]
<1>1. r \in Request /\ r # Idle /\ r.at = "deleteOrg" /\ Fits(p)
  BY AtRequest DEF DeleteOrg, SInv, IInv, Idle
<1>2. r.org \in OrgIDs /\ r.user \in Registered /\ r.op = "delete"
  BY <1>1 DEF Request, Fits, Ops
<1>3. /\ Stored(p) # NoDoc
      /\ IsAdmin(Members(p), r.user) /\ ~SeveralJoined(Members(p))
  BY <1>1, <1>2 DEF Fits, Decided, DeleteDecided, Busy, Deleting
<1>4. CASE orgDoc' = [orgDoc EXCEPT ![r.org] = NoDoc]
  <2>1. r.user \in Rules!Admins(r.org)
    BY <1>3 DEF IsAdmin, Rules!Admins, Members, Stored
  <2>2. \A m, n \in orgDoc[r.org].members :
           m.status = "joined" /\ n.status = "joined" => m = n
    BY <1>3 DEF SeveralJoined, Members, Stored
  <2>3. Rules!Delete(r.org, r.user)
    BY <1>3, <1>4, <2>1, <2>2 DEF Rules!Delete, Stored
  <2> QED  BY <1>2, <2>3 DEF Rules!Next
<1> QED  BY <1>4 DEF DeleteOrg

\* The documents start as the abstract specification does, and every step is
\* one of its requests or leaves all of them alone.
LEMMA InitRules == Init => Rules!Init
BY DEF Init, Rules!Init

LEMMA NextRules == SInv /\ [Next]_vars => [Rules!Next]_orgDoc
<1> SUFFICES ASSUME SInv, [Next]_vars PROVE Rules!Next \/ UNCHANGED orgDoc
  OBVIOUS
<1>1. ASSUME NEW p \in Handlers, Step(p) PROVE Rules!Next \/ UNCHANGED orgDoc
  BY <1>1, Frame, PutOrgRules, DeleteOrgRules
<1> QED  BY <1>1 DEF Next, vars, store, Restart, Receive, CallFails

\* The serial invariant holds as long as no two requests overlap.
THEOREM SerialInductive == Spec /\ []OneAtATime => []SInv
BY InitSInv, NextSInv, PTL DEF Spec

\* While requests do not overlap, the API implements OrgRules whatever calls
\* fail and however often the process dies: every change of a document is one
\* permitted request, whole.
THEOREM RulesImplemented == Spec /\ []OneAtATime => ImplementsRules
BY SerialInductive, InitRules, NextRules, PTL DEF Spec, ImplementsRules, Rules!Spec
-----------------------------------------------------------------------------
(***************************************************************************)
(* What a request owes the store while no call has failed.                 *)
(***************************************************************************)
\* A creation has its project before its document, a deletion the other way.
Making(p, o) ==
    Busy(p, "create", {"postAdmin", "postEdit", "putOrg"}) /\ handler[p].org = o
Dropping(p, o) ==
    Busy(p, "delete", Deleting \ {"deleteProject"}) /\ handler[p].org = o

Projects == \A o \in OrgIDs :
    o \in projects <=>
        \/ \E p \in Handlers : Making(p, o)
        \/ orgDoc[o] # NoDoc /\ \A p \in Handlers : ~Dropping(p, o)

\* A creation counts its organization after the document is put, a deletion
\* before it is gone.
Created(u) == {o \in Existing : orgDoc[o].createBy = u}
Owing(p, u) ==
    \/ Busy(p, "create", {"putProfile"}) /\ handler[p].user = u
    \/ Busy(p, "delete", {"deleteOrg"}) /\ Stored(p).createBy = u

Quota ==
    /\ IsFiniteSet(Existing)
    /\ \A u \in Registered :
          LET owed == FirstProfile[u].used + Cardinality(Created(u))
          IN  IF \E p \in Handlers : Owing(p, u) THEN profile[u].used + 1 = owed
                                                 ELSE profile[u].used = owed

\* The bindings are given the new flags before the document has them.
Rebinding(p, o) ==
    /\ handler[p].at \in {"editRole", "putOrg"}
    /\ handler[p].op \in {"invite", "privileged"} /\ handler[p].org = o
Bound(o) ==
    \A m \in orgDoc[o].members :
        m.name \notin brought[o] \cup {orgDoc[o].createBy} =>
            /\ m.name \in adminRole[o] <=> m.admin
            /\ m.name \in editRole[o] <=> ~m.admin

Bindings ==
    /\ \A o \in Existing :
          (\A p \in Handlers : ~Rebinding(p, o) /\ ~Dropping(p, o)) => Bound(o)
    /\ \A p \in Handlers :
          /\ handler[p].at = "editRole" => ~handler[p].err
          /\ Rebinding(p, handler[p].org) =>
                adminRole[handler[p].org] = AdminNames(handler[p].doc.members)
          /\ Rebinding(p, handler[p].org) /\ handler[p].at = "putOrg" =>
                editRole[handler[p].org] = EditNames(handler[p].doc.members)

\* A profile follows the document it is listed for; a deletion drops the list
\* entry of its caller, who is the one that had joined.
Lagging(p, u, o) ==
    LET r == handler[p]
    IN  /\ r.org = o
        /\ \/ /\ u = r.user /\ r.op \in {"create", "accept", "leave"}
              /\ r.at \in {"getAgain", "putProfile"}
           \/ /\ u = r.user /\ r.op = "delete"
              /\ r.at \in {"getCreator", "putCreator", "deleteOrg"}
           \/ /\ u = r.target /\ r.op = "remove"
              /\ r.at \in {"adminRole", "editRole", "getMember", "putMember"}
Listed(u, o) == Lists(profile[u], o)
Joined(u, o) == orgDoc[o] # NoDoc /\ HasJoined(orgDoc[o].members, u)

Agree(u, o) ==
    /\ Joined(u, o) /\ u \notin brought[o] => Listed(u, o)
    /\ Listed(u, o) /\ o \notin Foreseen => Joined(u, o)

NoneElse(p) ==
    Busy(p, "delete", Deleting) /\ handler[p].org \notin Foreseen =>
        \A u \in Registered \ {handler[p].user} : ~HasJoined(Members(p), u)

Listings ==
    /\ \A u \in Registered, o \in OrgIDs :
          (\A p \in Handlers : ~Lagging(p, u, o)) => Agree(u, o)
    /\ \A p \in Handlers : NoneElse(p)

\* What is known of a step while requests do not overlap.
Alone(p) ==
    /\ IInv /\ IInv' /\ Unissued /\ Once /\ HistoryGrows
    /\ handler[p] \in Request /\ handler[p] # Idle
    /\ Fits(p) /\ Fits(p)' /\ Goes(p)
    /\ handler[p].op \in Ops(handler[p].at)
    /\ \A q \in Handlers : q # p =>
          handler[q].at \notin Calls /\ handler'[q].at \notin Calls

LEMMA StepIsAlone ==
    ASSUME SInv, OneAtATime, NEW p \in Handlers, Step(p)
    PROVE  Alone(p)
<1>1. IInv /\ IInv' /\ Unissued /\ Once /\ HistoryGrows /\ Fits(p)
  BY NextIInv, Growth DEF SInv, IInv, Next
<1>2. Fits(p)' /\ Goes(p)
  BY <1>1, StepFits
<1>3. "idle" \notin Calls
  BY DEF Calls
<1> QED  BY <1>1, <1>2, <1>3, StepAlone DEF Alone, Fits, Idle

\* A behaviour without faults so far took no fault in its last step.
LEMMA Unfailing ==
    ASSUME TypeOK, faults' = 0
    PROVE  ~Fault
BY OrgAssumption DEF TypeOK, Fault

LEMMA FaultsStay ==
    ASSUME TypeOK, [Next]_vars, faults' = 0
    PROVE  faults = 0
<1>1. ~Fault
  BY Unfailing
<1>2. ASSUME NEW p \in Handlers, Step(p) PROVE faults' = faults
  BY <1>1, <1>2 DEF Step, GetProfile, OrgMissing, DecideDelete, DecideAccept, DecideLeave,
       DecideInvite, DecideRemove, DecidePrivilege, InviteMember, PostProject,
       CreateRoleBinding, UpdateAdminRole, UpdateEditRole, UpdateRole, PutOrg,
       GetProfileAgain, PutProfile, GetMember, PutMember, DeleteProject, GetCreator,
       PutCreator, DeleteOrg, WentOnTo, NoFault
<1> QED  BY <1>1, <1>2 DEF Next, vars, Restart, Receive, CallFails

LEMMA ProjectsStep ==
    ASSUME NEW p \in Handlers, Alone(p), Step(p), faults' = 0, Projects
    PROVE  Projects'
<1> DEFINE r == handler[p]
<1>0. TypeOK /\ ~Fault /\ r.op \in Ops(r.at) /\ r.org \in OrgIDs
  BY Unfailing DEF Alone, IInv, Request
<1> SUFFICES ASSUME NEW o \in OrgIDs
             PROVE  o \in projects' <=> \/ \E q \in Handlers : Making(q, o)'
                                        \/ orgDoc'[o] # NoDoc
                                           /\ \A q \in Handlers : ~Dropping(q, o)'
  BY DEF Projects
<1>1. \A q \in Handlers : q # p => /\ ~Making(q, o) /\ ~Dropping(q, o)
                                   /\ ~Making(q, o)' /\ ~Dropping(q, o)'
  BY DEF Alone, Making, Dropping, Busy, Deleting, Calls
<1>2. o \in projects <=> Making(p, o) \/ (orgDoc[o] # NoDoc /\ ~Dropping(p, o))
  BY <1>1 DEF Projects
<1> SUFFICES o \in projects' <=> Making(p, o)' \/ (orgDoc'[o] # NoDoc /\ ~Dropping(p, o)')
  BY <1>1
<1>3. CASE o # r.org
  <2>1. orgDoc'[o] = orgDoc[o] /\ (o \in projects' <=> o \in projects)
    BY <1>0, <1>3, Frame DEF TypeOK, PutOrg, DeleteOrg, DeleteProject
  <2>2. ~Making(p, o) /\ ~Dropping(p, o) /\ ~Making(p, o)' /\ ~Dropping(p, o)'
    BY <1>3 DEF Making, Dropping, Busy, Alone, Goes, To, Idle, Deleting
  <2> QED  BY <1>2, <2>1, <2>2
<1>4. CASE o = r.org
  <2>1. CASE PostProject(p)
    <3>1. o \in projects' /\ handler'[p].at = "postAdmin" /\ handler'[p].org = o
          /\ handler'[p].op = "create"
      <4>1. r.op = "create"
        BY <1>0, <2>1 DEF PostProject, Ops
      <4>2. handler'[p] # Idle
        BY <1>0, <2>1 DEF PostProject, TypeOK, Idle, Alone, Request
      <4>3. o \in projects' /\ handler'[p].at = "postAdmin"
        BY <1>0, <1>4, <2>1 DEF PostProject, TypeOK, Alone, Request
      <4> QED  BY <1>4, <4>1, <4>2, <4>3 DEF Alone, Goes, To
    <3> QED  BY <3>1 DEF Making, Busy
  <2>2. CASE PutOrg(p)
    <3>1. projects' = projects /\ orgDoc'[o] = r.doc /\ r.doc # NoDoc /\ r.at = "putOrg"
      BY <1>0, <1>4, <2>2 DEF PutOrg, TypeOK, Alone, IInv, Loaded, Calls
    <3>2. r.op # "delete"
      BY <1>0, <3>1 DEF Ops
    <3>3. ~Making(p, o)' /\ ~Dropping(p, o)' /\ ~Dropping(p, o)
      BY <3>1, <3>2 DEF Making, Dropping, Busy, Alone, Goes, To, NextCall, Idle, Deleting
    <3>4. r.op # "create" => orgDoc[o] # NoDoc
      BY <1>4, <3>1, <3>2 DEF Alone, Fits, Decided, AcceptDecided, LeaveDecided,
         RemoveDecided, InviteDecided, PrivilegeDecided, Busy, Changed, Stored, Request,
         Operations
    <3>5. r.op = "create" => Making(p, o)
      BY <1>4, <3>1 DEF Making, Busy
    <3> QED  BY <1>2, <3>1, <3>3, <3>4, <3>5
  <2>3. CASE DeleteProject(p)
    <3>1. r.op = "delete" /\ r.at = "deleteProject" /\ orgDoc' = orgDoc
          /\ orgDoc[o] # NoDoc
      BY <1>0, <1>4, <2>3 DEF DeleteProject, Ops, Alone, Fits, Decided, DeleteDecided,
         Busy, Deleting, Stored
    <3>2. ~Making(p, o) /\ ~Dropping(p, o) /\ ~Making(p, o)'
      BY <3>1 DEF Making, Dropping, Busy, Alone, Goes, To, Idle, Deleting
    <3>3. o \in projects /\ WentOnTo(p, "putProfile") /\ o \notin projects'
      BY <1>2, <1>4, <2>3, <3>1, <3>2 DEF DeleteProject
    <3>4. handler'[p].at = "putProfile" /\ handler'[p] # Idle
      BY <1>0, <3>3 DEF WentOnTo, Go, TypeOK, Alone, Request, Idle
    <3> QED  BY <1>4, <3>1, <3>2, <3>3, <3>4 DEF Dropping, Busy, Alone, Goes, To, Deleting
  <2>4. CASE DeleteOrg(p)
    <3>1. r.op = "delete" /\ r.at = "deleteOrg" /\ projects' = projects
          /\ orgDoc'[o] = NoDoc /\ handler'[p] = Idle
      BY <1>0, <1>4, <2>4 DEF DeleteOrg, Ops, TypeOK, Answer
    <3>2. ~Making(p, o) /\ Dropping(p, o) /\ ~Making(p, o)'
      BY <1>4, <3>1 DEF Making, Dropping, Busy, Idle, Deleting
    <3> QED  BY <1>2, <3>1, <3>2
  <2>5. CASE ~(PostProject(p) \/ PutOrg(p) \/ DeleteProject(p) \/ DeleteOrg(p))
    <3>1. orgDoc' = orgDoc /\ projects' = projects
      BY <2>5 DEF Step, GetProfile, OrgMissing, DecideDelete, DecideAccept, DecideLeave,
         DecideInvite, DecideRemove, DecidePrivilege, InviteMember, CreateRoleBinding,
         UpdateAdminRole, UpdateEditRole, GetProfileAgain, PutProfile, GetMember,
         PutMember, GetCreator, PutCreator, store
    <3>2. r.at \notin {"postProject", "putOrg", "deleteProject", "deleteOrg"}
      BY <2>5, ActionAt
    <3>3. Making(p, o) => handler'[p] # Idle
      <4> SUFFICES ASSUME Making(p, o) PROVE handler'[p] # Idle
        OBVIOUS
      <4>1. CreateRoleBinding(p)
        BY <3>2, ActionAt DEF Making, Busy
      <4> QED  BY <1>0, <4>1 DEF CreateRoleBinding, WentOnTo, Go, TypeOK, Alone, Request, Idle
    <3>4. Dropping(p, o) => handler'[p] # Idle
      <4> SUFFICES ASSUME Dropping(p, o) PROVE handler'[p] # Idle
        OBVIOUS
      <4>1. PutProfile(p) \/ GetCreator(p) \/ PutCreator(p)
        BY <3>2, ActionAt DEF Dropping, Busy, Deleting
      <4>2. r.op = "delete"
        BY DEF Dropping, Busy
      <4> QED  BY <1>0, <4>1, <4>2 DEF PutProfile, GetCreator, PutCreator, WentOnTo, Go,
                  TypeOK, Alone, Request, Idle
    <3>5. Making(p, o)' <=> Making(p, o)
      BY <1>0, <1>4, <3>2, <3>3 DEF Making, Busy, Alone, Goes, To, NextCall, Idle, Ops
    <3>6. Dropping(p, o)' <=> Dropping(p, o)
      BY <1>0, <1>4, <3>2, <3>4 DEF Dropping, Busy, Alone, Goes, To, NextCall, Idle, Ops, Deleting
    <3> QED  BY <1>2, <3>1, <3>5, <3>6
  <2> QED  BY <2>1, <2>2, <2>3, <2>4, <2>5
<1> QED  BY <1>3, <1>4

\* Documents that exist and who created them change in two places only.
LEMMA CreatedStays ==
    ASSUME NEW p \in Handlers, Alone(p), Step(p), handler[p].at # "deleteOrg",
           ~(handler[p].at = "putOrg" /\ handler[p].op = "create")
    PROVE  Existing' = Existing /\ \A o \in Existing : orgDoc'[o].createBy = orgDoc[o].createBy
<1> DEFINE r == handler[p]
<1>0. TypeOK /\ r.op \in Ops(r.at) /\ r.org \in OrgIDs
  BY DEF Alone, IInv, Request
<1>1. CASE orgDoc' = orgDoc
  BY <1>1 DEF Existing
<1>2. CASE orgDoc' # orgDoc
  <2>1. PutOrg(p)
    BY <1>2, Frame DEF DeleteOrg
  <2>2. /\ r.at = "putOrg" /\ orgDoc' = [orgDoc EXCEPT ![r.org] = r.doc] /\ r.doc # NoDoc
        /\ r.op \notin {"create", "delete"}
    BY <1>0, <2>1 DEF PutOrg, Alone, IInv, Loaded, Calls, Ops
  <2>3. \E members : Changed(p, members)
    BY <2>2 DEF Alone, Fits, Decided, AcceptDecided, LeaveDecided, RemoveDecided,
       InviteDecided, PrivilegeDecided, Busy, Request, Operations
  <2>4. Stored(p) # NoDoc /\ Stored(p) = orgDoc[r.org] /\ Stored(p) \in Organization
    BY <1>0, <2>3 DEF Changed, Stored, TypeOK
  <2>5. r.doc.createBy = Stored(p).createBy
    BY <2>3, <2>4 DEF Changed, Organization
  <2> QED  BY <1>0, <2>2, <2>4, <2>5 DEF Existing, TypeOK
<1> QED  BY <1>1, <1>2

LEMMA CreatedSame ==
    ASSUME Existing' = Existing,
           \A o \in Existing : orgDoc'[o].createBy = orgDoc[o].createBy
    PROVE  \A u : Created(u)' = Created(u)
BY DEF Created

\* What the counts become when the organization o of c appears or goes.
LEMMA CreatedOneMore ==
    ASSUME TypeOK, NEW o \in OrgIDs, orgDoc[o] = NoDoc, IsFiniteSet(Existing),
           NEW d, d # NoDoc, orgDoc' = [orgDoc EXCEPT ![o] = d]
    PROVE  /\ IsFiniteSet(Existing)'
           /\ Cardinality(Created(d.createBy))' = Cardinality(Created(d.createBy)) + 1
           /\ \A u : u # d.createBy => Created(u)' = Created(u)
           /\ \A u : Cardinality(Created(u)) \in Nat
<1>1. Existing' = Existing \cup {o} /\ o \notin Existing
  BY DEF TypeOK, Existing
<1>2. \A x \in OrgIDs : orgDoc'[x] = IF x = o THEN d ELSE orgDoc[x]
  BY DEF TypeOK
<1>3. Created(d.createBy)' = Created(d.createBy) \cup {o} /\ o \notin Created(d.createBy)
  BY <1>1, <1>2 DEF Created, Existing
<1>4. \A u : u # d.createBy => Created(u)' = Created(u)
  BY <1>1, <1>2 DEF Created, Existing
<1>5. \A u : IsFiniteSet(Created(u)) /\ Cardinality(Created(u)) \in Nat
  BY FS_Subset, FS_CardinalityType DEF Created
<1>6. IsFiniteSet(Existing)'
  BY <1>1, FS_AddElement
<1> QED  BY <1>3, <1>4, <1>5, <1>6, FS_AddElement

LEMMA CreatedOneLess ==
    ASSUME TypeOK, NEW o \in OrgIDs, orgDoc[o] # NoDoc, IsFiniteSet(Existing),
           NEW c, c = orgDoc[o].createBy, orgDoc' = [orgDoc EXCEPT ![o] = NoDoc]
    PROVE  /\ IsFiniteSet(Existing)'
           /\ Cardinality(Created(c))' = Cardinality(Created(c)) - 1
           /\ \A u : u # c => Created(u)' = Created(u)
           /\ \A u : Cardinality(Created(u)) \in Nat
<1>1. Existing' = Existing \ {o} /\ o \in Existing
  BY DEF TypeOK, Existing
<1>2. \A x \in OrgIDs : orgDoc'[x] = IF x = o THEN NoDoc ELSE orgDoc[x]
  BY DEF TypeOK
<1>3. Created(c)' = Created(c) \ {o} /\ o \in Created(c)
  BY <1>1, <1>2 DEF Created, Existing
<1>4. \A u : u # c => Created(u)' = Created(u)
  BY <1>1, <1>2 DEF Created, Existing
<1>5. \A u : IsFiniteSet(Created(u)) /\ Cardinality(Created(u)) \in Nat
  BY FS_Subset, FS_CardinalityType DEF Created
<1>6. IsFiniteSet(Existing)'
  BY <1>1, FS_RemoveElement
<1>7. Cardinality(Created(c) \ {o}) = Cardinality(Created(c)) - 1
  BY <1>3, <1>5, FS_RemoveElement
<1> QED  BY <1>3, <1>4, <1>5, <1>6, <1>7

LEMMA QuotaStep ==
    ASSUME NEW p \in Handlers, Alone(p), Step(p), faults' = 0, Quota
    PROVE  Quota'
<1> DEFINE r == handler[p]
           used(u) == profile[u].used
           base(u) == FirstProfile[u].used
           count(u) == Cardinality(Created(u))
<1>0. TypeOK /\ ~Fault /\ r.op \in Ops(r.at) /\ r.org \in OrgIDs /\ r.user \in Registered
      /\ r.prof \in Profile
  BY Unfailing DEF Alone, IInv, Request
<1>1. \A q \in Handlers : q # p => \A u : ~Owing(q, u) /\ ~Owing(q, u)'
  BY DEF Alone, Owing, Busy, Calls
<1>2. \A u \in Registered : IF Owing(p, u) THEN used(u) + 1 = base(u) + count(u)
                                             ELSE used(u) = base(u) + count(u)
  BY <1>1 DEF Quota
<1>3. \A u \in Registered : used(u) \in Int /\ base(u) \in Int /\ profile[u] \in Profile
  BY <1>0, OrgAssumption DEF TypeOK, Profile
<1> SUFFICES /\ IsFiniteSet(Existing)'
             /\ \A u \in Registered :
                   IF Owing(p, u)' THEN used(u)' + 1 = base(u) + count(u)'
                                   ELSE used(u)' = base(u) + count(u)'
  <2>1. \A u \in Registered : (\E q \in Handlers : Owing(q, u)') <=> Owing(p, u)'
    BY <1>1
  <2> QED  BY <2>1 DEF Quota
<1>4. CASE r.at = "putOrg" /\ r.op = "create"
  <2>0. PICK o \in OrgIDs, c \in Registered : o = r.org /\ c = r.user
    BY <1>0
  <2>1. /\ orgDoc' = [orgDoc EXCEPT ![o] = r.doc] /\ profile' = profile /\ r.doc # NoDoc
        /\ Go(p, "putProfile")
    BY <1>0, <1>4, <2>0, ActionAt DEF PutOrg, Alone, IInv, Loaded, Calls, WentOnTo
  <2>2. orgDoc[o] = NoDoc /\ IsNew(r.doc, c, o)
    BY <1>4, <2>0 DEF Alone, Fits, Decided, CreateDecided, Busy, Stored
  <2>3. PICK d : d = r.doc /\ d.createBy = c
    BY <2>2 DEF IsNew, NewOrganization
  <2>4. /\ IsFiniteSet(Existing)' /\ count(c)' = count(c) + 1
        /\ \A u : u # c => Created(u)' = Created(u)
        /\ count(c) \in Nat
    BY <1>0, <2>1, <2>2, <2>3, CreatedOneMore DEF Quota
  <2>5. handler'[p].at = "putProfile" /\ handler'[p].op = "create" /\ handler'[p].user = c
    BY <1>0, <1>4, <2>0, <2>1, GoTo DEF To, Calls, Alone
  <2>6. \A u : (Owing(p, u)' <=> u = c) /\ ~Owing(p, u)
    BY <1>4, <2>5 DEF Owing, Busy
  <2> HIDE DEF count, used, base
  <2>7. \A u \in Registered : used(u)' = used(u)
    BY <2>1 DEF used
  <2>8. \A u \in Registered : u # c => count(u)' = count(u)
    BY <2>4 DEF count
  <2>9. \A u \in Registered : used(u) \in Int /\ base(u) \in Int
    BY <1>3 DEF used, base
  <2> QED  BY <1>2, <2>4, <2>6, <2>7, <2>8, <2>9
<1>5. CASE r.at = "deleteOrg"
  <2>0. PICK o \in OrgIDs : o = r.org
    BY <1>0
  <2>1. /\ orgDoc' = [orgDoc EXCEPT ![o] = NoDoc] /\ profile' = profile
        /\ handler'[p] = Idle
    BY <1>0, <1>5, <2>0, ActionAt DEF DeleteOrg, Answer, TypeOK
  <2>2. orgDoc[o] # NoDoc /\ r.op = "delete"
    BY <1>0, <1>5, <2>0 DEF Alone, Fits, Decided, DeleteDecided, Busy, Stored, Deleting, Ops
  <2>3. PICK c : c = orgDoc[o].createBy
    OBVIOUS
  <2>4. /\ IsFiniteSet(Existing)' /\ count(c)' = count(c) - 1
        /\ \A u : u # c => Created(u)' = Created(u)
        /\ count(c) \in Nat
    BY <1>0, <2>1, <2>2, <2>3, CreatedOneLess DEF Quota
  <2>5. \A u : (Owing(p, u) <=> u = c) /\ ~Owing(p, u)'
    BY <1>5, <2>0, <2>1, <2>2, <2>3 DEF Owing, Busy, Idle, Stored
  <2> HIDE DEF count, used, base
  <2>6. \A u \in Registered : used(u)' = used(u)
    BY <2>1 DEF used
  <2>7. \A u \in Registered : u # c => count(u)' = count(u)
    BY <2>4 DEF count
  <2>8. \A u \in Registered : used(u) \in Int /\ base(u) \in Int
    BY <1>3 DEF used, base
  <2> QED  BY <1>2, <2>4, <2>5, <2>6, <2>7, <2>8
<1>6. CASE r.at # "deleteOrg" /\ ~(r.at = "putOrg" /\ r.op = "create")
  <2>1. /\ Existing' = Existing /\ IsFiniteSet(Existing)'
        /\ \A u \in Registered : count(u)' = count(u)
    BY <1>6, CreatedStays, CreatedSame DEF Quota
  <2>2. CASE r.at = "putProfile"
    <3>1. profile' = [profile EXCEPT ![r.user] = CallerProfile(r)] /\ r.prof = profile[r.user]
          /\ r.op \in {"create", "accept", "leave", "delete"}
      BY <1>0, <2>2, ActionAt DEF PutProfile, Alone, Fits, Current, Busy, Ops
    <3>2. CallerProfile(r).used = IF r.op = "create" THEN r.prof.used + 1 ELSE r.prof.used
      BY <3>1, CallerIs DEF Alone
    <3>3. \A u : (Owing(p, u) <=> r.op = "create" /\ u = r.user) /\ ~Owing(p, u)'
      BY <2>2 DEF Owing, Busy, Alone, Goes, To, NextCall, Idle
    <3>4. \A u \in Registered : used(u)' = IF u = r.user /\ r.op = "create"
                                           THEN used(u) + 1 ELSE used(u)
      BY <1>0, <3>1, <3>2 DEF TypeOK
    <3> HIDE DEF count, used, base
    <3> QED  BY <1>2, <2>1, <3>3, <3>4
  <2>3. CASE r.at = "putMember"
    <3>1. /\ profile' = [profile EXCEPT ![r.target] = DropOrg(r.prof, r.org)]
          /\ r.prof = profile[r.target] /\ r.target \in Registered
      BY <1>0, <2>3, ActionAt DEF PutMember, Alone, Fits, Current, Busy, Ops
    <3>2. DropOrg(r.prof, r.org).used = r.prof.used
      BY <1>0, DropIs
    <3>3. \A u : ~Owing(p, u) /\ ~Owing(p, u)'
      BY <2>3 DEF Owing, Busy, Alone, Goes, To, NextCall, Idle
    <3>4. \A u \in Registered : used(u)' = used(u)
      BY <1>0, <3>1, <3>2 DEF TypeOK
    <3> HIDE DEF count, used, base
    <3> QED  BY <1>2, <2>1, <3>3, <3>4
  <2>4. CASE r.at = "putCreator"
    <3>0. r.op = "delete" /\ handler'[p].at = "deleteOrg" /\ handler'[p].op = "delete"
          /\ handler'[p].org = r.org
      BY <1>0, <2>4, ActionAt, GoTo DEF Ops, PutCreator, To, Alone, Calls
    <3>1. PICK c : c = r.doc.createBy /\ c \in Registered
      BY <1>0, <2>4 DEF Alone, IInv, Loaded, Request, Organization, Calls
    <3>2. profile' = [profile EXCEPT ![c] = [r.prof EXCEPT !.used = @ - 1]]
          /\ r.prof = profile[c] /\ orgDoc' = orgDoc
      BY <1>0, <2>4, <3>0, <3>1, ActionAt DEF PutCreator, Alone, Fits, Current, Busy
    <3>3. [r.prof EXCEPT !.used = @ - 1].used = r.prof.used - 1
      BY <1>0 DEF Profile
    <3>4. orgDoc[r.org].createBy = c
      BY <2>4, <3>0, <3>1 DEF Alone, Fits, Decided, DeleteDecided, Busy, Deleting, Stored
    <3>5. \A u : ~Owing(p, u) /\ (Owing(p, u)' <=> u = c)
      BY <2>4, <3>0, <3>2, <3>4 DEF Owing, Busy, Stored
    <3>6. \A u \in Registered : used(u)' = IF u = c THEN used(u) - 1 ELSE used(u)
      BY <1>0, <3>2, <3>3 DEF TypeOK
    <3> HIDE DEF count, used, base
    <3> QED  BY <1>2, <1>3, <2>1, <3>5, <3>6 DEF used
  <2>5. CASE r.at \notin {"putProfile", "putMember", "putCreator"}
    <3>1. profile' = profile
      <4>1. ~PutProfile(p) /\ ~PutMember(p) /\ ~PutCreator(p)
        BY <2>5 DEF PutProfile, PutMember, PutCreator
      <4> QED  BY <4>1, Frame
    <3>2. \A u : ~Owing(p, u) /\ ~Owing(p, u)'
      BY <1>0, <1>6, <2>5 DEF Owing, Busy, Alone, Goes, To, NextCall, Idle, Ops
    <3> QED  BY <1>2, <2>1, <3>1, <3>2
  <2> QED  BY <2>2, <2>3, <2>4, <2>5
<1> QED  BY <1>4, <1>5, <1>6

\* A deletion that goes on stays one, the calls that begin and end it aside.
LEMMA DroppingStays ==
    ASSUME NEW p \in Handlers, Alone(p), Step(p), ~Fault, NEW o \in OrgIDs,
           handler[p].at \notin {"deleteProject", "deleteOrg"}
    PROVE  Dropping(p, o)' <=> Dropping(p, o)
<1> DEFINE r == handler[p]
<1>1. Dropping(p, o) => handler'[p] # Idle
  <2> SUFFICES ASSUME Dropping(p, o) PROVE handler'[p] # Idle
    OBVIOUS
  <2>1. PutProfile(p) \/ GetCreator(p) \/ PutCreator(p)
    BY ActionAt DEF Dropping, Busy, Deleting
  <2>2. r.op = "delete" /\ TypeOK
    BY DEF Dropping, Busy, Alone, IInv
  <2> QED  BY <2>1, <2>2 DEF PutProfile, GetCreator, PutCreator, WentOnTo, Go,
              TypeOK, Alone, Request, Idle
<1> QED
  BY <1>1 DEF Dropping, Busy, Alone, Goes, To, NextCall, Idle, Ops, Deleting

\* A decided change of an existing organization finds its project.
LEMMA HasProject ==
    ASSUME NEW p \in Handlers, Alone(p), Projects,
           handler[p].at \in {"adminRole", "editRole"}
    PROVE  handler[p].org \in projects /\ Stored(p) # NoDoc /\ Stored(p) \in Organization
<1> DEFINE r == handler[p]
<1>1. r.op \in {"invite", "privileged", "remove"} /\ r.org \in OrgIDs
  BY DEF Alone, Ops, Request
<1>2. Stored(p) # NoDoc
  BY <1>1 DEF Alone, Fits, Decided, InviteDecided, PrivilegeDecided, RemoveDecided,
     Busy, Changed
<1>3. \A q \in Handlers : ~Dropping(q, r.org)
  BY <1>1 DEF Alone, Dropping, Busy, Deleting, Calls
<1> QED  BY <1>1, <1>2, <1>3 DEF Projects, Stored, Alone, IInv, TypeOK

LEMMA UpdateAdminRoleDone ==
    ASSUME NEW p \in Handlers, Alone(p), ~Fault, Projects, UpdateAdminRole(p)
    PROVE  /\ adminRole' = [adminRole EXCEPT ![handler[p].org] = AdminNames(handler[p].doc.members)]
           /\ ~handler'[p].err /\ handler'[p].at = "editRole"
           /\ handler'[p].doc = handler[p].doc
<1>1. handler[p].org \in projects /\ handler[p] \in Request
  BY HasProject DEF UpdateAdminRole, Alone
<1>2. PICK err \in BOOLEAN :
        /\ UpdateRole(p, adminRole, AdminNames(handler[p].doc.members), err)
        /\ handler' = [handler EXCEPT ![p].at = "editRole", ![p].err = err]
  BY DEF UpdateAdminRole
<1>3. adminRole' = [adminRole EXCEPT ![handler[p].org] = AdminNames(handler[p].doc.members)]
      /\ ~err
  BY <1>1, <1>2 DEF UpdateRole
<1>4. PICK s : s = [handler[p] EXCEPT !.at = "editRole", !.err = err]
  OBVIOUS
<1>5. s.at = "editRole" /\ s.err = err /\ s.doc = handler[p].doc
  BY <1>1, <1>4 DEF Request
<1>6. handler'[p] = s
  BY <1>2, <1>4 DEF Alone, IInv, TypeOK
<1> QED  BY <1>3, <1>5, <1>6

LEMMA UpdateEditRoleDone ==
    ASSUME NEW p \in Handlers, Alone(p), ~Fault, Projects, Bindings, UpdateEditRole(p)
    PROVE  /\ editRole' = [editRole EXCEPT ![handler[p].org] = EditNames(handler[p].doc.members)]
           /\ handler'[p].at = IF handler[p].op = "remove" THEN "getMember" ELSE "putOrg"
           /\ handler'[p].doc = handler[p].doc
<1>1. handler[p].org \in projects /\ handler[p] \in Request /\ ~handler[p].err /\ TypeOK
  BY HasProject DEF UpdateEditRole, Alone, Bindings, IInv
<1>2. PICK err \in BOOLEAN :
        /\ UpdateRole(p, editRole, EditNames(handler[p].doc.members), err)
        /\ IF err \/ handler[p].err THEN Answer(p)
           ELSE Go(p, IF handler[p].op = "remove" THEN "getMember" ELSE "putOrg")
  BY DEF UpdateEditRole
<1>3. editRole' = [editRole EXCEPT ![handler[p].org] = EditNames(handler[p].doc.members)]
      /\ ~err
  BY <1>1, <1>2 DEF UpdateRole
<1>4. PICK call \in Calls : call = IF handler[p].op = "remove" THEN "getMember" ELSE "putOrg"
  BY DEF Calls
<1>5. Go(p, call)
  BY <1>1, <1>2, <1>3, <1>4
<1>6. To(p, call) /\ SameCopies(p)
  BY <1>1, <1>5, GoTo
<1> QED  BY <1>3, <1>4, <1>6 DEF To, SameCopies

\* The document that is put binds its members as the bindings have it.
LEMMA PutOrgBinds ==
    ASSUME NEW p \in Handlers, Alone(p), Bindings, PutOrg(p),
           NEW o \in OrgIDs, o = handler[p].org
    PROVE  Bound(o)'
<1> DEFINE r == handler[p]
           ms == Members(p)
<1>1. o \in OrgIDs /\ o = r.org
  OBVIOUS
<1>2. /\ r.at = "putOrg" /\ orgDoc' = [orgDoc EXCEPT ![o] = r.doc] /\ r.doc # NoDoc
      /\ UNCHANGED <<adminRole, editRole, brought>>
  BY <1>1 DEF PutOrg, Alone, IInv, Loaded, Calls, history
<1>3. orgDoc'[o] = r.doc /\ r.doc \in Organization /\ r.op \in Operations \ {"delete"}
  BY <1>1, <1>2 DEF Alone, IInv, TypeOK, Request, Ops
<1>4. CASE r.op = "create"
  <2>1. IsNew(r.doc, r.user, o) /\ r.user \in Registered
    BY <1>2, <1>4 DEF Alone, Fits, Decided, CreateDecided, Busy, Request
  <2>2. PICK body \in Bodies : /\ r.doc = NewOrganization(r.user, body)
                              /\ \A m \in body : m.name \in brought[o]
    BY <2>1 DEF IsNew
  <2>3. \A m \in r.doc.members : m.name \in brought[o] \cup {r.doc.createBy}
    BY <2>2 DEF NewOrganization
  <2> QED  BY <1>1, <1>2, <1>3, <2>3 DEF Bound
<1>5. CASE r.op \in {"invite", "privileged"}
  <2>1. GoodDoc(o, r.doc)
    BY <1>1, <1>2 DEF Alone, IInv, Copies
  <2>2. UniqueNames(r.doc.members, brought[o]) /\ r.doc.members \in SUBSET OrgMember
    BY <1>3, <2>1 DEF GoodDoc, Sound, Organization
  <2>3. adminRole[o] = AdminNames(r.doc.members) /\ editRole[o] = EditNames(r.doc.members)
    BY <1>1, <1>2, <1>5 DEF Bindings, Rebinding
  <2>4. \A m \in r.doc.members : m.name \notin brought[o] =>
           /\ m.name \in adminRole[o] <=> m.admin
           /\ m.name \in editRole[o] <=> ~m.admin
    BY <2>2, <2>3, NamesTellFlag
  <2> QED  BY <1>1, <1>2, <1>3, <2>4 DEF Bound
<1>6. CASE r.op \in {"accept", "leave", "remove"}
  <2>1. PICK u : \/ Changed(p, MemberJoined(ms, u))
                 \/ \E left \in RemoveMember(ms, u) : Changed(p, left)
    BY <1>2, <1>6 DEF Alone, Fits, Decided, AcceptDecided, LeaveDecided, RemoveDecided, Busy
  <2>2. orgDoc[o] # NoDoc /\ orgDoc[o] \in Organization /\ Stored(p) = orgDoc[o]
    BY <1>1, <2>1 DEF Changed, Stored, Alone, IInv, TypeOK
  <2>3. ms \in SUBSET OrgMember /\ ms = orgDoc[o].members
    BY <2>2 DEF Members, Organization
  <2>4. /\ r.doc.createBy = orgDoc[o].createBy
        /\ r.doc.members = MemberJoined(ms, u) \/ r.doc.members \in RemoveMember(ms, u)
    BY <2>1, <2>2 DEF Changed, Organization
  <2>5. Bound(o)
    <3>1. \A q \in Handlers : ~Rebinding(q, o) /\ ~Dropping(q, o)
      BY <1>6 DEF Rebinding, Dropping, Busy, Deleting, Alone, Calls
    <3> QED  BY <2>2, <3>1 DEF Bindings, Existing
  <2>6. ASSUME NEW m \in r.doc.members
        PROVE  m.name \notin brought[o] \cup {r.doc.createBy} =>
                  /\ m.name \in adminRole[o] <=> m.admin
                  /\ m.name \in editRole[o] <=> ~m.admin
    <3>1. (\E left \in RemoveMember(ms, u) : m \in left) \/ m \in MemberJoined(ms, u)
      BY <2>4, <2>6
    <3>2. PICK n \in ms : n.name = m.name /\ n.admin = m.admin
      BY <2>3, <3>1, FlagsStay
    <3> QED  BY <2>3, <2>4, <2>5, <3>2 DEF Bound
  <2> QED  BY <1>1, <1>2, <1>3, <2>6 DEF Bound
<1> QED  BY <1>3, <1>4, <1>5, <1>6 DEF Operations

LEMMA BindingsStep ==
    ASSUME NEW p \in Handlers, Alone(p), Step(p), faults' = 0, Projects, Bindings
    PROVE  Bindings'
<1> DEFINE r == handler[p]
           AtRest(q, o) == ~Rebinding(q, o) /\ ~Dropping(q, o)
           Prepared(q) ==
               /\ handler[q].at = "editRole" => ~handler[q].err
               /\ Rebinding(q, handler[q].org) =>
                     adminRole[handler[q].org] = AdminNames(handler[q].doc.members)
               /\ Rebinding(q, handler[q].org) /\ handler[q].at = "putOrg" =>
                     editRole[handler[q].org] = EditNames(handler[q].doc.members)
<1>0. TypeOK /\ ~Fault /\ r.op \in Ops(r.at)
  BY Unfailing DEF Alone, IInv
<1>a. PICK c \in OrgIDs : c = r.org
  BY DEF Alone, Request
<1>1. \A q \in Handlers : q # p =>
         Prepared(q)' /\ \A o : AtRest(q, o) /\ AtRest(q, o)'
  BY DEF Alone, Rebinding, Dropping, Busy, Deleting, Calls
<1>2. /\ \A o \in Existing : AtRest(p, o) => Bound(o)
      /\ Prepared(p)
  BY <1>1 DEF Bindings
<1> SUFFICES /\ \A o \in Existing' : AtRest(p, o)' => Bound(o)'
             /\ Prepared(p)'
  BY <1>1 DEF Bindings
<1>3. \A o : o # c => AtRest(p, o) /\ AtRest(p, o)'
  BY <1>a DEF Rebinding, Dropping, Busy, Alone, Goes, To, Idle, Calls, Deleting
<1>4. ASSUME NEW o \in Existing', o # c
      PROVE  Bound(o)'
  <2>1. o \in OrgIDs /\ orgDoc'[o] = orgDoc[o]
    BY <1>0, <1>a, <1>4, Frame DEF TypeOK, PutOrg, DeleteOrg, Existing
  <2>2. adminRole'[o] = adminRole[o]
    BY <1>0, <1>a, <1>4, <2>1, Frame DEF TypeOK, UpdateAdminRole, UpdateRole, DeleteProject
  <2>3. editRole'[o] = editRole[o]
    BY <1>0, <1>a, <1>4, <2>1, Frame DEF TypeOK, UpdateEditRole, UpdateRole, DeleteProject
  <2>4. Bound(o)
    BY <1>2, <1>3, <1>4, <2>1 DEF Existing
  <2>5. brought[o] \subseteq brought'[o]
    BY <2>1 DEF Alone, HistoryGrows
  <2> QED  BY <2>1, <2>2, <2>3, <2>4, <2>5 DEF Bound
<1> SUFFICES /\ c \in Existing' /\ AtRest(p, c)' => Bound(c)'
             /\ Prepared(p)'
  BY <1>4
<1>5. /\ handler'[p] # Idle => /\ handler'[p].op = r.op /\ handler'[p].org = c
                               /\ NextCall(r.op, r.at, handler'[p].at)
      /\ Stored(p) = orgDoc[c]
  BY <1>a DEF Alone, Goes, To, Stored
<1>6. CASE UpdateAdminRole(p)
  <2>1. /\ adminRole' = [adminRole EXCEPT ![c] = AdminNames(r.doc.members)]
        /\ ~handler'[p].err /\ handler'[p].at = "editRole" /\ handler'[p].doc = r.doc
        /\ r.at = "adminRole" /\ UNCHANGED <<orgDoc, editRole, brought>>
    BY <1>0, <1>a, <1>6, UpdateAdminRoleDone DEF UpdateAdminRole, history
  <2>2. adminRole'[c] = AdminNames(r.doc.members) /\ handler'[p] # Idle
    BY <1>0, <2>1 DEF TypeOK, Idle
  <2>3. r.op \in {"invite", "privileged", "remove"} /\ AtRest(p, c)
    BY <1>0, <2>1 DEF Ops, Rebinding, Dropping, Busy, Deleting
  <2>4. Prepared(p)'
    BY <1>5, <2>1, <2>2
  <2>5. CASE r.op = "remove"
    <3>1. Stored(p) # NoDoc /\ r.doc = orgDoc[c]
      BY <1>5, <2>1, <2>5 DEF Alone, Fits, Decided, RemoveDecided, Busy
    <3>2. Bound(c) /\ GoodDoc(c, orgDoc[c]) /\ orgDoc[c] \in Organization
      BY <1>0, <1>2, <1>5, <2>3, <3>1 DEF Alone, IInv, Documents, TypeOK, Existing
    <3>3. \A m \in orgDoc[c].members :
             m.name \notin brought[c] => (m.name \in adminRole'[c] <=> m.admin)
      BY <2>2, <3>1, <3>2, NamesTellFlag DEF GoodDoc, Sound, Organization
    <3>4. Bound(c)'
      BY <2>1, <3>2, <3>3 DEF Bound
    <3> QED  BY <2>4, <3>4
  <2>6. CASE r.op \in {"invite", "privileged"}
    <3>1. Rebinding(p, c)'
      BY <1>5, <2>1, <2>2, <2>6 DEF Rebinding
    <3> QED  BY <2>4, <3>1
  <2> QED  BY <2>3, <2>5, <2>6
<1>7. CASE UpdateEditRole(p)
  <2>1. /\ editRole' = [editRole EXCEPT ![c] = EditNames(r.doc.members)]
        /\ handler'[p].at = IF r.op = "remove" THEN "getMember" ELSE "putOrg"
        /\ handler'[p].doc = r.doc
        /\ r.at = "editRole" /\ UNCHANGED <<orgDoc, adminRole, brought>>
    BY <1>0, <1>a, <1>7, UpdateEditRoleDone DEF UpdateEditRole, history
  <2>2. editRole'[c] = EditNames(r.doc.members) /\ handler'[p] # Idle
    BY <1>0, <2>1 DEF TypeOK, Idle
  <2>3. r.op \in {"invite", "privileged", "remove"}
    BY <1>0, <2>1 DEF Ops
  <2>4. CASE r.op = "remove"
    <3>1. Stored(p) # NoDoc /\ r.doc = orgDoc[c] /\ AtRest(p, c)
      BY <1>5, <2>1, <2>4 DEF Alone, Fits, Decided, RemoveDecided, Busy, Rebinding, Dropping
    <3>2. Bound(c) /\ GoodDoc(c, orgDoc[c]) /\ orgDoc[c] \in Organization
      BY <1>0, <1>2, <1>5, <3>1 DEF Alone, IInv, Documents, TypeOK, Existing
    <3>3. \A m \in orgDoc[c].members :
             m.name \notin brought[c] => (m.name \in editRole'[c] <=> ~m.admin)
      BY <2>2, <3>1, <3>2, NamesTellFlag DEF GoodDoc, Sound, Organization
    <3>4. Bound(c)'
      BY <2>1, <3>2, <3>3 DEF Bound
    <3>5. Prepared(p)'
      BY <2>1, <2>4 DEF Rebinding
    <3> QED  BY <3>4, <3>5
  <2>5. CASE r.op \in {"invite", "privileged"}
    <3>1. Rebinding(p, c) /\ Rebinding(p, c)'
      BY <1>a, <1>5, <2>1, <2>2, <2>5 DEF Rebinding
    <3>2. adminRole'[c] = AdminNames(r.doc.members)
      BY <1>2, <1>a, <2>1, <3>1
    <3>3. Prepared(p)'
      BY <1>5, <2>1, <2>2, <2>5, <3>2
    <3> QED  BY <3>1, <3>3
  <2> QED  BY <2>3, <2>4, <2>5
<1>8. CASE PutOrg(p)
  <2>1. r.at = "putOrg"
    BY <1>8 DEF PutOrg
  <2>2. handler'[p].at \notin {"editRole", "putOrg"}
    BY <1>5, <2>1 DEF NextCall, Idle
  <2> QED  BY <1>a, <1>8, <1>2, <2>2, PutOrgBinds, <1>1 DEF Bindings, Rebinding
<1>9. CASE DeleteProject(p)
  <2>1. r.at = "deleteProject" /\ r.op = "delete"
    BY <1>0, <1>9 DEF DeleteProject, Ops
  <2>2. handler'[p].at \notin {"editRole", "putOrg"}
    BY <1>5, <2>1 DEF NextCall, Idle
  <2>3. c \in projects
    <3>1. orgDoc[c] # NoDoc /\ ~Dropping(p, c)
      BY <1>5, <2>1 DEF Alone, Fits, Decided, DeleteDecided, Busy, Deleting, Dropping
    <3>2. \A q \in Handlers : ~Dropping(q, c)
      BY <1>1, <3>1
    <3> QED  BY <3>1, <3>2 DEF Projects
  <2>4. Go(p, "putProfile")
    BY <1>0, <1>a, <1>9, <2>3 DEF DeleteProject, WentOnTo
  <2>5. handler'[p].at = "putProfile" /\ handler'[p].op = "delete" /\ handler'[p].org = c
    BY <1>0, <1>a, <2>1, <2>4, GoTo DEF To, Alone, Calls
  <2>6. Dropping(p, c)'
    BY <2>5 DEF Dropping, Busy, Deleting
  <2> QED  BY <2>2, <2>6 DEF Rebinding
<1>10. CASE DeleteOrg(p)
  <2>1. orgDoc' = [orgDoc EXCEPT ![c] = NoDoc] /\ handler'[p] = Idle
    BY <1>0, <1>a, <1>10 DEF DeleteOrg, Answer, TypeOK
  <2>2. c \notin Existing'
    BY <1>0, <2>1 DEF TypeOK, Existing
  <2> QED  BY <2>1, <2>2 DEF Rebinding, Idle
<1>11. CASE r.at \notin {"adminRole", "editRole", "putOrg", "deleteProject", "deleteOrg"}
  <2>1. ~UpdateAdminRole(p) /\ ~UpdateEditRole(p) /\ ~PutOrg(p) /\ ~DeleteProject(p)
        /\ ~DeleteOrg(p)
    BY <1>11 DEF UpdateAdminRole, UpdateEditRole, PutOrg, DeleteProject, DeleteOrg
  <2>2. orgDoc' = orgDoc /\ adminRole' = adminRole /\ editRole' = editRole
    BY <2>1, Frame
  <2>3. ~Rebinding(p, c)
    BY <1>11 DEF Rebinding
  <2>4. ~Rebinding(p, c)' /\ handler'[p].at # "editRole"
    BY <1>0, <1>5, <1>11 DEF Rebinding, NextCall, Idle, Ops
  <2>5. Dropping(p, c)' <=> Dropping(p, c)
    BY <1>0, <1>11, DroppingStays
  <2>6. c \in Existing' /\ AtRest(p, c)' => Bound(c)'
    <3>1. Bound(c) => Bound(c)'
      BY <2>2 DEF Bound, Alone, HistoryGrows
    <3>2. c \in Existing' <=> c \in Existing
      BY <2>2 DEF Existing
    <3> QED  BY <1>2, <2>3, <2>4, <2>5, <3>1, <3>2
  <2>7. Prepared(p)'
    <3>1. ~Rebinding(p, handler[p].org)'
      BY <1>5, <2>4 DEF Rebinding, Idle
    <3> QED  BY <2>4, <3>1
  <2> QED  BY <2>6, <2>7
<1> QED  BY <1>6, <1>7, <1>8, <1>9, <1>10, <1>11, ActionAt

\* What a step does to the lists in the profiles, and to who has joined.
LEMMA ListedStep ==
    ASSUME NEW p \in Handlers, Alone(p), Step(p), NEW u \in Registered, NEW o \in OrgIDs
    PROVE  LET r == handler[p]
               caller == r.at = "putProfile" /\ u = r.user /\ o = r.org
               member == r.at = "putMember" /\ u = r.target /\ o = r.org
           IN  /\ caller /\ r.op \in {"create", "accept"} => Listed(u, o)'
               /\ caller /\ r.op \notin {"create", "accept"} =>
                     o \in Foreseen \/ ~Listed(u, o)'
               /\ member => o \in Foreseen \/ ~Listed(u, o)'
               /\ ~caller /\ ~member => (Listed(u, o)' <=> Listed(u, o))
<1> DEFINE r == handler[p]
           n == profile[u].orgs[o]
<1>1. n \in Nat /\ (o \notin Foreseen => n \in {0, 1})
  BY DEF Alone, IInv, TypeOK, Profile, Once
<1>2. profile'[u].orgs[o] =
         CASE r.at = "putProfile" /\ u = r.user /\ o = r.org ->
                (CASE r.op = "create" -> n + 1
                   [] r.op = "accept" -> IF n > 0 THEN n ELSE 1
                   [] OTHER           -> Fewer(n))
           [] r.at = "putMember" /\ u = r.target /\ o = r.org -> Fewer(n)
           [] OTHER -> n
  BY ProfileStep DEF Alone
<1>3. Fewer(0) = 0 /\ Fewer(1) = 0
  BY DEF Fewer
<1>4. (Listed(u, o) <=> n > 0) /\ (Listed(u, o)' <=> profile'[u].orgs[o] > 0)
  BY DEF Listed, Lists
<1> QED  BY <1>1, <1>2, <1>3, <1>4

LEMMA JoinedStep ==
    ASSUME NEW p \in Handlers, Alone(p), Step(p), ~Fault, NEW u, NEW o \in OrgIDs
    PROVE  LET r == handler[p]
           IN  Joined(u, o)' <=>
                 IF r.at = "putOrg" /\ o = r.org THEN HasJoined(r.doc.members, u)
                 ELSE Joined(u, o) /\ ~(r.at = "deleteOrg" /\ o = r.org)
<1> DEFINE r == handler[p]
<1>0. TypeOK
  BY DEF Alone, IInv
<1>1. CASE PutOrg(p)
  <2>1. /\ orgDoc' = [orgDoc EXCEPT ![r.org] = r.doc] /\ r.doc # NoDoc /\ r.at = "putOrg"
    BY <1>1 DEF PutOrg, Alone, IInv, Loaded, Calls
  <2>2. orgDoc'[o] = IF o = r.org THEN r.doc ELSE orgDoc[o]
    BY <1>0, <2>1 DEF TypeOK
  <2> QED  BY <2>1, <2>2 DEF Joined, HasJoined
<1>2. CASE DeleteOrg(p)
  <2>1. /\ orgDoc' = [orgDoc EXCEPT ![r.org] = NoDoc] /\ r.at = "deleteOrg"
    BY <1>2 DEF DeleteOrg
  <2>2. orgDoc'[o] = IF o = r.org THEN NoDoc ELSE orgDoc[o]
    BY <1>0, <2>1 DEF TypeOK
  <2> QED  BY <2>1, <2>2 DEF Joined, HasJoined
<1>3. CASE ~PutOrg(p) /\ ~DeleteOrg(p)
  BY <1>3, Frame, ActionAt DEF Joined, HasJoined
<1> QED  BY <1>1, <1>2, <1>3

\* A profile lags behind until it is put, and behind the puts of documents only.
LEMMA LaggingStep ==
    ASSUME NEW p \in Handlers, Alone(p), Step(p), ~Fault, Projects, Bindings,
           NEW u \in Registered, NEW o \in OrgIDs,
           handler[p].at \notin {"putOrg", "putProfile", "putMember", "deleteOrg"}
    PROVE  Lagging(p, u, o)' <=> Lagging(p, u, o)
<1> DEFINE r == handler[p]
<1>0. TypeOK /\ r.op \in Ops(r.at)
  BY DEF Alone, IInv
<1>1. Lagging(p, u, o) => handler'[p] # Idle
  <2> SUFFICES ASSUME Lagging(p, u, o) PROVE handler'[p] # Idle
    OBVIOUS
  <2>1. CASE r.at = "adminRole"
    BY <2>1, ActionAt, UpdateAdminRoleDone DEF Idle
  <2>2. CASE r.at = "editRole"
    BY <2>2, ActionAt, UpdateEditRoleDone DEF Idle
  <2>3. CASE r.at = "getAgain"
    <3>1. GetProfileAgain(p)
      BY <2>3, ActionAt
    <3> QED  BY <1>0, <3>1 DEF GetProfileAgain, TypeOK, Alone, Request, Idle
  <2>4. CASE r.at = "getCreator"
    <3>1. GetCreator(p)
      BY <2>4, ActionAt
    <3> QED  BY <1>0, <3>1 DEF GetCreator, TypeOK, Alone, Request, Idle
  <2>5. CASE r.at = "putCreator"
    <3>1. PutCreator(p)
      BY <2>5, ActionAt
    <3> QED  BY <1>0, <3>1 DEF PutCreator, Go, TypeOK, Alone, Request, Idle
  <2>6. CASE r.at = "getMember"
    <3>1. u = r.target /\ r.op = "remove"
      BY <2>6 DEF Lagging
    <3>2. GetMember(p)
      BY <2>6, <3>1, ActionAt DEF InviteMember, At
    <3> QED  BY <1>0, <3>1, <3>2 DEF GetMember, TypeOK, Alone, Request, Idle
  <2> QED  BY <2>1, <2>2, <2>3, <2>4, <2>5, <2>6 DEF Lagging
<1>2. Lagging(p, u, o)' => handler'[p] # Idle
  BY DEF Lagging, Idle
<1>3. CASE handler'[p] # Idle
  <2>1. /\ handler'[p].op = r.op /\ handler'[p].org = r.org /\ handler'[p].user = r.user
        /\ handler'[p].target = r.target /\ NextCall(r.op, r.at, handler'[p].at)
    BY <1>3 DEF Alone, Goes, To
  <2> QED  BY <1>0, <2>1 DEF Lagging, NextCall, Ops
<1> QED  BY <1>1, <1>2, <1>3

\* A put document has joined who had joined before, but for the user whose
\* profile comes next and those a creation request brought.
LEMMA PutOrgJoins ==
    ASSUME NEW p \in Handlers, Alone(p), PutOrg(p), ~Fault, ~AnyoneAccepts,
           NEW u \in Registered, NEW o \in OrgIDs, o = handler[p].org,
           ~Lagging(p, u, o)'
    PROVE  /\ HasJoined(handler[p].doc.members, u) => u \in brought[o] \/ Joined(u, o)
           /\ Joined(u, o) => HasJoined(handler[p].doc.members, u)
<1> DEFINE r == handler[p]
           ms == Members(p)
<1>0. TypeOK /\ r.op \in Operations \ {"delete"} /\ r.at = "putOrg"
  BY DEF Alone, IInv, PutOrg, Ops
<1>1. Stored(p) = orgDoc[o] /\ ms = orgDoc[o].members
  BY DEF Stored, Members
<1>2. orgDoc[o] # NoDoc => ms \in SUBSET OrgMember /\ orgDoc[o] \in Organization
  BY <1>0, <1>1 DEF TypeOK, Organization
<1>3. ASSUME NEW call \in Calls, WentOnTo(p, call)
      PROVE  To(p, call)
  BY <1>0, <1>3, GoTo DEF WentOnTo, Alone
<1>4. ASSUME NEW members, Changed(p, members)
      PROVE  orgDoc[o] # NoDoc /\ r.doc.members = members
  BY <1>1, <1>2, <1>4 DEF Changed, Organization
<1>5. CASE r.op = "create"
  <2>1. To(p, "putProfile")
    BY <1>3, <1>5 DEF PutOrg, Calls
  <2>2. u # r.user
    BY <1>5, <2>1 DEF Lagging, To
  <2>3. orgDoc[o] = NoDoc /\ IsNew(r.doc, r.user, o)
    BY <1>0, <1>1, <1>5 DEF Alone, Fits, Decided, CreateDecided, Busy
  <2>4. \A m \in r.doc.members : m.name \in brought[o] \cup {r.user}
    BY <2>3 DEF IsNew, NewOrganization
  <2> QED  BY <2>2, <2>3, <2>4 DEF HasJoined, Joined
<1>6. CASE r.op = "accept"
  <2>1. To(p, "getAgain")
    BY <1>3, <1>6 DEF PutOrg, Calls
  <2>2. u # r.user
    BY <1>6, <2>1 DEF Lagging, To
  <2>3. Changed(p, MemberJoined(ms, r.user))
    BY <1>0, <1>6 DEF Alone, Fits, Decided, AcceptDecided, Busy
  <2>4. orgDoc[o] # NoDoc /\ r.doc.members = MemberJoined(ms, r.user)
    BY <1>4, <2>3
  <2>5. HasJoined(MemberJoined(ms, r.user), u) <=> HasJoined(ms, u)
    BY <1>2, <2>2, <2>4, JoinedAfter
  <2> QED  BY <1>1, <2>4, <2>5 DEF Joined
<1>7. CASE r.op = "leave"
  <2>1. To(p, "putProfile")
    BY <1>3, <1>7 DEF PutOrg, Calls
  <2>2. u # r.user
    BY <1>7, <2>1 DEF Lagging, To
  <2>3. PICK left \in RemoveMember(ms, r.user) : Changed(p, left)
    BY <1>0, <1>7 DEF Alone, Fits, Decided, LeaveDecided, Busy
  <2>4. orgDoc[o] # NoDoc /\ r.doc.members = left
    BY <1>4, <2>3
  <2>5. HasJoined(left, u) <=> HasJoined(ms, u)
    BY <1>2, <2>2, <2>3, <2>4, JoinedAfter
  <2> QED  BY <1>1, <2>4, <2>5 DEF Joined
<1>8. CASE r.op = "remove"
  <2>1. To(p, "adminRole")
    BY <1>3, <1>8 DEF PutOrg, Calls
  <2>2. u # r.target
    BY <1>8, <2>1 DEF Lagging, To
  <2>3. PICK left \in RemoveMember(ms, r.target) : Changed(p, left)
    BY <1>0, <1>8 DEF Alone, Fits, Decided, RemoveDecided, Busy
  <2>4. orgDoc[o] # NoDoc /\ r.doc.members = left
    BY <1>4, <2>3
  <2>5. HasJoined(left, u) <=> HasJoined(ms, u)
    BY <1>2, <2>2, <2>3, <2>4, JoinedAfter
  <2> QED  BY <1>1, <2>4, <2>5 DEF Joined
<1>9. CASE r.op = "invite"
  <2>1. Changed(p, ms \cup {NewEntry(r)})
    BY <1>0, <1>9 DEF Alone, Fits, Decided, InviteDecided, Busy
  <2>2. orgDoc[o] # NoDoc /\ r.doc.members = ms \cup {NewEntry(r)}
    BY <1>4, <2>1
  <2>3. NewEntry(r).status # "joined"
    BY DEF NewEntry
  <2> QED  BY <1>1, <2>2, <2>3 DEF Joined, HasJoined
<1>10. CASE r.op = "privileged"
  <2>1. PICK set \in SetPrivilege(ms, r.target, r.flag) : Changed(p, set)
    BY <1>0, <1>10 DEF Alone, Fits, Decided, PrivilegeDecided, Busy
  <2>2. orgDoc[o] # NoDoc /\ r.doc.members = set /\ r.flag \in BOOLEAN
    BY <1>4, <2>1 DEF Alone, Request
  <2> QED  BY <1>1, <1>2, <2>1, <2>2, JoinedAfter DEF Joined
<1> QED  BY <1>0, <1>5, <1>6, <1>7, <1>8, <1>9, <1>10 DEF Operations

LEMMA ListingsStep ==
    ASSUME NEW p \in Handlers, Alone(p), Step(p), faults' = 0, ~AnyoneAccepts,
           Projects, Bindings, Listings
    PROVE  Listings'
<1> DEFINE r == handler[p]
<1>0. TypeOK /\ ~Fault /\ r.op \in Ops(r.at) /\ r.op \in Operations
  BY Unfailing DEF Alone, IInv, Request
<1>a. PICK c \in OrgIDs : c = r.org
  BY DEF Alone, Request
<1>1. \A q \in Handlers : q # p =>
         (\A u, o : ~Lagging(q, u, o) /\ ~Lagging(q, u, o)') /\ NoneElse(q)'
  BY DEF Alone, Lagging, Busy, Deleting, Calls, NoneElse
<1>2. /\ \A u \in Registered, o \in OrgIDs : ~Lagging(p, u, o) => Agree(u, o)
      /\ NoneElse(p)
  BY <1>1 DEF Listings
<1>b. /\ handler'[p] # Idle => /\ handler'[p].op = r.op /\ handler'[p].org = c
                               /\ handler'[p].user = r.user
                               /\ NextCall(r.op, r.at, handler'[p].at)
      /\ Stored(p) = orgDoc[c] /\ Members(p) = orgDoc[c].members
  BY <1>a DEF Alone, Goes, To, Stored, Members
<1>c. \A o \in OrgIDs : brought[o] \subseteq brought'[o]
  BY DEF Alone, HistoryGrows
<1>3. ASSUME NEW u \in Registered, NEW o \in OrgIDs, ~Lagging(p, u, o)'
      PROVE  /\ Joined(u, o)' /\ u \notin brought'[o] => Listed(u, o)'
             /\ Listed(u, o)' /\ o \notin Foreseen => Joined(u, o)'
  <2>0. ASSUME ~Lagging(p, u, o), Joined(u, o)' <=> Joined(u, o),
               Listed(u, o)' <=> Listed(u, o)
        PROVE  /\ Joined(u, o)' /\ u \notin brought'[o] => Listed(u, o)'
               /\ Listed(u, o)' /\ o \notin Foreseen => Joined(u, o)'
    BY <1>2, <1>c, <2>0 DEF Agree
  <2>1. CASE r.at \notin {"putOrg", "putProfile", "putMember", "deleteOrg"}
    <3>1. ~Lagging(p, u, o)
      BY <1>0, <1>3, <2>1, LaggingStep
    <3>2. Listed(u, o)' <=> Listed(u, o)
      BY <2>1, ListedStep
    <3>3. Joined(u, o)' <=> Joined(u, o)
      BY <1>0, <2>1, JoinedStep
    <3> QED  BY <2>0, <3>1, <3>2, <3>3
  <2>2. CASE o # c
    <3>1. ~Lagging(p, u, o)
      BY <1>a, <2>2 DEF Lagging
    <3>2. Listed(u, o)' <=> Listed(u, o)
      BY <1>a, <2>2, ListedStep
    <3>3. Joined(u, o)' <=> Joined(u, o)
      BY <1>0, <1>a, <2>2, JoinedStep
    <3> QED  BY <2>0, <3>1, <3>2, <3>3
  <2>3. CASE o = c /\ r.at = "putOrg"
    <3>1. Agree(u, o)
      BY <1>2, <2>3 DEF Lagging
    <3>2. /\ HasJoined(r.doc.members, u) => u \in brought[o] \/ Joined(u, o)
          /\ Joined(u, o) => HasJoined(r.doc.members, u)
      BY <1>0, <1>a, <1>3, <2>3, ActionAt, PutOrgJoins
    <3>3. Joined(u, o)' <=> HasJoined(r.doc.members, u)
      BY <1>0, <1>a, <2>3, JoinedStep
    <3>4. Listed(u, o)' <=> Listed(u, o)
      BY <2>3, ListedStep
    <3> QED  BY <1>c, <3>1, <3>2, <3>3, <3>4 DEF Agree
  <2>4. CASE o = c /\ r.at = "putProfile"
    <3>1. Joined(u, o)' <=> Joined(u, o)
      BY <1>0, <2>4, JoinedStep
    <3>2. CASE u # r.user
      <4>1. ~Lagging(p, u, o)
        BY <2>4, <3>2 DEF Lagging
      <4>2. Listed(u, o)' <=> Listed(u, o)
        BY <2>4, <3>2, ListedStep
      <4> QED  BY <2>0, <3>1, <4>1, <4>2
    <3>3. CASE u = r.user
      <4>1. /\ r.op \in {"create", "accept"} => Listed(u, o)'
            /\ r.op \notin {"create", "accept"} => o \in Foreseen \/ ~Listed(u, o)'
        BY <1>a, <2>4, <3>3, ListedStep
      <4>2. r.op # "delete"
        <5> SUFFICES ASSUME r.op = "delete" PROVE FALSE
          OBVIOUS
        <5>1. PutProfile(p)
          BY <2>4, ActionAt
        <5>2. Go(p, "getCreator")
          BY <1>0, <5>1 DEF PutProfile, WentOnTo
        <5>3. To(p, "getCreator")
          BY <1>0, <5>2, GoTo DEF Alone, Calls
        <5> QED  BY <1>a, <1>3, <2>4, <3>3, <5>3 DEF To, Lagging
      <4>3. CASE r.op = "create"
        <5>1. Stored(p) # NoDoc /\ IsNew(Stored(p), r.user, r.org) /\ r.user \in Registered
          BY <2>4, <4>3 DEF Alone, Fits, Decided, CreateDecided, Busy, Request
        <5>2. PICK body \in Bodies : Stored(p) = NewOrganization(r.user, body)
          BY <5>1 DEF IsNew
        <5>3. PICK d \in Organization, m \in OrgMember :
                 /\ d = NewOrganization(r.user, body) /\ d.members = body \cup {m}
                 /\ m.name = r.user /\ m.status = "joined"
          BY <5>1, NewIs
        <5>4. m \in Members(p)
          BY <5>2, <5>3 DEF Members
        <5>5. HasJoined(Members(p), r.user)
          BY <5>3, <5>4 DEF HasJoined
        <5> QED  BY <1>b, <2>4, <3>1, <3>3, <4>1, <4>3, <5>1, <5>5 DEF Joined
      <4>4. CASE r.op = "accept"
        <5>1. Stored(p) # NoDoc /\ HasJoined(Members(p), r.user)
          BY <2>4, <4>4 DEF Alone, Fits, Decided, AcceptDecided, Busy
        <5> QED  BY <1>b, <2>4, <3>1, <3>3, <4>1, <4>4, <5>1 DEF Joined
      <4>5. CASE r.op = "leave"
        <5>1. Left(p, r.user)
          BY <2>4, <4>5 DEF Alone, Fits, Decided, LeaveDecided, Busy
        <5>2. u \in brought[o] \/ ~Joined(u, o)
          BY <1>a, <1>b, <2>4, <3>3, <5>1 DEF Left, IsMemberExist, HasJoined, Joined
        <5> QED  BY <1>c, <3>1, <4>1, <4>5, <5>2
      <4> QED  BY <1>0, <2>4, <4>2, <4>3, <4>4, <4>5 DEF Ops
    <3> QED  BY <3>2, <3>3
  <2>5. CASE o = c /\ r.at = "putMember"
    <3>1. Joined(u, o)' <=> Joined(u, o)
      BY <1>0, <2>5, JoinedStep
    <3>2. CASE u # r.target
      <4>1. ~Lagging(p, u, o)
        BY <1>0, <2>5, <3>2 DEF Lagging, Ops
      <4>2. Listed(u, o)' <=> Listed(u, o)
        BY <2>5, <3>2, ListedStep
      <4> QED  BY <2>0, <3>1, <4>1, <4>2
    <3>3. CASE u = r.target
      <4>1. o \in Foreseen \/ ~Listed(u, o)'
        BY <1>a, <2>5, <3>3, ListedStep
      <4>2. Left(p, r.target)
        BY <1>0, <2>5 DEF Alone, Fits, Decided, RemoveDecided, Busy, Ops
      <4>3. u \in brought[o] \/ ~Joined(u, o)
        BY <1>a, <1>b, <2>5, <3>3, <4>2 DEF Left, IsMemberExist, HasJoined, Joined
      <4> QED  BY <1>c, <3>1, <4>1, <4>3
    <3> QED  BY <3>2, <3>3
  <2>6. CASE o = c /\ r.at = "deleteOrg"
    <3>1. ~Joined(u, o)' /\ (Listed(u, o)' <=> Listed(u, o))
      BY <1>0, <1>a, <2>6, ListedStep, JoinedStep
    <3>2. r.op = "delete"
      BY <1>0, <2>6 DEF Ops
    <3>3. u = r.user => o \in Foreseen \/ ~Listed(u, o)
      BY <1>a, <2>6, <3>2 DEF Alone, Fits, Current, Busy, Listed, Unlisted, Enlisted
    <3>4. u # r.user => o \in Foreseen \/ ~Listed(u, o)
      <4> SUFFICES ASSUME u # r.user, o \notin Foreseen PROVE ~Listed(u, o)
        OBVIOUS
      <4>1. ~Lagging(p, u, o)
        BY <3>2 DEF Lagging
      <4>2. ~HasJoined(Members(p), u)
        BY <1>2, <1>a, <2>6, <3>2 DEF Busy, Deleting, NoneElse
      <4> QED  BY <1>2, <1>b, <2>6, <4>1, <4>2 DEF Joined, Agree
    <3> QED  BY <3>1, <3>3, <3>4
  <2> QED  BY <2>1, <2>2, <2>3, <2>4, <2>5, <2>6
<1>4. NoneElse(p)'
  <2>0. Foreseen' = Foreseen
    BY DEF Foreseen, Lists
  <2> SUFFICES ASSUME Busy(p, "delete", Deleting)', handler'[p].org \notin Foreseen,
                      NEW u \in Registered \ {handler'[p].user}
               PROVE  ~HasJoined(Members(p), u)'
    BY <2>0 DEF NoneElse
  <2>1. handler'[p] # Idle
    BY DEF Busy, Deleting, Idle
  <2>2. /\ r.op = "delete" /\ u # r.user /\ handler'[p].org = c
        /\ r.at # "putOrg" /\ r.at # "deleteOrg"
    BY <1>0, <1>b, <2>1 DEF Busy, Ops, NextCall
  <2>3. orgDoc' = orgDoc
    BY <2>2, Frame DEF PutOrg, DeleteOrg
  <2>4. Members(p)' = Members(p)
    BY <1>b, <2>2, <2>3 DEF Members, Stored
  <2>5. CASE r.at \in Deleting
    BY <1>2, <1>a, <2>2, <2>4, <2>5 DEF Busy, HasJoined, NoneElse
  <2>6. CASE r.at \notin Deleting
    <3>1. r.at = "getOrg"
      BY <1>0, <1>b, <2>1, <2>2, <2>6 DEF Busy, NextCall, Deleting, Ops
    <3>2. DecideDelete(p)
      BY <1>0, <2>1, <2>2, <3>1 DEF Step, GetProfile, OrgMissing, DecideDelete, DecideAccept,
         DecideLeave, DecideInvite, DecideRemove, DecidePrivilege, InviteMember,
         PostProject, CreateRoleBinding, UpdateAdminRole, UpdateEditRole, PutOrg,
         GetProfileAgain, PutProfile, GetMember, PutMember, DeleteProject, GetCreator,
         PutCreator, DeleteOrg, Reads, At, Answer, TypeOK
    <3>3. ~SeveralJoined(Members(p))
      BY <1>0, <2>1, <3>2 DEF DecideDelete, Answer, TypeOK
    <3>4. Listed(r.user, c) /\ ~Lagging(p, r.user, c)
      BY <1>a, <2>2, <3>1 DEF Alone, Fits, Current, Busy, Listed, Enlisted, Lagging
    <3>5. HasJoined(Members(p), r.user)
      BY <1>2, <1>b, <2>2, <3>4 DEF Joined, Alone, Request, Agree
    <3>6. ~HasJoined(Members(p), u)
      BY <2>2, <3>3, <3>5 DEF HasJoined, SeveralJoined
    <3> QED  BY <2>4, <3>6 DEF HasJoined
  <2> QED  BY <2>5, <2>6
<1>5. ASSUME NEW u \in Registered, NEW o \in OrgIDs, ~Lagging(p, u, o)'
      PROVE  Agree(u, o)'
  <2>1. Foreseen' = Foreseen
    BY DEF Foreseen, Lists
  <2> QED  BY <1>3, <1>5, <2>1 DEF Agree
<1> QED  BY <1>1, <1>4, <1>5 DEF Listings
-----------------------------------------------------------------------------
\* What handlers owe, together: it holds as long as no call has failed.
Settled == Projects /\ Quota /\ Bindings /\ (AnyoneAccepts \/ Listings)
Faultless == faults = 0 => Settled

LEMMA InitFaultless == Init => Faultless
<1> SUFFICES ASSUME Init PROVE Settled
  BY DEF Faultless
<1>1. \A p \in Handlers : handler[p] = Idle
  BY DEF Init
<1>2. Projects
  BY <1>1 DEF Init, Projects, Making, Busy, Idle
<1>3. Quota
  <2>1. Existing = {} /\ \A u : Created(u) = {}
    BY DEF Init, Existing, Created
  <2>2. \A u \in Registered : FirstProfile[u].used \in Int /\ profile[u] = FirstProfile[u]
    BY OrgAssumption DEF Init, Profile
  <2>3. \A p \in Handlers : \A u : ~Owing(p, u)
    BY <1>1 DEF Owing, Busy, Idle
  <2>4. IsFiniteSet(Existing) /\ \A u \in Registered : Cardinality(Created(u)) = 0
    BY <2>1, FS_EmptySet
  <2> QED  BY <2>2, <2>3, <2>4 DEF Quota
<1>4. Bindings
  BY <1>1 DEF Init, Bindings, Existing, Rebinding, Idle
<1>5. Listings
  <2>1. \A u \in Registered, o \in OrgIDs : Agree(u, o)
    BY DEF Init, Agree, Listed, Joined, Foreseen
  <2>2. \A p \in Handlers : NoneElse(p)
    BY <1>1 DEF NoneElse, Busy, Deleting, Idle
  <2> QED  BY <2>1, <2>2 DEF Listings
<1> QED  BY <1>2, <1>3, <1>4, <1>5 DEF Settled

\* A request that starts owes nothing yet.
LEMMA StartSettled ==
    ASSUME Settled, UNCHANGED <<store, brought>>,
           \A p \in Handlers : \/ handler'[p] = handler[p]
                              \/ (handler[p] = Idle /\ handler'[p].at = "getProfile")
    PROVE  Settled'
<1>1. UNCHANGED <<profile, orgDoc, projects, adminRole, editRole, brought>>
  BY DEF store
<1>2. ASSUME NEW p \in Handlers, NEW o
      PROVE  /\ Making(p, o)' <=> Making(p, o)
             /\ Dropping(p, o)' <=> Dropping(p, o)
             /\ Rebinding(p, o)' <=> Rebinding(p, o)
             /\ \A u : Owing(p, u)' <=> Owing(p, u)
             /\ \A u : Lagging(p, u, o)' <=> Lagging(p, u, o)
  BY <1>1 DEF Making, Dropping, Rebinding, Owing, Lagging, Busy, Deleting, Idle, Stored
<1>3. Projects'
  BY <1>1, <1>2 DEF Settled, Projects
<1>4. Quota'
  <2>1. Existing' = Existing /\ \A u : Created(u)' = Created(u)
    BY <1>1 DEF Existing, Created
  <2> QED  BY <1>1, <1>2, <2>1 DEF Settled, Quota
<1>5. Bindings'
  <2>1. Existing' = Existing /\ \A o : Bound(o)' <=> Bound(o)
    BY <1>1 DEF Existing, Bound
  <2>2. ASSUME NEW p \in Handlers
        PROVE  /\ handler'[p].at = "editRole" => ~handler'[p].err
               /\ Rebinding(p, handler[p].org)' =>
                     adminRole'[handler'[p].org] = AdminNames(handler'[p].doc.members)
               /\ Rebinding(p, handler[p].org)' /\ handler'[p].at = "putOrg" =>
                     editRole'[handler'[p].org] = EditNames(handler'[p].doc.members)
    BY <1>1 DEF Settled, Bindings, Rebinding
  <2> QED  BY <1>2, <2>1, <2>2 DEF Settled, Bindings
<1>6. ASSUME Listings PROVE Listings'
  <2>1. \A u, o : (Listed(u, o)' <=> Listed(u, o)) /\ (Joined(u, o)' <=> Joined(u, o))
    BY <1>1 DEF Listed, Lists, Joined, HasJoined
  <2>2. Foreseen' = Foreseen
    BY DEF Foreseen, Lists
  <2>3. \A u, o : Agree(u, o)' <=> Agree(u, o)
    BY <1>1, <2>1, <2>2 DEF Agree
  <2>4. ASSUME NEW p \in Handlers PROVE NoneElse(p)'
    <3>1. CASE handler'[p] = handler[p]
      BY <1>1, <1>6, <2>2, <3>1 DEF Listings, NoneElse, Busy, Members, Stored, HasJoined
    <3>2. CASE handler'[p].at = "getProfile"
      BY <3>2 DEF NoneElse, Busy, Deleting
    <3> QED  BY <3>1, <3>2
  <2> QED  BY <1>2, <1>6, <2>3, <2>4 DEF Listings
<1> QED  BY <1>3, <1>4, <1>5, <1>6 DEF Settled

LEMMA NextFaultless ==
    SInv /\ OneAtATime /\ Faultless /\ [Next]_vars => Faultless'
<1> SUFFICES ASSUME SInv, OneAtATime, Faultless, [Next]_vars, faults' = 0
             PROVE  Settled'
  BY DEF Faultless
<1>1. TypeOK /\ IInv
  BY DEF SInv, IInv
<1>2. Settled /\ ~Fault
  BY <1>1, FaultsStay, Unfailing DEF Faultless
<1>3. CASE UNCHANGED vars
  <2>1. UNCHANGED <<store, brought>> /\ \A p \in Handlers : handler'[p] = handler[p]
    BY <1>3 DEF vars, history
  <2> QED  BY <1>2, <2>1, StartSettled
<1>4. CASE Restart
  BY <1>2, <1>4 DEF Restart
<1>5. ASSUME NEW p \in Handlers, Receive(p) PROVE Settled'
  <2>1. handler[p] = Idle /\ \A q \in Handlers : q # p => handler'[q] = handler[q]
    BY <1>1, <1>5, ReceiveFits DEF SInv
  <2>2. handler'[p].at = "getProfile"
    BY <1>1, <1>5 DEF Receive, NewRequest, TypeOK
  <2>3. UNCHANGED <<store, brought>>
    BY <1>5 DEF Receive, history
  <2>4. \A q \in Handlers : \/ handler'[q] = handler[q]
                             \/ (handler[q] = Idle /\ handler'[q].at = "getProfile")
    BY <2>1, <2>2
  <2> QED  BY <1>2, <2>3, <2>4, StartSettled
<1>6. ASSUME NEW p \in Handlers, CallFails(p) PROVE Settled'
  BY <1>2, <1>6 DEF CallFails
<1>7. ASSUME NEW p \in Handlers, Step(p) PROVE Settled'
  <2>1. Alone(p)
    BY <1>7, StepIsAlone
  <2> QED
    BY <1>2, <1>7, <2>1, ProjectsStep, QuotaStep, BindingsStep, ListingsStep DEF Settled
<1> QED  BY <1>3, <1>4, <1>5, <1>6, <1>7 DEF Next

\* Requests one at a time keep what they owe: no interruption between two of
\* their calls, other than a failed call or a death, loses any of it.
THEOREM FaultlessInductive == Spec /\ []OneAtATime => []Faultless
BY SerialInductive, InitFaultless, NextFaultless, PTL DEF Spec

LEMMA QuietOwes ==
    ASSUME Faultless, Quiet
    PROVE  /\ Settled
           /\ \A p \in Handlers : handler[p].at \notin Calls
BY DEF Faultless, Quiet, Idle, Calls

\* An organization has a project exactly when it has a document: CreateOrg
\* posts the project first, DeleteOrg drops it first, and both finish.
THEOREM ProjectsHold == Spec /\ []OneAtATime => []ProjectsMatchDocuments
<1>1. SInv /\ Faultless => ProjectsMatchDocuments
  <2> SUFFICES ASSUME SInv, Faultless, Quiet PROVE projects = Existing
    BY DEF ProjectsMatchDocuments
  <2>1. Projects /\ projects \subseteq OrgIDs
    BY QuietOwes DEF Settled, SInv, IInv, TypeOK
  <2>2. \A p \in Handlers, o \in OrgIDs : ~Making(p, o) /\ ~Dropping(p, o)
    BY QuietOwes DEF Making, Dropping, Busy, Deleting, Calls
  <2> QED  BY <2>1, <2>2 DEF Projects, Existing
<1> QED  BY <1>1, SerialInductive, FaultlessInductive, PTL

\* OrgUsed of every user is the number of organizations he created that still
\* exist, whoever deleted the others, on top of what his sign-up request said.
THEOREM QuotaHolds == Spec /\ []OneAtATime => []QuotaMatchesCreated
<1>1. Faultless => QuotaMatchesCreated
  <2> SUFFICES ASSUME Faultless, Quiet, NEW u \in Registered
               PROVE  profile[u].used = FirstProfile[u].used + Cardinality(Created(u))
    BY DEF QuotaMatchesCreated, Created
  <2>1. \A p \in Handlers : ~Owing(p, u)
    BY QuietOwes DEF Owing, Busy, Calls
  <2> QED  BY <2>1, QuietOwes DEF Settled, Quota
<1> QED  BY <1>1, FaultlessInductive, PTL

\* Every member but the creator and those his request listed is a subject of
\* the binding of his flag and of no other: invite, privileged and remove bring the bindings up to date.
THEOREM RolesHold == Spec /\ []OneAtATime => []MembersHaveTheirRole
<1>1. Faultless => MembersHaveTheirRole
  <2> SUFFICES ASSUME Faultless, Quiet, NEW o \in Existing PROVE Bound(o)
    BY DEF MembersHaveTheirRole, Bound
  <2>1. \A p \in Handlers : ~Rebinding(p, o) /\ ~Dropping(p, o)
    BY QuietOwes DEF Rebinding, Dropping, Busy, Deleting, Calls
  <2> QED  BY <2>1, QuietOwes DEF Settled, Bindings
<1> QED  BY <1>1, FaultlessInductive, PTL

\* The list in a user's profile and the member lists agree, up to what the
\* bodies of sign-ups and creations listed, when whoever accepts was invited: OrgJoin lists the organization for a caller without an
\* entry as well, so the hypothesis is needed.
THEOREM ListsHold ==
    ASSUME ~AnyoneAccepts
    PROVE  Spec /\ []OneAtATime => []ListsMatchMembers
<1>1. Faultless => ListsMatchMembers
  <2> SUFFICES ASSUME Faultless, Quiet, NEW u \in Registered, NEW o \in OrgIDs
               PROVE  Agree(u, o)
    BY DEF ListsMatchMembers, Agree, Listed, Joined, Existing
  <2>1. \A p \in Handlers : ~Lagging(p, u, o)
    BY QuietOwes DEF Lagging, Calls
  <2> QED  BY <2>1, QuietOwes DEF Settled, Listings
<1> QED  BY <1>1, FaultlessInductive, PTL
=============================================================================
