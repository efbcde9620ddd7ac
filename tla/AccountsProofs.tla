--------------------------- MODULE AccountsProofs ---------------------------
(***************************************************************************)
(* Proofs about Accounts, for all users, sessions and bounds: what a       *)
(* profile says is true, one sign-up wins, and what a user was told stays  *)
(* true unless two requests of that user overlapped.                       *)
(***************************************************************************)
EXTENDS Accounts, TLAPS

Writing == {"putActive", "postProject", "postOrg", "putProfile"}

\* Who is about to write a profile back has one, who mails a token has that,
\* and who looks one up has no profile yet.
Equipped ==
    \A s \in Sessions : Received(s) =>
        /\ session[s].at \in Writing => session[s].copy # None
        /\ session[s].at = "mail" => session[s].token # None
        /\ session[s].at = "getToken" => session[s].copy = None

\* What profiles say of activation, copies say truly as well; and who is past
\* reading a token activates somebody verified.
CopiesVerified ==
    \A s \in Sessions : Received(s) =>
        /\ session[s].copy # None /\ session[s].copy.active => User(s) \in verified
        /\ session[s].kind = "verify" /\ session[s].at \in {"getProfile", "putActive"}
               => User(s) \in verified

\* The same for initialisation.
CopiesInitialized ==
    \A s \in Sessions : Received(s) =>
        /\ session[s].copy # None /\ session[s].copy.init => User(s) \in project
        /\ At(s, "login", "putProfile") => User(s) \in project

\* A sign-up that made the LDAP entry, and has not been answered yet or has.
Wins(s, u) ==
    \/ At(s, "signup", "addProfile") /\ session[s].copy # None /\ User(s) = u
    \/ [user |-> u, session |-> s] \in signedUp

OneWinner ==
    /\ \A s \in Sessions, u \in Names : Wins(s, u) => u \in ldap
    /\ \A s, q \in Sessions, u \in Names : Wins(s, u) /\ Wins(q, u) => s = q

\* Two unfinished sessions of a user have raced, ...
OverlapsAreRaces ==
    \A s, q \in Sessions :
        s # q /\ ~Finished(s) /\ ~Finished(q) /\ User(s) = User(q) => User(s) \in raced

\* ... so that a copy of a user who has none is the profile as it is, a
\* sign-up that found none still finds none, and an activation that has been
\* written is still there.
Current(s) ==
    ~Finished(s) /\ User(s) \notin raced =>
        /\ session[s].at \in Writing => session[s].copy = profile[User(s)]
        /\ session[s].kind = "signup" /\ session[s].at \in {"addLdap", "addProfile"}
               => profile[User(s)] = None
        /\ At(s, "verify", "deleteToken")
               => profile[User(s)] # None /\ profile[User(s)].active

CopiesAreCurrent == \A s \in Sessions : Current(s)

ToldUsersHaveProfiles ==
    /\ \A u \in activated \ raced : profile[u] # None
    /\ \A c \in created : c.user \notin raced => profile[c.user] # None

IInv ==
    /\ TypeOK /\ Equipped
    /\ ActiveWasVerified /\ CopiesVerified
    /\ InitializedHasProject /\ CopiesInitialized
    /\ OneWinner
    /\ OverlapsAreRaces /\ CopiesAreCurrent /\ ToldUsersHaveProfiles
    /\ ActivationLastsAlone /\ CreatedOrgsListed
-----------------------------------------------------------------------------
\* Session s is now these, and the others stay.
Now(s, kind, user, at, token, copy) ==
    /\ session' \in [Sessions -> Session \cup {None}]
    /\ session'[s] # None
    /\ session'[s].kind = kind /\ session'[s].user = user
    /\ session'[s].at = at /\ session'[s].token = token /\ session'[s].copy = copy
    /\ \A q \in Sessions \ {s} : session'[q] = session[q]

\* It goes on for its user.
Becomes(s, at, token, copy) ==
    Now(s, session[s].kind, session[s].user, at, token, copy)

LEMMA SessionRecord ==
    ASSUME TypeOK, NEW s \in Sessions, Received(s)
    PROVE  /\ session[s] \in Session /\ User(s) \in Names
           /\ session[s].kind \in Kinds /\ session[s].at \in Calls
           /\ session[s].token \in Token \cup {None}
           /\ session[s].copy \in Profile \cup {None}
BY DEF TypeOK, Received, Session, User

\* The three ways a step moves its session on.
LEMMA Moves ==
    ASSUME TypeOK, NEW s \in Sessions, Received(s)
    PROVE  /\ \A call \in Calls :
                  Go(s, call) => Becomes(s, call, session[s].token, session[s].copy)
           /\ \A call \in Calls, p \in Profile :
                  Take(s, p, call) => Becomes(s, call, session[s].token, p)
           /\ Stop(s) => Becomes(s, "done", None, None)
<1> DEFINE T == Session \cup {None}
<1> session \in [Sessions -> T] /\ session[s] \in Session /\ None \notin Session
    BY SessionRecord, AccountAssumption DEF TypeOK
<1>1. ASSUME NEW call \in Calls, Go(s, call)
      PROVE  Becomes(s, call, session[s].token, session[s].copy)
  <2>1. [session[s] EXCEPT !.at = call] \in Session
        BY <1>1 DEF Session
  <2>2. session' = [session EXCEPT ![s] = [session[s] EXCEPT !.at = call]]
        BY <1>1 DEF Go
  <2> QED BY <2>1, <2>2 DEF Becomes, Now, Session
<1>2. ASSUME NEW call \in Calls, NEW p \in Profile, Take(s, p, call)
      PROVE  Becomes(s, call, session[s].token, p)
  <2>1. [session[s] EXCEPT !.copy = p, !.at = call] \in Session
        BY <1>2 DEF Session
  <2>2. session' = [session EXCEPT ![s] = [session[s] EXCEPT !.copy = p, !.at = call]]
        BY <1>2 DEF Take
  <2> QED BY <2>1, <2>2 DEF Becomes, Now, Session
<1>3. ASSUME Stop(s)
      PROVE  Becomes(s, "done", None, None)
  <2>1. Ended(session[s]) \in Session
        BY DEF Session, Ended, Calls
  <2>2. session' = [session EXCEPT ![s] = Ended(session[s])]
        BY <1>3 DEF Stop
  <2> QED BY <2>1, <2>2 DEF Becomes, Now, Session, Ended
<1> QED BY <1>1, <1>2, <1>3

LEMMA Arrives ==
    ASSUME TypeOK, NEW s \in Sessions, NEW kind \in Kinds, NEW u \in Names,
           NEW first \in Calls, NEW token \in Token \cup {None},
           Receive(s, kind, u, first, token)
    PROVE  Now(s, kind, u, first, token, None)
<1> DEFINE x == [kind |-> kind, user |-> u, at |-> first, token |-> token, copy |-> None]
<1>1. x \in Session /\ x # None
      BY AccountAssumption DEF Session
<1>2. session' = [session EXCEPT ![s] = x]
      BY DEF Receive
<1> QED BY <1>1, <1>2 DEF Now, TypeOK

LEMMA AddToLdapMoves ==
    ASSUME TypeOK, NEW s \in Sessions, AddToLdap(s)
    PROVE  Becomes(s, "addProfile", session[s].token,
                   IF User(s) \notin ldap THEN NewProfile ELSE None)
<1> DEFINE c == IF User(s) \notin ldap THEN NewProfile ELSE None
           x == [session[s] EXCEPT !.at = "addProfile", !.copy = c]
<1>1. session[s] \in Session
      BY SessionRecord DEF AddToLdap, At
<1>2. c \in Profile \cup {None}
      BY DEF NewProfile, Profile
<1>3. session' = [session EXCEPT ![s] = x]
      BY DEF AddToLdap
<1> HIDE DEF c
<1>4. x \in Session /\ x # None
      BY <1>1, <1>2, AccountAssumption DEF Session, Calls
<1>5. Becomes(s, "addProfile", session[s].token, c)
      BY <1>1, <1>3, <1>4 DEF Becomes, Now, TypeOK, Session
<1> QED BY <1>5 DEF c

LEMMA AddToVerifyMoves ==
    ASSUME TypeOK, NEW s \in Sessions, Received(s),
           NEW t \in Token,
           session' = [session EXCEPT ![s].at = "mail", ![s].token = t]
    PROVE  Becomes(s, "mail", t, session[s].copy)
<1> DEFINE x == [session[s] EXCEPT !.at = "mail", !.token = t]
<1>1. session[s] \in Session
      BY SessionRecord
<1>2. x \in Session /\ x # None
      BY <1>1, AccountAssumption DEF Session, Calls
<1>3. session' = [session EXCEPT ![s] = x]
      OBVIOUS
<1> QED BY <1>1, <1>2, <1>3 DEF Becomes, Now, TypeOK, Session

LEMMA NextIsToken ==
    ASSUME TypeOK, NEW x \in Proxies
    PROVE  NextToken(x) \in Token
BY AccountAssumption DEF TypeOK, NextToken, Token

\* AddToVerify mails the next token of the session's proxy, or stops.
LEMMA VerifyMoves ==
    ASSUME TypeOK, NEW s \in Sessions, AddToVerify(s)
    PROVE  \E t \in Token :
              /\ t = NextToken(ProxyOf[s])
              /\ \/ Becomes(s, "mail", t, session[s].copy)
                 \/ Becomes(s, "done", None, None)
<1>1. Received(s) /\ ProxyOf[s] \in Proxies
      BY AccountAssumption DEF AddToVerify, At
<1> PICK t \in Token : t = NextToken(ProxyOf[s])
    BY <1>1, NextIsToken
<1>2. \/ session' = [session EXCEPT ![s].at = "mail", ![s].token = t]
      \/ Stop(s)
      BY DEF AddToVerify
<1> QED BY <1>1, <1>2, AddToVerifyMoves, Moves

\* A restart ends sessions, or leaves them alone.
LEMMA RestartMoves ==
    ASSUME TypeOK, NEW x \in Proxies, Restart(x)
    PROVE  /\ session' \in [Sessions -> Session \cup {None}]
           /\ \A s \in Sessions :
                 \/ session'[s] = session[s]
                 \/ /\ Received(s) /\ session'[s] # None /\ session'[s].at = "done"
                    /\ session'[s].kind = session[s].kind
                    /\ session'[s].user = session[s].user
                    /\ session'[s].token = None /\ session'[s].copy = None
<1> DEFINE T == Session \cup {None}
<1> session \in [Sessions -> T] /\ None \notin Session
    BY AccountAssumption DEF TypeOK
<1>1. ASSUME NEW s \in Sessions, Received(s)
      PROVE  /\ Ended(session[s]) \in Session
             /\ Ended(session[s]).kind = session[s].kind
             /\ Ended(session[s]).user = session[s].user
             /\ Ended(session[s]).at = "done"
             /\ Ended(session[s]).token = None /\ Ended(session[s]).copy = None
      BY <1>1, SessionRecord DEF Ended, Session, Calls
<1>2. session' = [s \in Sessions |->
          IF Received(s) /\ ProxyOf[s] = x THEN Ended(session[s]) ELSE session[s]]
      BY DEF Restart
<1> QED BY <1>1, <1>2 DEF Received

LEMMA GetTokenMoves ==
    ASSUME TypeOK, NEW s \in Sessions, Received(s), NEW u \in Names,
           session' = [session EXCEPT ![s].at = "getProfile", ![s].user = u]
    PROVE  Now(s, session[s].kind, u, "getProfile", session[s].token, session[s].copy)
<1> DEFINE x == [session[s] EXCEPT !.at = "getProfile", !.user = u]
<1>1. session[s] \in Session
      BY SessionRecord
<1>2. x \in Session /\ x # None
      BY <1>1, AccountAssumption DEF Session, Calls
<1>3. session' = [session EXCEPT ![s] = x]
      OBVIOUS
<1> QED BY <1>1, <1>2, <1>3 DEF Now, TypeOK, Session

LEMMA GetProfileMoves ==
    ASSUME TypeOK, NEW s \in Sessions, GetProfile(s)
    PROVE  \/ /\ profile[User(s)] # None
              /\ \E call \in {"putActive", "postProject", "postOrg"} :
                    Becomes(s, call, session[s].token, profile[User(s)])
           \/ Becomes(s, "putToken", session[s].token, session[s].copy)
           \/ Becomes(s, "done", None, None)
<1>1. Received(s) /\ User(s) \in Names
      BY SessionRecord DEF GetProfile
<1>2. profile[User(s)] \in Profile \cup {None}
      BY <1>1 DEF TypeOK
<1>3. CASE Stop(s)
      BY <1>1, <1>3, Moves
<1>4. CASE profile[User(s)] # None /\ AfterGet(s, profile[User(s)])
      BY <1>1, <1>2, <1>4, Moves DEF AfterGet, Calls
<1> QED BY <1>3, <1>4 DEF GetProfile
-----------------------------------------------------------------------------
LEMMA InitIInv ==
    ASSUME Init
    PROVE  IInv
<1>1. TypeOK
      BY AccountAssumption DEF Init, TypeOK, Token
<1>2. \A s \in Sessions : ~Received(s) /\ Finished(s)
      BY DEF Init, Received, Finished
<1>3. Equipped /\ CopiesVerified /\ CopiesInitialized /\ OverlapsAreRaces
      /\ CopiesAreCurrent
      BY <1>2 DEF Equipped, CopiesVerified, CopiesInitialized, OverlapsAreRaces,
                  CopiesAreCurrent, Current
<1>4. OneWinner
      BY <1>2 DEF OneWinner, Wins, At, Init
<1>5. ActiveWasVerified /\ InitializedHasProject /\ ToldUsersHaveProfiles
      /\ ActivationLastsAlone /\ CreatedOrgsListed
      BY DEF Init, ActiveWasVerified, InitializedHasProject, ToldUsersHaveProfiles,
             ActivationLastsAlone, CreatedOrgsListed
<1> QED BY <1>1, <1>3, <1>4, <1>5 DEF IInv

\* A request that arrives: what it is, and for whom.
LEMMA Arrivals ==
    ASSUME TypeOK, NEW s \in Sessions, Arrive(s)
    PROVE  \E kind \in Kinds, u \in Names, first \in {"exists", "getProfile", "getToken"},
              token \in Token \cup {None} :
              /\ Receive(s, kind, u, first, token)
              /\ kind = "verify" => first = "getToken"
              /\ Now(s, kind, u, first, token, None)
<1>1. \E kind \in Kinds, u \in Names, first \in {"exists", "getProfile", "getToken"},
         token \in Token \cup {None} :
         /\ Receive(s, kind, u, first, token)
         /\ kind = "verify" => first = "getToken"
      BY DEF Arrive, SignUp, SendVerifyMail, VerifyAccount, Login,
             CreateOrganization, TypeOK, Kinds
<1> QED BY <1>1, Arrives DEF Calls

LEMMA Acting ==
    ASSUME TypeOK, NEW s \in Sessions, Step(s)
    PROVE  /\ Received(s) /\ ~Finished(s) /\ session[s] \in Session
           /\ User(s) \in Names
           /\ session[s].token \in Token \cup {None}
           /\ session[s].copy \in Profile \cup {None}
<1>1. Received(s) /\ session[s].at # "done"
      BY DEF Step, IfExist, AddToLdap, AddToEtcd, AddToVerify, SendMail, GetToken,
             GetProfile, Activate, DeleteToken, PostProject, PostOrg, PutProfile, At
<1> QED BY <1>1, SessionRecord DEF Finished

LEMMA TypeKept ==
    ASSUME TypeOK, Equipped, Next
    PROVE  TypeOK'
<1> USE AccountAssumption
<1>1. ASSUME NEW s \in Sessions, Arrive(s)
      PROVE  TypeOK'
  <2>1. PICK kind \in Kinds, u \in Names, first \in {"exists", "getProfile", "getToken"},
             token \in Token \cup {None} :
             Receive(s, kind, u, first, token) /\ Now(s, kind, u, first, token, None)
        BY <1>1, Arrivals
  <2>2. UNCHANGED <<ldap, profile, verify, project, mail, drawn, seed, seeds, faults,
                    expiries, signedUp, created, verified, activated, unseeded>>
        /\ raced' = RacedBy(s, u)
        BY <2>1 DEF Receive, etcd, random, counters
  <2> QED BY <2>1, <2>2 DEF TypeOK, Now, RacedBy
<1>2. ASSUME NEW s \in Sessions, Step(s)
      PROVE  TypeOK'
  <2> USE <1>2 DEF vars, etcd, random, counters, history, NoFault, Fault
  <2>0. /\ NewProfile \in Profile
        /\ \A p \in Profile : [p EXCEPT !.active = TRUE] \in Profile
        BY DEF NewProfile, Profile
  <2>r. Received(s) /\ User(s) \in Names /\ session[s] \in Session
        BY Acting
  <2>1. CASE IfExist(s)
        BY <2>0, <2>r, <2>1, Moves DEF TypeOK, IfExist, Becomes, Now, Calls
  <2>2. CASE AddToLdap(s)
        BY <2>0, <2>r, <2>2, AddToLdapMoves DEF TypeOK, AddToLdap, Becomes, Now
  <2>3. CASE AddToEtcd(s)
        BY <2>0, <2>r, <2>3, Moves DEF TypeOK, AddToEtcd, Becomes, Now, Calls
  <2>4. CASE AddToVerify(s)
    <3>1. ProxyOf[s] \in Proxies /\ NextToken(ProxyOf[s]) \in Token
          BY NextIsToken
    <3>2. session' \in [Sessions -> Session \cup {None}]
          BY <2>4, VerifyMoves DEF Becomes, Now
    <3>3. \A e \in verify' : e.token \in Token /\ e.user \in Names
          BY <3>1, <2>r, <2>4 DEF AddToVerify, TypeOK
    <3>4. /\ UNCHANGED <<ldap, profile, project, mail, seed, seeds, signedUp, created,
                         verified, activated, raced>>
          /\ drawn' \in [Proxies -> Nat] /\ unseeded' \in Nat /\ UNCHANGED expiries
          /\ faults' = faults \/ (faults < MaxFaults /\ faults' = faults + 1)
          BY <2>4 DEF AddToVerify, Draw, TypeOK
    <3> QED BY <3>2, <3>3, <3>4 DEF TypeOK
  <2>5. CASE SendMail(s)
        BY <2>0, <2>r, <2>5, Moves, SessionRecord DEF TypeOK, SendMail, Becomes, Now, Equipped, At
  <2>6. CASE GetToken(s)
        BY <2>0, <2>r, <2>6, Moves, GetTokenMoves
        DEF TypeOK, GetToken, Becomes, Now, EntryOf, RacedBy
  <2>7. CASE GetProfile(s)
        BY <2>0, <2>r, <2>7, Moves DEF TypeOK, GetProfile, AfterGet, Becomes, Now, Seed, Calls
  <2>8. CASE Activate(s)
        BY <2>0, <2>r, <2>8, Moves, SessionRecord
        DEF TypeOK, Activate, Becomes, Now, Equipped, Writing, At, Calls
  <2>9. CASE DeleteToken(s)
        BY <2>0, <2>r, <2>9, Moves DEF TypeOK, DeleteToken, Becomes, Now, EntryOf
  <2>10. CASE PostProject(s)
        BY <2>0, <2>r, <2>10, Moves DEF TypeOK, PostProject, Becomes, Now, Calls
  <2>11. CASE PostOrg(s)
        BY <2>0, <2>r, <2>11, Moves DEF TypeOK, PostOrg, Becomes, Now, Calls
  <2>12. CASE PutProfile(s)
    <3>1. Changed(s) \in Profile
      <4>1. session[s].copy \in Profile
            BY <2>12, <2>r, SessionRecord DEF PutProfile, At, Equipped, Writing
      <4> QED BY <4>1 DEF Changed, Profile
    <3> QED BY <3>1, <2>0, <2>r, <2>12, Moves DEF TypeOK, PutProfile, Becomes, Now
  <2> QED BY <2>1, <2>2, <2>3, <2>4, <2>5, <2>6, <2>7, <2>8, <2>9, <2>10, <2>11,
             <2>12 DEF Step
<1>3. CASE Expire
      BY <1>3 DEF TypeOK, Expire, random, history
<1>4. ASSUME NEW x \in Proxies, Restart(x)
      PROVE  TypeOK'
  <2>2. session' \in [Sessions -> Session \cup {None}]
        BY <1>4, RestartMoves
  <2> QED BY <1>4, <2>2 DEF TypeOK, Restart, Fault, etcd, history
<1>5. CASE TryCreatProject
      BY <1>5, SessionRecord
      DEF TypeOK, TryCreatProject, etcd, random, counters, history, Finished
<1> QED BY <1>1, <1>2, <1>3, <1>4, <1>5 DEF Next

LEMMA EquippedKept ==
    ASSUME TypeOK, Equipped, Next
    PROVE  Equipped'
<1> USE AccountAssumption DEF Writing
<1>1. ASSUME NEW s \in Sessions, Arrive(s)
      PROVE  Equipped'
      BY <1>1, Arrivals DEF Equipped, Now, Received
<1>2. ASSUME NEW s \in Sessions, Step(s)
      PROVE  Equipped'
  <2> USE DEF Equipped, Received, Becomes, Now, At
  <2>r. Received(s) /\ session[s] \in Session
        BY <1>2, Acting
  <2>p. \A p \in Profile : p # None
        OBVIOUS
  <2>1. CASE IfExist(s)
        BY <2>r, <2>1, Moves DEF IfExist, Calls
  <2>2. CASE AddToLdap(s)
        BY <2>r, <2>2, AddToLdapMoves
  <2>3. CASE AddToEtcd(s)
        BY <2>r, <2>3, Moves DEF AddToEtcd, Calls
  <2>4. CASE AddToVerify(s)
    <3>1. PICK t \in Token : \/ Becomes(s, "mail", t, session[s].copy)
                             \/ Becomes(s, "done", None, None)
          BY <2>4, VerifyMoves
    <3> QED BY <3>1, <2>r, <2>4 DEF AddToVerify
  <2>5. CASE SendMail(s)
        BY <2>r, <2>5, Moves DEF SendMail
  <2>6. CASE GetToken(s)
        BY <2>r, <2>6, Moves, GetTokenMoves DEF GetToken, EntryOf, TypeOK
  <2>7. CASE GetProfile(s)
        BY <2>r, <2>7, GetProfileMoves DEF TypeOK, User, Session
  <2>8. CASE Activate(s)
        BY <2>r, <2>8, Moves DEF Activate, Calls
  <2>9. CASE DeleteToken(s)
        BY <2>r, <2>9, Moves DEF DeleteToken
  <2>10. CASE PostProject(s)
        BY <2>r, <2>10, Moves DEF PostProject, Calls
  <2>11. CASE PostOrg(s)
        BY <2>r, <2>11, Moves DEF PostOrg, Calls
  <2>12. CASE PutProfile(s)
        BY <2>r, <2>12, Moves DEF PutProfile
  <2> QED BY <1>2, <2>1, <2>2, <2>3, <2>4, <2>5, <2>6, <2>7, <2>8, <2>9, <2>10,
             <2>11, <2>12 DEF Step
<1>3. CASE Expire
      BY <1>3 DEF Equipped, Expire, Received
<1>4. ASSUME NEW x \in Proxies, Restart(x)
      PROVE  Equipped'
      BY <1>4, RestartMoves DEF Equipped, Received
<1>5. CASE TryCreatProject
      BY <1>5 DEF Equipped, TryCreatProject, Received
<1> QED BY <1>1, <1>2, <1>3, <1>4, <1>5 DEF Next

\* What a profile or a copy says of activation stays true.
LEMMA VerifiedKept ==
    ASSUME TypeOK, Equipped, ActiveWasVerified, CopiesVerified, Next
    PROVE  ActiveWasVerified' /\ CopiesVerified'
<1> USE AccountAssumption
<1>1. ASSUME NEW s \in Sessions, Arrive(s)
      PROVE  ActiveWasVerified' /\ CopiesVerified'
      BY <1>1, Arrivals DEF ActiveWasVerified, CopiesVerified, Now, Received, User,
         Receive, etcd
<1>2. ASSUME NEW s \in Sessions, Step(s)
      PROVE  ActiveWasVerified' /\ CopiesVerified'
  <2> USE DEF ActiveWasVerified, CopiesVerified, Received, User, Becomes, Now, At,
              etcd, history
  <2>r. /\ Received(s) /\ session[s] \in Session /\ User(s) \in Names
        /\ session[s].copy \in Profile \cup {None}
        /\ profile \in [Names -> Profile \cup {None}]
        BY <1>2, Acting DEF TypeOK
  <2>p. \A p \in Profile : p # None
        OBVIOUS
  <2>1. CASE IfExist(s)
        BY <2>r, <2>1, Moves DEF IfExist, Calls
  <2>2. CASE AddToLdap(s)
    <3>1. PICK c : Becomes(s, "addProfile", session[s].token, c) /\ c \in {NewProfile, None}
          BY <2>2, AddToLdapMoves
    <3>2. ~NewProfile.active
          BY DEF NewProfile
    <3>3. UNCHANGED <<profile, verified>> /\ session[s].kind = "signup"
          BY <2>2 DEF AddToLdap
    <3> QED BY <3>1, <3>2, <3>3, <2>r
  <2>3. CASE AddToEtcd(s)
    <3>1. \/ Becomes(s, "putToken", session[s].token, session[s].copy)
          \/ Becomes(s, "done", None, None)
          BY <2>r, <2>3, Moves DEF AddToEtcd, Calls
    <3>2. /\ profile' \in {profile, [profile EXCEPT ![User(s)] = NewProfile]}
          /\ UNCHANGED verified
          BY <2>3 DEF AddToEtcd
    <3>3. ~NewProfile.active
          BY DEF NewProfile
    <3> QED BY <2>r, <3>1, <3>2, <3>3
  <2>4. CASE AddToVerify(s)
    <3>1. PICK t \in Token : \/ Becomes(s, "mail", t, session[s].copy)
                             \/ Becomes(s, "done", None, None)
          BY <2>4, VerifyMoves
    <3> QED BY <3>1, <2>r, <2>4 DEF AddToVerify
  <2>5. CASE SendMail(s)
        BY <2>r, <2>5, Moves DEF SendMail
  <2>6. CASE GetToken(s)
        BY <2>r, <2>6, Moves, GetTokenMoves DEF GetToken, EntryOf, TypeOK, Equipped
  <2>7. CASE GetProfile(s)
    <3>1. UNCHANGED <<profile, verified>> /\ session[s].at = "getProfile"
          BY <2>7 DEF GetProfile
    <3> QED BY <2>r, <2>7, <3>1, GetProfileMoves
  <2>8. CASE Activate(s)
        BY <2>r, <2>8, Moves DEF Activate, Calls
  <2>9. CASE DeleteToken(s)
        BY <2>r, <2>9, Moves DEF DeleteToken
  <2>10. CASE PostProject(s)
        BY <2>r, <2>10, Moves DEF PostProject, Calls
  <2>11. CASE PostOrg(s)
        BY <2>r, <2>11, Moves DEF PostOrg, Calls
  <2>12. CASE PutProfile(s)
    <3>1. Changed(s).active = session[s].copy.active
          BY <2>12, <2>r DEF PutProfile, Equipped, Writing, Changed, Profile
    <3> QED BY <3>1, <2>r, <2>12, Moves DEF PutProfile, Equipped, Writing
  <2> QED BY <1>2, <2>1, <2>2, <2>3, <2>4, <2>5, <2>6, <2>7, <2>8, <2>9, <2>10,
             <2>11, <2>12 DEF Step
<1>3. CASE Expire
      BY <1>3 DEF ActiveWasVerified, CopiesVerified, Received, User, Expire, history
<1>4. ASSUME NEW x \in Proxies, Restart(x)
      PROVE  ActiveWasVerified' /\ CopiesVerified'
  <2>1. UNCHANGED <<profile, verified>>
        BY <1>4 DEF Restart, etcd, history
  <2> QED BY <1>4, <2>1, RestartMoves DEF ActiveWasVerified, CopiesVerified, Received, User
<1>5. CASE TryCreatProject
      BY <1>5 DEF ActiveWasVerified, CopiesVerified, Received, User, TryCreatProject,
                  etcd, history
<1> QED BY <1>1, <1>2, <1>3, <1>4, <1>5 DEF Next

\* The same for initialisation.
LEMMA InitializedKept ==
    ASSUME TypeOK, Equipped, InitializedHasProject, CopiesInitialized, Next
    PROVE  InitializedHasProject' /\ CopiesInitialized'
<1> USE AccountAssumption
<1>1. ASSUME NEW s \in Sessions, Arrive(s)
      PROVE  InitializedHasProject' /\ CopiesInitialized'
      BY <1>1, Arrivals DEF InitializedHasProject, CopiesInitialized, Now, Received,
         User, At, Receive, etcd
<1>2. ASSUME NEW s \in Sessions, Step(s)
      PROVE  InitializedHasProject' /\ CopiesInitialized'
  <2> USE DEF InitializedHasProject, CopiesInitialized, Received, User, Becomes, Now,
              At, etcd, history
  <2>r. /\ Received(s) /\ session[s] \in Session /\ User(s) \in Names
        /\ session[s].copy \in Profile \cup {None}
        /\ profile \in [Names -> Profile \cup {None}]
        BY <1>2, Acting DEF TypeOK
  <2>p. \A p \in Profile : p # None
        OBVIOUS
  <2>1. CASE IfExist(s)
        BY <2>r, <2>1, Moves DEF IfExist, Calls
  <2>2. CASE AddToLdap(s)
    <3>1. PICK c : Becomes(s, "addProfile", session[s].token, c) /\ c \in {NewProfile, None}
          BY <2>2, AddToLdapMoves
    <3>2. ~NewProfile.init
          BY DEF NewProfile
    <3>3. UNCHANGED <<profile, project>> /\ session[s].kind = "signup"
          BY <2>2 DEF AddToLdap
    <3> QED BY <3>1, <3>2, <3>3, <2>r
  <2>3. CASE AddToEtcd(s)
    <3>1. \/ Becomes(s, "putToken", session[s].token, session[s].copy)
          \/ Becomes(s, "done", None, None)
          BY <2>r, <2>3, Moves DEF AddToEtcd, Calls
    <3>2. /\ profile' \in {profile, [profile EXCEPT ![User(s)] = NewProfile]}
          /\ UNCHANGED project
          BY <2>3 DEF AddToEtcd
    <3>3. ~NewProfile.init
          BY DEF NewProfile
    <3> QED BY <2>r, <3>1, <3>2, <3>3
  <2>4. CASE AddToVerify(s)
    <3>1. PICK t \in Token : \/ Becomes(s, "mail", t, session[s].copy)
                             \/ Becomes(s, "done", None, None)
          BY <2>4, VerifyMoves
    <3> QED BY <3>1, <2>r, <2>4 DEF AddToVerify
  <2>5. CASE SendMail(s)
        BY <2>r, <2>5, Moves DEF SendMail
  <2>6. CASE GetToken(s)
        BY <2>r, <2>6, Moves, GetTokenMoves DEF GetToken, EntryOf, TypeOK, Equipped
  <2>7. CASE GetProfile(s)
    <3>1. UNCHANGED <<profile, project>>
          BY <2>7 DEF GetProfile
    <3> QED BY <2>r, <2>7, <3>1, GetProfileMoves
  <2>8. CASE Activate(s)
        BY <2>r, <2>8, Moves DEF Activate, Calls, Equipped, Writing, Profile
  <2>9. CASE DeleteToken(s)
        BY <2>r, <2>9, Moves DEF DeleteToken
  <2>10. CASE PostProject(s)
        BY <2>r, <2>10, Moves DEF PostProject, Calls
  <2>11. CASE PostOrg(s)
        BY <2>r, <2>11, Moves DEF PostOrg, Calls
  <2>12. CASE PutProfile(s)
    <3>1. session[s].kind # "login" => Changed(s).init = session[s].copy.init
          BY <2>12, <2>r DEF PutProfile, Equipped, Writing, Changed, Profile
    <3> QED BY <3>1, <2>r, <2>12, Moves DEF PutProfile, Equipped, Writing
  <2> QED BY <1>2, <2>1, <2>2, <2>3, <2>4, <2>5, <2>6, <2>7, <2>8, <2>9, <2>10,
             <2>11, <2>12 DEF Step
<1>3. CASE Expire
      BY <1>3 DEF InitializedHasProject, CopiesInitialized, Received, User, At, Expire
<1>4. ASSUME NEW x \in Proxies, Restart(x)
      PROVE  InitializedHasProject' /\ CopiesInitialized'
  <2>1. UNCHANGED <<profile, project>>
        BY <1>4 DEF Restart, etcd
  <2> QED BY <1>4, <2>1, RestartMoves DEF InitializedHasProject, CopiesInitialized,
                                         Received, User, At
<1>5. CASE TryCreatProject
      BY <1>5 DEF InitializedHasProject, CopiesInitialized, Received, User, At,
                  TryCreatProject, etcd
<1> QED BY <1>1, <1>2, <1>3, <1>4, <1>5 DEF Next

\* LDAP lets one sign-up of a name through: nobody wins once the entry exists.
LEMMA OneWinnerKept ==
    ASSUME TypeOK, OneWinner, Next
    PROVE  OneWinner'
<1> USE AccountAssumption
<1> DEFINE Fewer == /\ ldap \subseteq ldap'
                    /\ \A q \in Sessions, u \in Names : Wins(q, u)' => Wins(q, u)
<1>0. Fewer => OneWinner'
      BY DEF OneWinner
<1>1. ASSUME NEW s \in Sessions, Arrive(s)
      PROVE  Fewer
      BY <1>1, Arrivals DEF Wins, Now, Received, User, At, Receive
<1>2. ASSUME NEW s \in Sessions, Step(s), ~AddToLdap(s)
      PROVE  Fewer
  <2> USE DEF Wins, Received, User, Becomes, Now, At, etcd, history
  <2>r. Received(s) /\ session[s] \in Session /\ User(s) \in Names
        BY <1>2, Acting
  <2>1. CASE IfExist(s)
        BY <2>r, <2>1, Moves DEF IfExist, Calls
  <2>3. CASE AddToEtcd(s)
        BY <2>r, <2>3, Moves DEF AddToEtcd, Calls
  <2>4. CASE AddToVerify(s)
    <3>1. PICK t \in Token : \/ Becomes(s, "mail", t, session[s].copy)
                             \/ Becomes(s, "done", None, None)
          BY <2>4, VerifyMoves
    <3> QED BY <3>1, <2>r, <2>4 DEF AddToVerify
  <2>5. CASE SendMail(s)
        BY <2>r, <2>5, Moves DEF SendMail
  <2>6. CASE GetToken(s)
        BY <2>r, <2>6, Moves, GetTokenMoves DEF GetToken, EntryOf, TypeOK
  <2>7. CASE GetProfile(s)
    <3>1. UNCHANGED <<ldap, signedUp>>
          BY <2>7 DEF GetProfile
    <3> QED BY <2>r, <2>7, <3>1, GetProfileMoves
  <2>8. CASE Activate(s)
        BY <2>r, <2>8, Moves DEF Activate, Calls
  <2>9. CASE DeleteToken(s)
        BY <2>r, <2>9, Moves DEF DeleteToken
  <2>10. CASE PostProject(s)
        BY <2>r, <2>10, Moves DEF PostProject, Calls
  <2>11. CASE PostOrg(s)
        BY <2>r, <2>11, Moves DEF PostOrg, Calls
  <2>12. CASE PutProfile(s)
        BY <2>r, <2>12, Moves DEF PutProfile
  <2> QED BY <1>2, <2>1, <2>3, <2>4, <2>5, <2>6, <2>7, <2>8, <2>9, <2>10, <2>11,
             <2>12 DEF Step
<1>3. CASE \E s \in Sessions : AddToLdap(s)
  <2>1. PICK s \in Sessions : AddToLdap(s)
        BY <1>3
  <2>2. /\ Becomes(s, "addProfile", session[s].token,
                   IF User(s) \notin ldap THEN NewProfile ELSE None)
        /\ ldap' = ldap \cup {User(s)} /\ signedUp' = signedUp
        /\ session[s].kind = "signup" /\ session[s].at = "addLdap"
        BY <2>1, AddToLdapMoves DEF AddToLdap, At, history
  <2>3. ASSUME NEW q \in Sessions, NEW u \in Names, Wins(q, u)'
        PROVE  Wins(q, u) \/ (q = s /\ u = User(s) /\ u \notin ldap)
        BY <2>2, <2>3 DEF Wins, Becomes, Now, At, Received, User
  <2> QED BY <2>2, <2>3 DEF OneWinner
<1>4. Expire => Fewer
      BY DEF Wins, Expire, At, Received, User, history
<1>5. (\E x \in Proxies : Restart(x)) => Fewer
      BY RestartMoves DEF Wins, Restart, At, Received, User, history
<1>6. TryCreatProject => Fewer
      BY DEF Wins, TryCreatProject, At, Received, User, history
<1> QED BY <1>0, <1>1, <1>2, <1>3, <1>4, <1>5, <1>6 DEF Next

\* The unfinished sessions of a user meet in raced.
LEMMA RacesKept ==
    ASSUME TypeOK, OverlapsAreRaces, Next
    PROVE  OverlapsAreRaces' /\ raced \subseteq raced'
<1> USE AccountAssumption
<1> DEFINE Fewer == /\ raced \subseteq raced'
                    /\ \A q \in Sessions : ~Finished(q)' =>
                           ~Finished(q) /\ User(q)' = User(q)
<1>0. Fewer => OverlapsAreRaces' /\ raced \subseteq raced'
      BY DEF OverlapsAreRaces
\* A session that is new to a user meets those that are there.
<1> DEFINE Meets(s) == \E u \in Names :
                   /\ raced' = RacedBy(s, u) /\ User(s)' = u
                   /\ \A q \in Sessions \ {s} : session'[q] = session[q]
<1>m. ASSUME NEW s \in Sessions, Meets(s)
      PROVE  OverlapsAreRaces' /\ raced \subseteq raced'
  <2>1. PICK u \in Names : /\ raced' = RacedBy(s, u) /\ User(s)' = u
                           /\ \A q \in Sessions \ {s} : session'[q] = session[q]
        BY <1>m
  <2>2. raced \subseteq raced'
        BY <2>1 DEF RacedBy
  <2>3. \A q \in Sessions \ {s} : /\ Finished(q)' <=> Finished(q)
                                  /\ User(q)' = User(q)
        BY <2>1 DEF Finished, Received, User
  <2>4. \A q \in Sessions \ {s} : ~Finished(q) /\ User(q) = u => u \in raced'
        BY <2>1 DEF RacedBy
  <2> QED BY <2>1, <2>2, <2>3, <2>4 DEF OverlapsAreRaces
<1>1. ASSUME NEW s \in Sessions, Arrive(s)
      PROVE  Meets(s)
      BY <1>1, Arrivals DEF Now, User, Receive
<1>2. ASSUME NEW s \in Sessions, Step(s)
      PROVE  Fewer \/ Meets(s)
  <2> USE DEF Received, User, Becomes, Now, At, Finished, history
  <2>r. Received(s) /\ ~Finished(s) /\ session[s] \in Session
        BY <1>2, Acting
  <2>1. CASE IfExist(s)
        BY <2>r, <2>1, Moves DEF IfExist, Calls
  <2>2. CASE AddToLdap(s)
        BY <2>r, <2>2, AddToLdapMoves DEF AddToLdap
  <2>3. CASE AddToEtcd(s)
        BY <2>r, <2>3, Moves DEF AddToEtcd, Calls
  <2>4. CASE AddToVerify(s)
    <3>1. PICK t \in Token : \/ Becomes(s, "mail", t, session[s].copy)
                             \/ Becomes(s, "done", None, None)
          BY <2>4, VerifyMoves
    <3> QED BY <3>1, <2>r, <2>4 DEF AddToVerify
  <2>5. CASE SendMail(s)
        BY <2>r, <2>5, Moves DEF SendMail
  <2>6. CASE GetToken(s)
        BY <2>r, <2>6, Moves, GetTokenMoves DEF GetToken, EntryOf, TypeOK
  <2>7. CASE GetProfile(s)
    <3>1. UNCHANGED raced
          BY <2>7 DEF GetProfile
    <3> QED BY <2>r, <2>7, <3>1, GetProfileMoves DEF Session
  <2>8. CASE Activate(s)
        BY <2>r, <2>8, Moves DEF Activate, Calls
  <2>9. CASE DeleteToken(s)
        BY <2>r, <2>9, Moves DEF DeleteToken
  <2>10. CASE PostProject(s)
        BY <2>r, <2>10, Moves DEF PostProject, Calls
  <2>11. CASE PostOrg(s)
        BY <2>r, <2>11, Moves DEF PostOrg, Calls
  <2>12. CASE PutProfile(s)
        BY <2>r, <2>12, Moves DEF PutProfile
  <2> QED BY <1>2, <2>1, <2>2, <2>3, <2>4, <2>5, <2>6, <2>7, <2>8, <2>9, <2>10,
             <2>11, <2>12 DEF Step
<1>3. Expire => Fewer
      BY DEF Finished, Received, User, Expire, history
<1>4. (\E x \in Proxies : Restart(x)) => Fewer
      BY RestartMoves DEF Finished, Received, User, Restart, history
<1>5. TryCreatProject => Fewer
      BY DEF Finished, Received, User, TryCreatProject, history
<1> QED BY <1>0, <1>m, <1>1, <1>2, <1>3, <1>4, <1>5 DEF Next

\* Where no requests of a user overlap, copies are what they were read from,
\* and what the user was told stays true.
Promises == ToldUsersHaveProfiles /\ ActivationLastsAlone /\ CreatedOrgsListed

LEMMA PromisesKept ==
    ASSUME TypeOK, Equipped, OverlapsAreRaces, CopiesAreCurrent, Promises, Next
    PROVE  CopiesAreCurrent' /\ Promises'
<1> USE AccountAssumption
<1>r. raced \subseteq raced'
      BY RacesKept
<1>q. UNCHANGED <<profile, activated, created>> => Promises'
      BY <1>r DEF Promises, ToldUsersHaveProfiles, ActivationLastsAlone, CreatedOrgsListed
<1>1. ASSUME NEW s \in Sessions, Arrive(s)
      PROVE  CopiesAreCurrent' /\ Promises'
  <2>1. PICK kind \in Kinds, u \in Names, first \in {"exists", "getProfile", "getToken"},
             token \in Token \cup {None} :
             Receive(s, kind, u, first, token) /\ Now(s, kind, u, first, token, None)
        BY <1>1, Arrivals
  <2>2. UNCHANGED <<profile, activated, created>>
        BY <2>1 DEF Receive, etcd
  <2>3. \A q \in Sessions \ {s} : Current(q)'
        BY <2>1, <2>2, <1>r DEF CopiesAreCurrent, Current, Now, Finished, Received, User, At
  <2>4. Current(s)'
        BY <2>1 DEF Current, Now, At, User, Writing
  <2> QED BY <2>2, <2>3, <2>4, <1>q DEF CopiesAreCurrent
<1>2. ASSUME NEW s \in Sessions, Step(s)
      PROVE  CopiesAreCurrent' /\ Promises'
  <2> DEFINE u == User(s)
  <2>r. /\ Received(s) /\ ~Finished(s) /\ session[s] \in Session /\ u \in Names
        /\ session[s].copy \in Profile \cup {None}
        /\ profile \in [Names -> Profile \cup {None}]
        BY <1>2, Acting DEF TypeOK
  <2>c. Current(s)
        BY DEF CopiesAreCurrent
  <2>p. \A p \in Profile : p # None
        OBVIOUS
\* Of an unfinished session beside s, the user has raced or is another.
  <2>o. ASSUME \A v \in Names \ {u} : profile'[v] = profile[v],
               \A q \in Sessions \ {s} : session'[q] = session[q]
        PROVE  \A q \in Sessions \ {s} : Current(q)'
    <3> TAKE q \in Sessions \ {s}
    <3>1. Finished(q)' <=> Finished(q)
          BY <2>o DEF Finished, Received
    <3>2. CASE Finished(q)
          BY <3>1, <3>2 DEF Current
    <3>3. CASE ~Finished(q)
      <4>1. User(q) \in Names /\ User(q)' = User(q) /\ session'[q] = session[q]
            BY <2>o, <3>3, SessionRecord DEF Finished, User
      <4>2. CASE User(q) = u
            BY <4>1, <4>2, <3>3, <2>r, <1>r DEF OverlapsAreRaces, Current
      <4>3. CASE User(q) # u
        <5>1. profile'[User(q)] = profile[User(q)]
              BY <4>1, <4>3, <2>o
        <5>2. Current(q)
              BY DEF CopiesAreCurrent
        <5> QED BY <5>1, <5>2, <4>1, <1>r DEF Current, Finished, Received, User, At
      <4> QED BY <4>2, <4>3
    <3> QED BY <3>2, <3>3
  <2> USE DEF Received, User, Becomes, Now, At, Finished, etcd, history
  <2>1. CASE IfExist(s)
    <3>1. /\ UNCHANGED <<profile, activated, created, raced>>
          /\ \/ Becomes(s, "addLdap", session[s].token, session[s].copy) /\ profile[u] = None
             \/ Becomes(s, "done", session[s].token, session[s].copy)
             \/ Becomes(s, "done", None, None)
          BY <2>r, <2>1, Moves DEF IfExist, Calls
    <3>2. Current(s)'
          BY <3>1, <2>r DEF Current, Writing
    <3> QED BY <3>1, <3>2, <2>o, <1>q DEF CopiesAreCurrent
  <2>2. CASE AddToLdap(s)
    <3>1. /\ UNCHANGED <<profile, activated, created, raced>>
          /\ \E c : Becomes(s, "addProfile", session[s].token, c)
          /\ session[s].kind = "signup" /\ session[s].at = "addLdap"
          BY <2>r, <2>2, AddToLdapMoves DEF AddToLdap
    <3>2. Current(s)'
          BY <3>1, <2>r, <2>c DEF Current, Writing
    <3> QED BY <3>1, <3>2, <2>o, <1>q DEF CopiesAreCurrent
  <2>3. CASE AddToEtcd(s)
    <3>1. /\ profile' \in {profile, [profile EXCEPT ![u] = NewProfile]}
          /\ \/ Becomes(s, "putToken", session[s].token, session[s].copy)
             \/ Becomes(s, "done", None, None)
          /\ session[s].kind = "signup" /\ session[s].at = "addProfile"
          /\ UNCHANGED <<activated, created, raced>>
          BY <2>r, <2>3, Moves DEF AddToEtcd, Calls
    <3>2. Current(s)'
          BY <3>1, <2>r DEF Current, Writing
    <3>3. \A v \in Names \ {u} : profile'[v] = profile[v]
          BY <3>1, <2>r
    <3>4. u \notin raced => profile[u] = None
          BY <3>1, <2>r, <2>c DEF Current
    <3>5. Promises'
          BY <3>1, <3>3, <3>4 DEF Promises, ToldUsersHaveProfiles, ActivationLastsAlone,
                                 CreatedOrgsListed, TypeOK
    <3> QED BY <3>1, <3>2, <3>3, <3>5, <2>o DEF CopiesAreCurrent
  <2>4. CASE AddToVerify(s)
    <3>2. /\ UNCHANGED <<profile, activated, created, raced>>
          /\ \E t : \/ Becomes(s, "mail", t, session[s].copy)
                    \/ Becomes(s, "done", None, None)
      <4>1. UNCHANGED <<profile, activated, created, raced>>
            BY <2>4 DEF AddToVerify
      <4> QED BY <4>1, <2>4, VerifyMoves
    <3>3. Current(s)'
          BY <3>2, <2>r DEF Current, Writing
    <3> QED BY <3>2, <3>3, <2>o, <1>q DEF CopiesAreCurrent
  <2>5. CASE SendMail(s)
    <3>1. /\ UNCHANGED <<profile, activated, created, raced>>
          /\ Becomes(s, "done", None, None)
          BY <2>r, <2>5, Moves DEF SendMail
    <3>2. Current(s)'
          BY <3>1 DEF Current
    <3> QED BY <3>1, <3>2, <2>o, <1>q DEF CopiesAreCurrent
  <2>6. CASE GetToken(s)
    <3>1. UNCHANGED <<profile, activated, created>>
          BY <2>6 DEF GetToken
    <3>2. \/ \E v \in Names : Now(s, session[s].kind, v, "getProfile", session[s].token,
                                  session[s].copy)
          \/ Becomes(s, "done", None, None)
          BY <2>r, <2>6, Moves, GetTokenMoves DEF GetToken, EntryOf, TypeOK
    <3>3. Current(s)'
          BY <3>2 DEF Current, Writing
    <3> QED BY <3>1, <3>2, <3>3, <2>o, <1>q DEF CopiesAreCurrent
  <2>7. CASE GetProfile(s)
    <3>1. /\ UNCHANGED <<profile, activated, created, raced>>
          /\ \/ \E call \in Writing : Becomes(s, call, session[s].token, profile[u])
             \/ Becomes(s, "putToken", session[s].token, session[s].copy)
             \/ Becomes(s, "done", None, None)
      <4>1. UNCHANGED <<profile, activated, created, raced>>
            BY <2>7 DEF GetProfile
      <4> QED BY <2>7, <4>1, GetProfileMoves DEF Writing
    <3>2. Current(s)'
          BY <3>1, <2>r DEF Current, Writing
    <3> QED BY <3>1, <3>2, <2>o, <1>q DEF CopiesAreCurrent
  <2>8. CASE Activate(s)
    <3> DEFINE put == [session[s].copy EXCEPT !.active = TRUE]
    <3>1. /\ \/ /\ profile' = [profile EXCEPT ![u] = put]
                /\ Becomes(s, "deleteToken", session[s].token, session[s].copy)
             \/ /\ profile' \in {profile, [profile EXCEPT ![u] = put]}
                /\ Becomes(s, "done", None, None)
          /\ session[s].at \in Writing
          /\ UNCHANGED <<activated, created, raced>>
          BY <2>r, <2>8, Moves DEF Activate, Calls, Writing
    <3>2. session[s].copy \in Profile
          BY <3>1, <2>r DEF Equipped
    <3>3. put.active /\ put.orgs = session[s].copy.orgs /\ put \in Profile /\ put # None
          BY <3>2, <2>p DEF Profile
    <3> HIDE DEF put
    <3>4. \A v \in Names \ {u} : profile'[v] = profile[v]
          BY <3>1, <2>r
    <3>5. profile'[u] \in {profile[u], put} /\ (~Finished(s)' => profile'[u] = put)
          BY <3>1, <2>r
    <3>6. u \notin raced => profile[u] = session[s].copy
          BY <3>1, <2>r, <2>c DEF Current
    <3>7. Current(s)'
          BY <3>1, <3>3, <3>5, <2>r DEF Current, Writing
    <3>8. Promises'
          BY <3>1, <3>3, <3>4, <3>5, <3>6 DEF Promises, ToldUsersHaveProfiles,
             ActivationLastsAlone, CreatedOrgsListed, TypeOK
    <3> QED BY <3>1, <3>4, <3>7, <3>8, <2>o DEF CopiesAreCurrent
  <2>9. CASE DeleteToken(s)
    <3>1. /\ UNCHANGED <<profile, created, raced>>
          /\ activated' \in {activated, activated \cup {u}}
          /\ Becomes(s, "done", None, None) /\ At(s, "verify", "deleteToken")
          BY <2>r, <2>9, Moves DEF DeleteToken
    <3>2. Current(s)'
          BY <3>1 DEF Current
    <3>3. u \notin raced => profile[u] # None /\ profile[u].active
          BY <3>1, <2>r, <2>c DEF Current
    <3>4. Promises'
          BY <3>1, <3>3 DEF Promises, ToldUsersHaveProfiles, ActivationLastsAlone,
                           CreatedOrgsListed
    <3> QED BY <3>1, <3>2, <3>4, <2>o DEF CopiesAreCurrent
  <2>10. CASE PostProject(s)
    <3>1. /\ UNCHANGED <<profile, activated, created, raced>>
          /\ session[s].at \in Writing
          /\ \/ Becomes(s, "putProfile", session[s].token, session[s].copy)
             \/ Becomes(s, "done", None, None)
          BY <2>r, <2>10, Moves DEF PostProject, Calls, Writing
    <3>2. Current(s)'
          BY <3>1, <2>r, <2>c DEF Current
    <3> QED BY <3>1, <3>2, <2>o, <1>q DEF CopiesAreCurrent
  <2>11. CASE PostOrg(s)
    <3>1. /\ UNCHANGED <<profile, activated, created, raced>>
          /\ session[s].at \in Writing
          /\ \/ Becomes(s, "putProfile", session[s].token, session[s].copy)
             \/ Becomes(s, "done", None, None)
          BY <2>r, <2>11, Moves DEF PostOrg, Calls, Writing
    <3>2. Current(s)'
          BY <3>1, <2>r, <2>c DEF Current
    <3> QED BY <3>1, <3>2, <2>o, <1>q DEF CopiesAreCurrent
  <2>12. CASE PutProfile(s)
    <3> DEFINE put == Changed(s)
    <3>1. /\ profile' \in {profile, [profile EXCEPT ![u] = put]}
          /\ created' \in {created, created \cup {[user |-> u, session |-> s]}}
          /\ created' # created =>
                 profile' = [profile EXCEPT ![u] = put] /\ session[s].kind # "login"
          /\ Becomes(s, "done", None, None) /\ session[s].at \in Writing
          /\ UNCHANGED <<activated, raced>>
          BY <2>r, <2>12, Moves DEF PutProfile, Writing
    <3>2. session[s].copy \in Profile
          BY <3>1, <2>r DEF Equipped
    <3>3. /\ put \in Profile /\ put # None /\ put.active = session[s].copy.active
          /\ session[s].copy.orgs \subseteq put.orgs
          /\ session[s].kind # "login" => s \in put.orgs
          BY <3>2, <2>p DEF Changed, Profile
    <3> HIDE DEF put
    <3>4. \A v \in Names \ {u} : profile'[v] = profile[v]
          BY <3>1, <2>r
    <3>5. profile'[u] \in {profile[u], put} /\ (created' # created => profile'[u] = put)
          BY <3>1, <2>r
    <3>6. u \notin raced => profile[u] = session[s].copy
          BY <3>1, <2>r, <2>c DEF Current
    <3>7. Current(s)'
          BY <3>1 DEF Current
    <3>8. ToldUsersHaveProfiles' /\ ActivationLastsAlone'
          BY <3>1, <3>3, <3>4, <3>5, <3>6, <2>p DEF Promises, ToldUsersHaveProfiles,
             ActivationLastsAlone, TypeOK
    <3>9. CreatedOrgsListed'
          BY <3>1, <3>3, <3>4, <3>5, <3>6 DEF Promises, CreatedOrgsListed, TypeOK
    <3> QED BY <3>1, <3>4, <3>7, <3>8, <3>9, <2>o DEF CopiesAreCurrent, Promises
  <2> QED BY <1>2, <2>1, <2>2, <2>3, <2>4, <2>5, <2>6, <2>7, <2>8, <2>9, <2>10,
             <2>11, <2>12 DEF Step
<1>3. CASE Expire
      BY <1>3, <1>q DEF CopiesAreCurrent, Current, Finished, Received, User, At, Expire,
                        history
<1>4. ASSUME NEW x \in Proxies, Restart(x)
      PROVE  CopiesAreCurrent' /\ Promises'
  <2>1. UNCHANGED <<profile, activated, created>>
        BY <1>4 DEF Restart, etcd, history
  <2>2. raced' = raced
        BY <1>4 DEF Restart, history
  <2>3. \A s \in Sessions : Finished(s)' \/ session'[s] = session[s]
        BY <1>4, RestartMoves DEF Finished, Received
  <2>4. ASSUME NEW s \in Sessions PROVE Current(s)'
    <3>1. CASE Finished(s)'
          BY <3>1 DEF Current
    <3>2. CASE session'[s] = session[s]
          BY <3>2, <2>1, <2>2 DEF CopiesAreCurrent, Current, Finished, Received, User, At
    <3> QED BY <3>1, <3>2, <2>3
  <2> QED BY <2>1, <2>2, <2>4, <1>q DEF CopiesAreCurrent
<1>5. CASE TryCreatProject
      BY <1>5, <1>q DEF CopiesAreCurrent, Current, Finished, Received, User, At,
                        TryCreatProject, etcd, history
<1> QED BY <1>1, <1>2, <1>3, <1>4, <1>5 DEF Next
-----------------------------------------------------------------------------
LEMMA InvariantHolds == Spec => []IInv
<1>1. Init => IInv
      BY InitIInv
<1>2. ASSUME IInv, Next
      PROVE  IInv'
  <2>1. TypeOK' /\ Equipped'
        BY <1>2, TypeKept, EquippedKept DEF IInv
  <2>2. ActiveWasVerified' /\ CopiesVerified'
        BY <1>2, VerifiedKept DEF IInv
  <2>3. InitializedHasProject' /\ CopiesInitialized'
        BY <1>2, InitializedKept DEF IInv
  <2>4. OneWinner' /\ OverlapsAreRaces'
        BY <1>2, OneWinnerKept, RacesKept DEF IInv
  <2>5. CopiesAreCurrent' /\ Promises'
        BY <1>2, PromisesKept DEF IInv, Promises
  <2> QED BY <2>1, <2>2, <2>3, <2>4, <2>5 DEF IInv, Promises
<1>3. ASSUME IInv, UNCHANGED vars
      PROVE  IInv'
  <2> USE <1>3 DEF IInv, vars, etcd, random, counters, history
  <2>1. TypeOK' /\ Equipped'
        BY DEF TypeOK, Equipped, Received
  <2>2. ActiveWasVerified' /\ CopiesVerified' /\ InitializedHasProject' /\ CopiesInitialized'
        BY DEF ActiveWasVerified, CopiesVerified, InitializedHasProject,
               CopiesInitialized, Received, User, At
  <2>3. OneWinner' /\ OverlapsAreRaces'
        BY DEF OneWinner, Wins, OverlapsAreRaces, Received, Finished, User, At
  <2>4. CopiesAreCurrent'
        BY DEF CopiesAreCurrent, Current, Received, Finished, User, At
  <2>5. Promises'
        BY DEF Promises, ToldUsersHaveProfiles, ActivationLastsAlone, CreatedOrgsListed
  <2> QED BY <2>1, <2>2, <2>3, <2>4, <2>5 DEF Promises
<1> QED BY <1>1, <1>2, <1>3, PTL DEF Spec

\* Every variable keeps its type.
THEOREM TypeCorrect == Spec => []TypeOK
<1>1. IInv => TypeOK
      BY DEF IInv
<1> QED BY <1>1, InvariantHolds, PTL

\* An active profile belongs to somebody for whom an activation link was
\* accepted, whatever whole copies sign-ups, logins and creations of
\* organizations write over it, in any order and with any failures.
THEOREM ActiveVerified == Spec => []ActiveWasVerified
<1>1. IInv => ActiveWasVerified
      BY DEF IInv
<1> QED BY <1>1, InvariantHolds, PTL

\* A profile that says initialized belongs to a user whose project was made.
THEOREM InitializedProject == Spec => []InitializedHasProject
<1>1. IInv => InitializedHasProject
      BY DEF IInv
<1> QED BY <1>1, InvariantHolds, PTL

\* However many sign up for one name, at most one is answered 200.
THEOREM OneSignUpWins == Spec => []OneSignUp
<1>1. ASSUME IInv
      PROVE  OneSignUp
  <2> SUFFICES ASSUME NEW x \in signedUp, NEW y \in signedUp, x.user = y.user
               PROVE  x = y
      BY DEF OneSignUp
  <2>1. \A z \in signedUp : /\ z.user \in Names /\ z.session \in Sessions
                            /\ z = [user |-> z.user, session |-> z.session]
        BY <1>1 DEF IInv, TypeOK
  <2>2. Wins(x.session, x.user) /\ Wins(y.session, x.user)
        BY <2>1 DEF Wins
  <2>3. x.session = y.session
        BY <1>1, <2>1, <2>2 DEF IInv, OneWinner
  <2> QED BY <2>1, <2>3
<1> QED BY <1>1, InvariantHolds, PTL

\* The account of a user who was shown the success page stays active as long
\* as no two of the user's requests overlap, through failures and restarts.
THEOREM ActivationKept == Spec => []ActivationLastsAlone
<1>1. IInv => ActivationLastsAlone
      BY DEF IInv
<1> QED BY <1>1, InvariantHolds, PTL

\* So does the organization stay in the list of the user who was told that it
\* was created.
THEOREM CreatedOrgsKept == Spec => []CreatedOrgsListed
<1>1. IInv => CreatedOrgsListed
      BY DEF IInv
<1> QED BY <1>1, InvariantHolds, PTL
-----------------------------------------------------------------------------
(***************************************************************************)
(* Links.  Seeds go up, so no two processes draw from one sequence unless  *)
(* neither has been seeded; and a token of a sequence is past once it was  *)
(* drawn.  With at most one process that drew unseeded, no two users ever  *)
(* hold one token.                                                         *)
(***************************************************************************)
\* u was given t: in etcd, in a mail, or in a session about to mail it.
Holds(t, u) ==
    \/ \E e \in verify : e.token = t /\ e.user = u
    \/ \E m \in mail : m.token = t /\ m.user = u
    \/ \E s \in Sessions : /\ Received(s) /\ session[s].at = "mail"
                           /\ session[s].token = t /\ User(s) = u

\* The proxy has a sequence: it was seeded, or has drawn from the unseeded one.
Drawing(x) == seed[x] > 0 \/ drawn[x] > 0

\* Nobody draws t any more.
Past(t) ==
    /\ t[1] <= seeds
    /\ t[1] = 0 => unseeded > 0
    /\ \A x \in Proxies : seed[x] = t[1] /\ Drawing(x) => t[2] < drawn[x]

HoldersOnce ==
    /\ \A t \in Token, u \in Names : Holds(t, u) => Past(t)
    /\ \A t \in Token, u, v \in Names : Holds(t, u) /\ Holds(t, v) => u = v

Apart ==
    /\ \A x, y \in Proxies : seed[x] = seed[y] /\ Drawing(x) /\ Drawing(y) => x = y
    /\ \A x \in Proxies : seed[x] = 0 /\ drawn[x] > 0 => unseeded > 0

LinksInv ==
    /\ TypeOK /\ Equipped
    /\ \A x \in Proxies : seed[x] <= seeds
    /\ unseeded <= 1 => Apart /\ HoldersOnce

\* Only AddToVerify leads to the mail.
LEMMA NotMailing ==
    ASSUME TypeOK, NEW s \in Sessions, Step(s), ~AddToVerify(s)
    PROVE  /\ session'[s] # None /\ session'[s].at # "mail"
           /\ \A q \in Sessions \ {s} : session'[q] = session[q]
<1> USE DEF Becomes, Now
<1>r. Received(s)
      BY Acting
<1>1. CASE IfExist(s)
      BY <1>r, <1>1, Moves DEF IfExist, Calls
<1>2. CASE AddToLdap(s)
      BY <1>r, <1>2, AddToLdapMoves
<1>3. CASE AddToEtcd(s)
      BY <1>r, <1>3, Moves DEF AddToEtcd, Calls
<1>4. CASE SendMail(s) \/ DeleteToken(s) \/ PutProfile(s)
      BY <1>r, <1>4, Moves DEF SendMail, DeleteToken, PutProfile
<1>5. CASE GetToken(s)
      BY <1>r, <1>5, Moves, GetTokenMoves DEF GetToken, EntryOf, TypeOK
<1>6. CASE GetProfile(s)
      BY <1>6, GetProfileMoves
<1>7. CASE Activate(s)
      BY <1>r, <1>7, Moves DEF Activate, Calls
<1>8. CASE PostProject(s)
      BY <1>r, <1>8, Moves DEF PostProject, Calls
<1>9. CASE PostOrg(s)
      BY <1>r, <1>9, Moves DEF PostOrg, Calls
<1> QED BY <1>1, <1>2, <1>3, <1>4, <1>5, <1>6, <1>7, <1>8, <1>9 DEF Step

\* Nobody else comes to hold a token, ...
NoNewHolder == \A t \in Token, u \in Names : Holds(t, u)' => Holds(t, u)

LEMMA StepGivesNone ==
    ASSUME TypeOK, NEW s \in Sessions, Step(s), ~AddToVerify(s)
    PROVE  /\ NoNewHolder /\ unseeded' = unseeded
           /\ UNCHANGED random \/ \E x \in Proxies : Seed(x)
<1>1. /\ session'[s] # None /\ session'[s].at # "mail"
      /\ \A q \in Sessions \ {s} : session'[q] = session[q]
      BY NotMailing
<1>2. verify' \subseteq verify
      BY DEF Step, IfExist, AddToLdap, AddToEtcd, SendMail, GetToken, GetProfile, Activate,
         DeleteToken, PostProject, PostOrg, PutProfile, etcd
<1>3. \/ mail' = mail
      \/ /\ Received(s) /\ session[s].at = "mail"
         /\ mail' = mail \cup {[user |-> User(s), token |-> session[s].token]}
      BY DEF Step, IfExist, AddToLdap, AddToEtcd, SendMail, GetToken, GetProfile, Activate,
         DeleteToken, PostProject, PostOrg, PutProfile, At
<1>4. ASSUME NEW t \in Token, NEW u \in Names, Holds(t, u)' PROVE Holds(t, u)
  <2>1. CASE \E e \in verify' : e.token = t /\ e.user = u
        BY <1>2, <2>1 DEF Holds
  <2>2. CASE \E m \in mail' : m.token = t /\ m.user = u
        BY <1>3, <2>2 DEF Holds
  <2>3. CASE \E q \in Sessions : /\ Received(q)' /\ session'[q].at = "mail"
                                 /\ session'[q].token = t /\ User(q)' = u
        BY <1>1, <2>3 DEF Holds, Received, User
  <2> QED BY <1>4, <2>1, <2>2, <2>3 DEF Holds
<1>5. UNCHANGED random \/ \E x \in Proxies : Seed(x)
  <2>1. UNCHANGED random \/ Seed(ProxyOf[s])
        BY DEF Step, IfExist, AddToLdap, AddToEtcd, SendMail, GetToken, GetProfile, Activate,
         DeleteToken, PostProject, PostOrg, PutProfile
  <2> QED BY <2>1, AccountAssumption
<1>6. unseeded' = unseeded
      BY DEF Step, IfExist, AddToLdap, AddToEtcd, SendMail, GetToken, GetProfile, Activate,
         DeleteToken, PostProject, PostOrg, PutProfile, history
<1> QED BY <1>4, <1>5, <1>6 DEF NoNewHolder

LEMMA OthersGiveNone ==
    ASSUME TypeOK,
           \/ \E s \in Sessions : Arrive(s)
           \/ Expire \/ TryCreatProject \/ UNCHANGED vars
    PROVE  NoNewHolder /\ UNCHANGED <<random, unseeded>>
<1>1. ASSUME NEW s \in Sessions, Arrive(s) PROVE NoNewHolder /\ UNCHANGED <<random, unseeded>>
  <2>1. PICK kind \in Kinds, u \in Names, first \in {"exists", "getProfile", "getToken"},
             token \in Token \cup {None} :
             Receive(s, kind, u, first, token) /\ Now(s, kind, u, first, token, None)
        BY <1>1, Arrivals
  <2>2. UNCHANGED <<verify, mail, random, unseeded>>
        BY <2>1 DEF Receive, etcd
  <2>3. /\ session'[s].at # "mail"
        /\ \A q \in Sessions \ {s} : session'[q] = session[q]
        BY <2>1 DEF Now
  <2> QED BY <2>2, <2>3 DEF NoNewHolder, Holds, Received, User
<1>2. ASSUME UNCHANGED <<session, mail, random, unseeded>>, verify' \subseteq verify
      PROVE  NoNewHolder /\ UNCHANGED <<random, unseeded>>
      BY <1>2 DEF NoNewHolder, Holds, Received, User
<1>3. Expire \/ TryCreatProject \/ UNCHANGED vars =>
          UNCHANGED <<session, mail, random, unseeded>> /\ verify' \subseteq verify
      BY DEF Expire, TryCreatProject, vars, etcd, history
<1> QED BY <1>1, <1>2, <1>3

LEMMA RestartGivesNone ==
    ASSUME TypeOK, NEW x \in Proxies, Restart(x)
    PROVE  NoNewHolder /\ unseeded' = unseeded
<1>1. UNCHANGED <<verify, mail, unseeded>>
      BY DEF Restart, etcd, history
<1> QED BY <1>1, RestartMoves DEF NoNewHolder, Holds, Received, User

\* ... but for the one who is given the next.
LEMMA NextIsNew ==
    ASSUME TypeOK, NEW s \in Sessions, AddToVerify(s), NEW next \in Token,
           next = NextToken(ProxyOf[s])
    PROVE  \A t \in Token, u \in Names :
               Holds(t, u)' => Holds(t, u) \/ (t = next /\ u = User(s))
<1>r. Received(s) /\ session[s].at # "mail"
      BY DEF AddToVerify, At
<1>1. \/ Becomes(s, "mail", next, session[s].copy)
      \/ Becomes(s, "done", None, None)
      BY VerifyMoves
<1>2. /\ session'[s].at = "mail" => session'[s].token = next
      /\ User(s)' = User(s)
      /\ \A q \in Sessions \ {s} : session'[q] = session[q]
      BY <1>1 DEF Becomes, Now, User
<1>3. \A e \in verify' : e \in verify \/ e = [token |-> next, user |-> User(s)]
      BY DEF AddToVerify
<1>4. ASSUME NEW t \in Token, NEW u \in Names, Holds(t, u)'
      PROVE  Holds(t, u) \/ (t = next /\ u = User(s))
  <2>1. CASE \E e \in verify' : e.token = t /\ e.user = u
        BY <1>3, <2>1 DEF Holds
  <2>2. CASE \E m \in mail' : m.token = t /\ m.user = u
    <3>1. mail' = mail
          BY DEF AddToVerify
    <3> QED BY <2>2, <3>1 DEF Holds
  <2>3. CASE \E q \in Sessions : /\ Received(q)' /\ session'[q].at = "mail"
                                 /\ session'[q].token = t /\ User(q)' = u
        BY <1>2, <2>3 DEF Holds, Received, User
  <2> QED BY <1>4, <2>1, <2>2, <2>3 DEF Holds
<1> QED BY <1>4

\* The numbers alone: what a seed, a restart and a draw do to the sequences.
LEMMA Numbers ==
    ASSUME TypeOK
    PROVE  /\ seeds \in Nat /\ unseeded \in Nat
           /\ \A x \in Proxies : seed[x] \in Nat /\ drawn[x] \in Nat
           /\ \A t \in Token : t[1] \in Nat /\ t[2] \in Nat
BY AccountAssumption DEF TypeOK, Token

\* A proxy that is seeded, or started again, takes up a sequence nobody drew
\* from, or none.
LEMMA SequenceAnew ==
    ASSUME LinksInv, TypeOK', NEW x \in Proxies, Seed(x) \/ Restart(x), unseeded' = unseeded
    PROVE  /\ \A y \in Proxies : seed'[y] <= seeds'
           /\ unseeded <= 1 => Apart' /\ \A t \in Token : Past(t) => Past(t)'
<1> USE DEF LinksInv
<1>n. /\ seeds \in Nat /\ unseeded \in Nat
      /\ \A y \in Proxies : seed[y] \in Nat /\ drawn[y] \in Nat
      /\ \A t \in Token : t[1] \in Nat /\ t[2] \in Nat
      BY Numbers
<1>1. /\ \A y \in Proxies \ {x} : seed'[y] = seed[y] /\ drawn'[y] = drawn[y]
      /\ drawn'[x] = 0
      /\ \/ seeds' = seeds + 1 /\ seed'[x] = seeds + 1
         \/ seeds' = seeds /\ seed'[x] = 0
      BY DEF Seed, Restart, TypeOK
<1>2. \A y \in Proxies : seed'[y] <= seeds'
      BY <1>n, <1>1
<1>3. ASSUME unseeded <= 1 PROVE Apart'
  <2>1. Apart
        BY <1>3
  <2>2. \A y \in Proxies \ {x} : seed'[y] = seed'[x] => ~Drawing(x)'
        BY <1>n, <1>1 DEF Drawing
  <2>3. \A y \in Proxies \ {x} : Drawing(y)' => Drawing(y)
        BY <1>1 DEF Drawing
  <2>4. \A y, z \in Proxies :
            seed'[y] = seed'[z] /\ Drawing(y)' /\ Drawing(z)' => y = z
        BY <2>1, <2>2, <2>3, <1>1 DEF Apart
  <2>5. \A y \in Proxies : seed'[y] = 0 /\ drawn'[y] > 0 => unseeded' > 0
        BY <2>1, <1>n, <1>1 DEF Apart
  <2> QED BY <2>4, <2>5 DEF Apart
<1>4. ASSUME NEW t \in Token, Past(t) PROVE Past(t)'
  <2>1. t[1] <= seeds' /\ (t[1] = 0 => unseeded' > 0)
        BY <1>n, <1>1, <1>4 DEF Past
  <2>2. ASSUME NEW y \in Proxies, seed'[y] = t[1], Drawing(y)' PROVE t[2] < drawn'[y]
    <3>1. y # x
          BY <1>n, <1>1, <1>4, <2>2 DEF Past, Drawing
    <3> QED BY <1>1, <1>4, <2>2, <3>1 DEF Past, Drawing
  <2> QED BY <2>1, <2>2 DEF Past
<1> QED BY <1>2, <1>3, <1>4

\* A draw: as long as one process at most drew unseeded, nobody holds the next
\* token, and it is past afterwards.
LEMMA DrawsNext ==
    ASSUME LinksInv, TypeOK', NEW x \in Proxies, Draw(x), unseeded' <= 1,
           NEW next \in Token, next = NextToken(x)
    PROVE  /\ unseeded <= 1 /\ Apart'
           /\ ~Past(next) /\ Past(next)'
           /\ \A t \in Token : Past(t) => Past(t)'
<1> USE DEF LinksInv
<1>n. /\ seeds \in Nat /\ unseeded \in Nat
      /\ \A y \in Proxies : seed[y] \in Nat /\ drawn[y] \in Nat
      /\ \A t \in Token : t[1] \in Nat /\ t[2] \in Nat
      BY Numbers
<1>1. /\ \A y \in Proxies : seed'[y] = seed[y]
      /\ \A y \in Proxies \ {x} : drawn'[y] = drawn[y]
      /\ drawn'[x] = drawn[x] + 1 /\ seeds' = seeds
      BY DEF Draw, TypeOK
<1>2. /\ next[1] = seed[x] /\ next[2] = drawn[x]
      /\ next = <<0, 0>> <=> ~Drawing(x)
      BY <1>n DEF NextToken, Drawing
<1>3. /\ ~Drawing(x) => unseeded' = unseeded + 1
      /\ Drawing(x) => unseeded' = unseeded
      BY <1>2 DEF Draw
<1>4. /\ unseeded <= 1 /\ unseeded' >= unseeded
      /\ ~Drawing(x) => seed[x] = 0 /\ drawn[x] = 0 /\ unseeded = 0 /\ unseeded' > 0
      BY <1>n, <1>3 DEF Drawing
<1>5. Apart /\ HoldersOnce
      BY <1>4
<1>6. ~Past(next)
      BY <1>n, <1>2, <1>4 DEF Past
<1>7. Drawing(x)' /\ \A y \in Proxies \ {x} : Drawing(y)' => Drawing(y)
      BY <1>n, <1>1 DEF Drawing
<1>8. \A y \in Proxies \ {x} : Drawing(y) => seed[y] # seed[x]
  <2> SUFFICES ASSUME NEW y \in Proxies \ {x}, Drawing(y), seed[y] = seed[x] PROVE FALSE
      OBVIOUS
  <2>1. CASE Drawing(x)
        BY <1>5, <2>1 DEF Apart
  <2>2. CASE ~Drawing(x)
        BY <1>n, <1>4, <1>5, <2>2 DEF Apart, Drawing
  <2> QED BY <2>1, <2>2
<1>9. Apart'
  <2>1. \A y, z \in Proxies :
            seed'[y] = seed'[z] /\ Drawing(y)' /\ Drawing(z)' => y = z
        BY <1>1, <1>5, <1>7, <1>8 DEF Apart
  <2>2. \A y \in Proxies : seed'[y] = 0 /\ drawn'[y] > 0 => unseeded' > 0
    <3> SUFFICES ASSUME NEW y \in Proxies, seed[y] = 0, drawn'[y] > 0
                 PROVE  unseeded' > 0
        BY <1>1
    <3>1. CASE y = x
          BY <1>n, <1>3, <1>4, <1>5, <3>1 DEF Apart, Drawing
    <3>2. CASE y # x
          BY <1>n, <1>1, <1>3, <1>4, <1>5, <3>2 DEF Apart
    <3> QED BY <3>1, <3>2
  <2> QED BY <2>1, <2>2 DEF Apart
<1>10. Past(next)'
  <2>1. next[1] <= seeds'
        BY <1>1, <1>2
  <2>2. next[1] = 0 => unseeded' > 0
    <3>1. drawn'[x] > 0 /\ seed'[x] = next[1]
          BY <1>n, <1>1, <1>2
    <3>2. seed'[x] = 0 /\ drawn'[x] > 0 => unseeded' > 0
          BY <1>9 DEF Apart
    <3> QED BY <3>1, <3>2
  <2>3. \A y \in Proxies : seed'[y] = next[1] /\ Drawing(y)' => next[2] < drawn'[y]
        BY <1>n, <1>1, <1>2, <1>7, <1>8
  <2> QED BY <2>1, <2>2, <2>3 DEF Past
<1>11. ASSUME NEW t \in Token, Past(t) PROVE Past(t)'
  <2>1. t[1] <= seeds' /\ (t[1] = 0 => unseeded' > 0)
        BY <1>n, <1>1, <1>3, <1>4, <1>11 DEF Past
  <2>2. ASSUME NEW y \in Proxies, seed'[y] = t[1], Drawing(y)' PROVE t[2] < drawn'[y]
    <3>1. CASE y = x /\ Drawing(x)
          BY <1>n, <1>1, <1>11, <2>2, <3>1 DEF Past
    <3>2. CASE y = x /\ ~Drawing(x)
          BY <1>n, <1>1, <1>4, <1>11, <2>2, <3>2 DEF Past
    <3>3. CASE y # x
          BY <1>1, <1>7, <1>11, <2>2, <3>3 DEF Past
    <3> QED BY <3>1, <3>2, <3>3
  <2> QED BY <2>1, <2>2 DEF Past
<1> QED BY <1>4, <1>6, <1>9, <1>10, <1>11

LEMMA LinksStep == LinksInv /\ [Next]_vars => LinksInv'
<1> SUFFICES ASSUME LinksInv, [Next]_vars PROVE LinksInv'
    OBVIOUS
<1>1. TypeOK /\ TypeOK' /\ Equipped'
  <2>1. CASE Next
        BY <2>1, TypeKept, EquippedKept DEF LinksInv
  <2>2. CASE UNCHANGED vars
        BY <2>2 DEF LinksInv, vars, etcd, random, counters, history, TypeOK, Equipped,
           Received
  <2> QED BY <2>1, <2>2
<1> DEFINE Kept == /\ \A x \in Proxies : seed'[x] <= seeds'
                   /\ unseeded' <= 1 => Apart' /\ HoldersOnce'
<1>2. ASSUME NoNewHolder, UNCHANGED <<random, unseeded>> PROVE Kept
      BY <1>2 DEF LinksInv, HoldersOnce, NoNewHolder, Apart, Past, Drawing, random
<1>3. ASSUME NoNewHolder, unseeded' = unseeded, NEW x \in Proxies, Seed(x) \/ Restart(x)
      PROVE  Kept
  <2>1. /\ \A y \in Proxies : seed'[y] <= seeds'
        /\ unseeded <= 1 => Apart' /\ \A t \in Token : Past(t) => Past(t)'
        BY <1>1, <1>3, SequenceAnew
  <2> QED BY <1>3, <2>1 DEF LinksInv, HoldersOnce, NoNewHolder
<1>4. ASSUME NEW s \in Sessions, AddToVerify(s) PROVE Kept
  <2> DEFINE x == ProxyOf[s]
  <2>0. x \in Proxies /\ Draw(x)
        BY <1>4, AccountAssumption DEF AddToVerify
  <2> PICK next \in Token : next = NextToken(x)
      BY <1>1, <2>0, NextIsToken
  <2>1. \A y \in Proxies : seed'[y] <= seeds'
        BY <2>0 DEF Draw, LinksInv
  <2>2. \A t \in Token, u \in Names :
            Holds(t, u)' => Holds(t, u) \/ (t = next /\ u = User(s))
        BY <1>1, <1>4, NextIsNew
  <2> HIDE DEF x
  <2>3. ASSUME unseeded' <= 1 PROVE Apart' /\ HoldersOnce'
    <3>1. /\ unseeded <= 1 /\ Apart'
          /\ ~Past(next) /\ Past(next)'
          /\ \A t \in Token : Past(t) => Past(t)'
          BY <1>1, <2>0, <2>3, DrawsNext
    <3>2. HoldersOnce
          BY <3>1 DEF LinksInv
    <3>3. \A t \in Token, u \in Names : Holds(t, u)' => Past(t)'
          BY <2>2, <3>1, <3>2 DEF HoldersOnce
    <3>4. ASSUME NEW t \in Token, NEW u \in Names, NEW v \in Names,
                 Holds(t, u)', Holds(t, v)'
          PROVE  u = v
          BY <2>2, <3>1, <3>2, <3>4 DEF HoldersOnce
    <3> QED BY <3>1, <3>3, <3>4 DEF HoldersOnce
  <2> QED BY <2>1, <2>3
<1>5. CASE \E s \in Sessions : Step(s)
  <2> PICK s \in Sessions : Step(s)
      BY <1>5
  <2>1. ASSUME AddToVerify(s) PROVE Kept
        BY <1>4, <2>1
  <2>2. ASSUME ~AddToVerify(s) PROVE Kept
    <3>1. /\ NoNewHolder /\ unseeded' = unseeded
          /\ UNCHANGED random \/ \E x \in Proxies : Seed(x)
          BY <1>1, <2>2, StepGivesNone
    <3> QED BY <1>2, <1>3, <3>1
  <2>3. Kept
        BY <2>1, <2>2
  <2> QED BY <1>1, <2>3 DEF LinksInv
<1>6. CASE \E x \in Proxies : Restart(x)
  <2> PICK x \in Proxies : Restart(x)
      BY <1>6
  <2>1. Kept
        BY <1>1, <1>3, RestartGivesNone
  <2> QED BY <1>1, <2>1 DEF LinksInv
<1>7. CASE \/ \E s \in Sessions : Arrive(s)
           \/ Expire \/ TryCreatProject \/ UNCHANGED vars
  <2>1. Kept
        BY <1>1, <1>2, <1>7, OthersGiveNone
  <2> QED BY <1>1, <2>1 DEF LinksInv
<1> QED BY <1>5, <1>6, <1>7 DEF Next

\* As long as no second process, be it another proxy or the same one started
\* again, has drawn a token before it was seeded, the link in a mail leads to
\* the account of the user it was mailed to, or nowhere: whatever calls fail,
\* a process draws in order, and creating an organization starts a sequence
\* of its own.
THEOREM LinksSafeAtFirst == Spec => []LinksLeadHomeAtFirst
<1>1. Init => LinksInv
  <2> SUFFICES ASSUME Init PROVE LinksInv
      OBVIOUS
  <2>1. TypeOK /\ Equipped
        BY InitIInv DEF IInv
  <2>2. \A t \in Token, u \in Names : ~Holds(t, u)
        BY DEF Init, Holds, Received
  <2>3. \A x \in Proxies : seed[x] = 0 /\ drawn[x] = 0 /\ seeds = 0
        BY DEF Init
  <2>4. \A x \in Proxies : seed[x] <= seeds /\ ~Drawing(x)
        BY <2>3 DEF Drawing
  <2> QED BY <2>1, <2>2, <2>3, <2>4 DEF LinksInv, HoldersOnce, Apart
<1>2. LinksInv => LinksLeadHomeAtFirst
  <2> SUFFICES ASSUME LinksInv, unseeded <= 1, NEW m \in mail, NEW e \in verify,
                      m.token = e.token
               PROVE  m.user = e.user
      BY DEF LinksLeadHomeAtFirst, LinksLeadHome
  <2>1. m.token \in Token /\ m.user \in Names /\ e.user \in Names
        BY DEF LinksInv, TypeOK
  <2>2. Holds(m.token, m.user) /\ Holds(m.token, e.user)
        BY DEF Holds
  <2> QED BY <2>1, <2>2 DEF LinksInv, HoldersOnce
<1> QED BY <1>1, <1>2, LinksStep, PTL DEF Spec
=============================================================================
