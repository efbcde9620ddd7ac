------------------------------ MODULE Accounts ------------------------------
(***************************************************************************)
(* Accounts of datafoundry_proxy: sign-up, the verification mail, the      *)
(* activation link and what a login starts in the background (signup.go,   *)
(* send_verify_email.go, verify_account.go, login.go, user.go), and the    *)
(* creation of organizations, which writes the same profiles.              *)
(*                                                                         *)
(* The state is in LDAP, in etcd (users/<u>/profile and                    *)
(* verify/<token>, which expires) and in OpenShift (the user's project).   *)
(* Each session below is one request and the goroutine it leaves behind;   *)
(* a step is one external call with the local work up to the next one.  A  *)
(* profile is read, changed and written back whole.                        *)
(*                                                                         *)
(* Several proxies may serve one etcd, LDAP and OpenShift.  Each process   *)
(* draws its tokens from a math/rand of its own, which nothing seeds at    *)
(* start-up: process after process, and proxy beside proxy, draws the same *)
(* sequence, until CreateOrg seeds it by the clock.  A token is            *)
(* <<seed, how many were drawn before>>.                                   *)
(***************************************************************************)
EXTENDS Integers

CONSTANTS
    Names,        \* user names
    Sessions,     \* requests; each is used once
    Proxies,
    ProxyOf,      \* the proxy a session's request arrives at
    MaxFaults,    \* bound: failed calls, lost answers, process deaths
    MaxExpiries,  \* bound: tokens that expire before they are used
    MaxSeeds,     \* bound: creations of organizations, which seed the generator
    None

VARIABLES
    ldap,       \* LDAP: the entries that exist
    profile,    \* etcd users/<u>/profile, what this module needs of it
    verify,     \* etcd verify/<token>: the tokens that are there, and for whom
    project,    \* OpenShift: users whose own project exists
    mail,       \* the links that were mailed: [user, token]
    session,    \* what each request is about to call, and its copies
    drawn,      \* tokens a proxy drew since its generator was last seeded
    seed,       \* its seed; 0 in a process that has not seeded it
    seeds,      \* seeds used so far
    faults, expiries,
    \* History; no request reads these.
    signedUp,   \* the sign-ups that were answered 200: [user, session]
    created,    \* creations of an organization that were answered 200: the same
    verified,   \* users for whom an activation link was accepted
    activated,  \* users who were shown the success page
    unseeded,   \* how many processes drew a token before they were seeded
    raced       \* users two unfinished sessions were about at a time

etcd     == <<profile, verify>>
random   == <<drawn, seed, seeds>>
history  == <<signedUp, created, verified, activated, unseeded, raced>>
counters == <<faults, expiries>>
vars     == <<ldap, etcd, project, mail, session, random, counters, history>>

Token    == (0 .. MaxSeeds) \X Nat
\* An organization in OrgList is named by the session that created it.
Profile  == [active : BOOLEAN, init : BOOLEAN, orgs : SUBSET Sessions]
Kinds    == {"signup", "resend", "verify", "login", "createOrg"}
Calls    == {"exists", "addLdap", "addProfile", "putToken", "mail", "getToken",
             "getProfile", "putActive", "deleteToken", "postProject", "postOrg",
             "putProfile", "done"}

Session == [kind : Kinds, user : Names, at : Calls,
            token : Token \cup {None}, copy : Profile \cup {None}]

ASSUME AccountAssumption ==
    /\ ProxyOf \in [Sessions -> Proxies]
    /\ MaxFaults \in Nat /\ MaxExpiries \in Nat /\ MaxSeeds \in Nat
    /\ None \notin Token /\ None \notin Profile /\ None \notin Session

TypeOK ==
    /\ ldap \subseteq Names
    /\ profile \in [Names -> Profile \cup {None}]
    /\ \A e \in verify : e.token \in Token /\ e.user \in Names
    /\ project \subseteq Names
    /\ \A m \in mail : m.token \in Token /\ m.user \in Names
    /\ session \in [Sessions -> Session \cup {None}]
    /\ drawn \in [Proxies -> Nat] /\ seed \in [Proxies -> 0 .. MaxSeeds]
    /\ seeds \in 0 .. MaxSeeds /\ unseeded \in Nat
    /\ faults \in 0 .. MaxFaults /\ expiries \in 0 .. MaxExpiries
    /\ signedUp \cup created \subseteq [user : Names, session : Sessions]
    /\ verified \cup activated \cup raced \subseteq Names

Init ==
    /\ ldap = {} /\ profile = [u \in Names |-> None]
    /\ verify = {} /\ project = {} /\ mail = {}
    /\ session = [s \in Sessions |-> None]
    /\ drawn = [x \in Proxies |-> 0] /\ seed = [x \in Proxies |-> 0]
    /\ seeds = 0 /\ faults = 0 /\ expiries = 0
    /\ signedUp = {} /\ created = {} /\ verified = {} /\ activated = {}
    /\ unseeded = 0 /\ raced = {}
-----------------------------------------------------------------------------
Received(s) == session[s] # None
Finished(s) == Received(s) => session[s].at = "done"
User(s)     == session[s].user
At(s, kind, call) ==
    Received(s) /\ session[s].kind = kind /\ session[s].at = call

Ended(x)  == [x EXCEPT !.at = "done", !.token = None, !.copy = None]
Go(s, call) == session' = [session EXCEPT ![s].at = call]
Stop(s)     == session' = [session EXCEPT ![s] = Ended(@)]
Take(s, copy, call) ==
    session' = [session EXCEPT ![s].copy = copy, ![s].at = call]

NoFault == UNCHANGED counters
Fault   == faults < MaxFaults /\ faults' = faults + 1 /\ UNCHANGED expiries

\* That two sessions of a user overlap is remembered.
RacedBy(s, u) ==
    raced \cup {v \in {u} : \E q \in Sessions \ {s} : ~Finished(q) /\ User(q) = u}

Receive(s, kind, u, first, token) ==
    /\ ~Received(s)
    /\ session' = [session EXCEPT ![s] =
           [kind |-> kind, user |-> u, at |-> first, token |-> token, copy |-> None]]
    /\ raced' = RacedBy(s, u)
    /\ UNCHANGED <<ldap, etcd, project, mail, random, counters, signedUp,
                   created, verified, activated, unseeded>>

\* Anyone may sign up.  Only who has an LDAP entry passes authedIdentities or
\* logs in.  A link is visited by the user it was mailed to.
SignUp(s)       == \E u \in Names : Receive(s, "signup", u, "exists", None)
SendVerifyMail(s) == \E u \in ldap : Receive(s, "resend", u, "getProfile", None)
VerifyAccount(s) == \E m \in mail : Receive(s, "verify", m.user, "getToken", m.token)
Login(s)        == \E u \in ldap : Receive(s, "login", u, "getProfile", None)

CreateOrganization(s) ==
    /\ seeds < MaxSeeds
    /\ \E u \in ldap : Receive(s, "createOrg", u, "getProfile", None)
-----------------------------------------------------------------------------
\* SignUp: IfExist, AddToLdap, AddToEtcd, and then the mail in the background.
IfExist(s) ==
    /\ At(s, "signup", "exists")
    /\ \/ Go(s, IF profile[User(s)] = None THEN "addLdap" ELSE "done") /\ NoFault
       \/ Stop(s) /\ Fault
    /\ UNCHANGED <<ldap, etcd, project, mail, random, history>>

NewProfile == [active |-> FALSE, init |-> FALSE, orgs |-> {}]

\* (mutant: a name that is in LDAP is not told from a new one)
AddToLdapForgets(s) ==
    /\ At(s, "signup", "addLdap")
    /\ ldap' = ldap \cup {User(s)}
    /\ Take(s, NewProfile, "addProfile")
    /\ UNCHANGED <<etcd, project, mail, random, counters, history>>

\* An entry that exists is not an error: the profile is made all the same,
\* but no mail is sent (FromLdap; here: nothing to go on with).
AddToLdap(s) ==
    LET new == User(s) \notin ldap
    IN  /\ At(s, "signup", "addLdap")
        /\ ldap' = ldap \cup {User(s)}
        /\ session' = [session EXCEPT ![s].at = "addProfile",
               ![s].copy = IF new THEN NewProfile ELSE None]
        /\ UNCHANGED <<etcd, project, mail, random, counters, history>>

AddToEtcd(s) ==
    LET u == User(s)
        added == [profile EXCEPT ![u] = NewProfile]
    IN  /\ At(s, "signup", "addProfile")
        /\ \/ /\ profile' = added /\ NoFault
              /\ IF session[s].copy # None
                 THEN /\ Go(s, "putToken")
                      /\ signedUp' = signedUp \cup {[user |-> u, session |-> s]}
                 ELSE Stop(s) /\ UNCHANGED signedUp
           \/ profile' \in {profile, added} /\ Stop(s) /\ Fault /\ UNCHANGED signedUp
        /\ UNCHANGED <<ldap, verify, project, mail, random, created, verified,
                       activated, unseeded, raced>>

\* genRandomToken: the proxy draws the next token of its sequence.
NextToken(x) == <<seed[x], drawn[x]>>

Draw(x) ==
    /\ drawn' = [drawn EXCEPT ![x] = @ + 1]
    /\ unseeded' = IF NextToken(x) = <<0, 0>> THEN unseeded + 1 ELSE unseeded
    /\ UNCHANGED <<seed, seeds>>

\* (mutant: the token is stored without the name)
AddToVerifyNameless(s) ==
    LET t == NextToken(ProxyOf[s])
    IN  /\ At(s, "signup", "putToken") \/ At(s, "resend", "putToken")
        /\ Draw(ProxyOf[s])
        /\ verify' = verify \cup {[token |-> t, user |-> None]} /\ NoFault
        /\ session' = [session EXCEPT ![s].at = "mail", ![s].token = t]
        /\ UNCHANGED <<ldap, profile, project, mail, signedUp, created, verified,
                       activated, raced>>

\* AddToVerify: a token is drawn and stored for a day; a token that is there
\* already is overwritten.
AddToVerify(s) ==
    LET t == NextToken(ProxyOf[s])
        put == {e \in verify : e.token # t} \cup {[token |-> t, user |-> User(s)]}
    IN  /\ At(s, "signup", "putToken") \/ At(s, "resend", "putToken")
        /\ Draw(ProxyOf[s])
        /\ \/ /\ verify' = put /\ NoFault
              /\ session' = [session EXCEPT ![s].at = "mail", ![s].token = t]
           \/ verify' \in {verify, put} /\ Stop(s) /\ Fault
        /\ UNCHANGED <<ldap, profile, project, mail, signedUp, created, verified,
                       activated, raced>>

SendMail(s) ==
    LET sent == mail \cup {[user |-> User(s), token |-> session[s].token]}
    IN  /\ At(s, "signup", "mail") \/ At(s, "resend", "mail")
        /\ \/ mail' = sent /\ NoFault
           \/ mail' \in {mail, sent} /\ Fault
        /\ Stop(s)
        /\ UNCHANGED <<ldap, etcd, project, random, history>>
-----------------------------------------------------------------------------
\* VerifyAccount: the token says whom to activate.
EntryOf(t) == {e \in verify : e.token = t}

GetToken(s) ==
    LET found == EntryOf(session[s].token)
    IN  /\ At(s, "verify", "getToken")
        /\ \/ \E e \in found :
                  /\ session' = [session EXCEPT ![s].at = "getProfile",
                                                ![s].user = e.user]
                  /\ verified' = verified \cup {e.user}
                  /\ raced' = RacedBy(s, e.user) /\ NoFault
           \/ found = {} /\ Stop(s) /\ UNCHANGED <<verified, raced>> /\ NoFault
           \/ Stop(s) /\ UNCHANGED <<verified, raced>> /\ Fault
        /\ UNCHANGED <<ldap, etcd, project, mail, random, signedUp, created,
                       activated, unseeded>>

\* (mutant: a seed that is always the same)
SeedFixed(x) ==
    /\ seeds < MaxSeeds /\ seeds' = seeds + 1
    /\ seed' = [seed EXCEPT ![x] = 1] /\ drawn' = [drawn EXCEPT ![x] = 0]

\* generatedOrgName seeds the generator of its process by the clock, which
\* says something else each time.
Seed(x) ==
    /\ seeds < MaxSeeds /\ seeds' = seeds + 1
    /\ seed' = [seed EXCEPT ![x] = seeds + 1] /\ drawn' = [drawn EXCEPT ![x] = 0]

\* Every kind of request but sign-up reads the profile once: what it does
\* next depends on what it is.  A login of an initialized user is through, and
\* so is a creation whose name is too short or in the list already (GetProfile).
AfterGet(s, p) ==
    CASE session[s].kind = "verify" -> Take(s, p, "putActive")
      [] session[s].kind = "login"  -> IF p.init THEN Stop(s)
                                                 ELSE Take(s, p, "postProject")
      [] session[s].kind = "resend" -> Go(s, "putToken")
      [] OTHER                      -> Take(s, p, "postOrg")

GetProfile(s) ==
    /\ Received(s) /\ session[s].at = "getProfile"
    /\ \/ /\ profile[User(s)] # None /\ AfterGet(s, profile[User(s)]) /\ NoFault
          /\ IF session[s].kind = "createOrg" THEN Seed(ProxyOf[s]) ELSE UNCHANGED random
       \/ /\ profile[User(s)] = None \/ session[s].kind = "createOrg"
          /\ Stop(s) /\ NoFault /\ UNCHANGED random
       \/ Stop(s) /\ Fault /\ UNCHANGED random
    /\ UNCHANGED <<ldap, etcd, project, mail, history>>

\* Writes copy over the profile of the user.
Put(s, copy) == profile' = [profile EXCEPT ![User(s)] = copy]

\* (mutant: the flag is not set)
ActivateForgets(s) ==
    /\ At(s, "verify", "putActive")
    /\ Put(s, session[s].copy) /\ Go(s, "deleteToken")
    /\ UNCHANGED <<ldap, verify, project, mail, random, counters, history>>

Activate(s) ==
    LET put == [profile EXCEPT ![User(s)] = [session[s].copy EXCEPT !.active = TRUE]]
    IN  /\ At(s, "verify", "putActive")
        /\ \/ profile' = put /\ Go(s, "deleteToken") /\ NoFault
           \/ profile' \in {profile, put} /\ Stop(s) /\ Fault
        /\ UNCHANGED <<ldap, verify, project, mail, random, history>>

\* The success page is shown when the token is deleted, not before; deleting
\* one that is gone is an error.
DeleteToken(s) ==
    LET entry == EntryOf(session[s].token)
    IN  /\ At(s, "verify", "deleteToken")
        /\ \/ /\ entry # {} /\ verify' = verify \ entry /\ NoFault
              /\ activated' = activated \cup {User(s)}
           \/ entry = {} /\ UNCHANGED <<verify, activated>> /\ NoFault
           \/ verify' \in {verify, verify \ entry} /\ UNCHANGED activated /\ Fault
        /\ Stop(s)
        /\ UNCHANGED <<ldap, profile, project, mail, random, signedUp, created,
                       verified, unseeded, raced>>
-----------------------------------------------------------------------------
\* (mutant: the answer to the project request is not looked at)
PostProjectUnchecked(s) ==
    /\ At(s, "login", "postProject")
    /\ \/ project' = project \cup {User(s)} /\ NoFault
       \/ UNCHANGED project /\ Fault
    /\ Go(s, "putProfile")
    /\ UNCHANGED <<ldap, etcd, mail, random, history>>

\* InitUserProject: only a 200 lets it go on to the profile it has read, not
\* the 201 that CreateProject takes for success as well.
PostProject(s) ==
    LET u == User(s)
    IN  /\ At(s, "login", "postProject")
        /\ \/ u \notin project /\ project' = project \cup {u} /\ NoFault
              /\ Go(s, "putProfile")
           \/ u \notin project /\ project' = project \cup {u} /\ NoFault
              /\ Stop(s)
           \/ u \in project /\ UNCHANGED project /\ Stop(s) /\ NoFault
           \/ project' \in {project, project \cup {u}} /\ Stop(s) /\ Fault
        /\ UNCHANGED <<ldap, etcd, mail, random, history>>

\* CreateOrg makes the organization's project, bindings and document first,
\* which Organizations is about; an error of the project request passes for
\* a success.
PostOrg(s) ==
    /\ At(s, "createOrg", "postOrg")
    /\ \/ Go(s, "putProfile") /\ NoFault
       \/ (Go(s, "putProfile") \/ Stop(s)) /\ Fault
    /\ UNCHANGED <<ldap, etcd, project, mail, random, history>>

\* (mutant: the one flag is taken for the other)
ChangedActive(s) ==
    IF session[s].kind = "login" THEN [session[s].copy EXCEPT !.active = TRUE]
    ELSE [session[s].copy EXCEPT !.orgs = @ \cup {s}]

\* (mutant: the goroutine of a login writes what it knows, not what it read)
ChangedAnew(s) ==
    IF session[s].kind = "login"
    THEN [session[s].copy EXCEPT !.init = TRUE, !.orgs = {}]
    ELSE [session[s].copy EXCEPT !.orgs = @ \cup {s}]

Changed(s) ==
    IF session[s].kind = "login" THEN [session[s].copy EXCEPT !.init = TRUE]
    ELSE [session[s].copy EXCEPT !.orgs = @ \cup {s}]

\* The whole copy is put back, with the flag set or the organization added.
PutProfile(s) ==
    LET put == [profile EXCEPT ![User(s)] = Changed(s)]
        kind == session[s].kind
    IN  /\ At(s, "login", "putProfile") \/ At(s, "createOrg", "putProfile")
        /\ \/ /\ profile' = put /\ NoFault
              /\ created' = IF kind = "login" THEN created
                            ELSE created \cup {[user |-> User(s), session |-> s]}
           \/ profile' \in {profile, put} /\ Fault /\ UNCHANGED created
        /\ Stop(s)
        /\ UNCHANGED <<ldap, verify, project, mail, random, signedUp, verified,
                       activated, unseeded, raced>>
-----------------------------------------------------------------------------
\* etcd drops a token a day after it was stored.
Expire ==
    /\ expiries < MaxExpiries /\ expiries' = expiries + 1 /\ UNCHANGED faults
    /\ \E e \in verify : verify' = verify \ {e}
    /\ UNCHANGED <<ldap, profile, project, mail, session, random, history>>

\* A process dies with its requests and is started again.  Sign-up itself
\* ends its process (glog.Fatal) on any LDAP error but "exists".
Restart(x) ==
    /\ Fault
    /\ session' = [s \in Sessions |->
           IF Received(s) /\ ProxyOf[s] = x THEN Ended(session[s]) ELSE session[s]]
    /\ drawn' = [drawn EXCEPT ![x] = 0] /\ seed' = [seed EXCEPT ![x] = 0]
    /\ UNCHANGED seeds
    /\ UNCHANGED <<ldap, etcd, project, mail, history>>

\* A login through SignIn also asks for the project beside the goroutine,
\* whatever comes of it.
TryCreatProject ==
    /\ \E s \in Sessions : /\ ~Finished(s) /\ session[s].kind = "login"
                          /\ User(s) \notin project
                          /\ project' = project \cup {User(s)}
    /\ UNCHANGED <<ldap, etcd, mail, session, random, counters, history>>

Arrive(s) ==
    \/ SignUp(s) \/ SendVerifyMail(s) \/ VerifyAccount(s) \/ Login(s)
    \/ CreateOrganization(s)
Step(s) ==
    \/ IfExist(s) \/ AddToLdap(s) \/ AddToEtcd(s) \/ AddToVerify(s) \/ SendMail(s)
    \/ GetToken(s) \/ GetProfile(s) \/ Activate(s) \/ DeleteToken(s)
    \/ PostProject(s) \/ PostOrg(s) \/ PutProfile(s)

Next ==
    \/ \E s \in Sessions : Arrive(s) \/ Step(s)
    \/ \E x \in Proxies : Restart(x)
    \/ Expire \/ TryCreatProject

Spec == Init /\ [][Next]_vars
-----------------------------------------------------------------------------
\* An active profile belongs to somebody for whom an activation link was
\* accepted, although sign-ups, logins and creations of organizations write
\* whole copies over it.
ActiveWasVerified ==
    \A u \in Names : profile[u] # None /\ profile[u].active => u \in verified

\* A profile says initialized only when the project is there (login.go:177).
InitializedHasProject ==
    \A u \in Names : profile[u] # None /\ profile[u].init => u \in project

\* Of all who sign up for one name, at the same time or after failures, at
\* most one is told that it worked: LDAP decides, not the look at etcd
\* before it (signup.go:23, user.go:51).
OneSignUp == \A x, y \in signedUp : x.user = y.user => x = y

\* "The button activates your account" (mail.go:22): the link in a mail leads
\* to the account of the user it was mailed to, or nowhere any more.
LinksLeadHome ==
    \A m \in mail, e \in verify : m.token = e.token => m.user = e.user

\* It does as long as no second process, another proxy or the same one started
\* again, has drawn a token before it was seeded.
LinksLeadHomeAtFirst == unseeded <= 1 => LinksLeadHome

\* "Your account has been activated." (verify_account.go:78): the account of a
\* user who was shown the page is active.
ActivationLasts == \A u \in activated : profile[u].active

\* It is as long as no two of the user's requests overlap, whatever calls fail.
ActivationLastsAlone == \A u \in activated \ raced : profile[u].active

\* An organization whose creation was answered OK stays in its creator's list,
\* whatever sign-ups, activations and logins write the profile later, as long
\* as no two requests of the user overlap: a login's goroutine that had read
\* the profile before writes the list back without it (user.go:645).
CreatedOrgsListed ==
    \A c \in created : c.user \notin raced => c.session \in profile[c.user].orgs
=============================================================================
