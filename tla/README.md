# A TLA+ model of datafoundry_proxy

datafoundry_proxy is an HTTP proxy in front of OpenShift. Beside forwarding
requests it keeps organizations, accounts, volumes and an inbox of messages,
whose state is spread over etcd, LDAP, OpenShift, heketi and MySQL. Nothing
locks across them: every request is a goroutine that reads whole documents,
changes its copy, writes it back and goes on to the next store, and several
requests leave a goroutine behind when they have been answered. This directory
models those parts, checks them with TLC and proves some of what they guarantee
with TLAPS.

## Inventory

| Part | State | Operations | Hard because | Correct when |
|---|---|---|---|---|
| Organizations (`organization.go`, `user.go`) | etcd `organizations/<id>` and `users/<u>/profile`, OpenShift project and two role bindings | create, delete, accept, leave, invite, remove, privileged | stale whole-document writes, five calls per request with no rollback; creation and sign-up bodies that set member lists, `OrgList` and `OrgUsed` | members were invited and joined themselves, authority comes from admins, lists, members, projects and bindings agree |
| Volumes (`volume.go`) | OpenShift claims and PVs, heketi volumes | CreateVolume, DeleteVolume, each with a background goroutine | goroutines of different requests meet over a PV's name; calls fail half way | a PV points to a volume, a claim gets its PV, nothing leaks |
| Accounts (`signup.go`, `verify_account.go`, `login.go`, `profile.go`, `send_verify_email.go`) | LDAP, etcd `users/<u>/profile` and `verify/<token>` (expires), the user's project | sign-up, send mail, activate, log in, create an organization | stale profile copies, several proxies and restarts that draw the same unseeded tokens | active accounts were verified, by their own link, and stay active; initialised ones have a project; created organizations stay listed |
| Inbox (`message.go`, `messages/`) | MySQL `DF_MESSAGE` | create (an invitation), list, read/unread, accept, delete | check and write are two statements; listing sets messages read in the background, before its answer is written | a message is changed by its receiver only, read only if shown, accepted once |
| Paging (`messages/params.go`, `notification.go`) | none | offset and limit from page, size and row count | clamping, overflow, last pages | pages give each row once and stay inside |
| Message database start-up (`messages/init.go`, `statistics.go`) | MySQL `DF_ITEM_STAT`, `dbPhase` and the connection pool in each process | connect, create tables, write the version if there is none, serve; ping and replace the pool | several proxies start on one database; nothing is retried; the pool is closed under its users | a proxy comes to serve, on an open pool |
| Sign-in over regions (`signin.go`) | a slice shared by two goroutines | collect tokens, try to create a project | data race on the slice | who got a token is answered one; all of them when the appends do not overlap |
| OpenShift client (`openshift/openshift.go`) | the admin client and its bearer token, renewed by a goroutine | initialise, renew, send requests | token read while written, client nil before initialisation | the token comes for good; what is not sent leaks nothing |
| The rest: statistics counters, mail text, password change, backing services, HTTP helpers, validation, configuration, routing | none of their own, or none in use | | pure I/O and parsing | |

The parts meet in four places. An invite of the organizations starts a
goroutine that creates an inbox message (`organization.go:275`). Accepting that
message sets a flag in it and does not touch the organization: the client sends
a second request, `accept`, to the organization. Profiles in etcd are shared by
organizations (`OrgList`, `OrgUsed`) and accounts (`Active`, `Initialized`),
each of which writes the whole document. And the volume goroutines call
OpenShift through the admin client, whether it has a token yet or not.

## Modules

| Module | Models | Extends |
|---|---|---|
| `OrgMembers` | the functions on a member list: `IsAdmin`, `IsLastAdmin`, `IsMemberExist`, `JoinedMemberCnt`, `RemoveMember`, `MemberJoined`, the privilege loop, the subjects of the bindings | |
| `Organizations` | the seven requests, one action per external call; `handler[p]` is the goroutine with the copies it holds (`prof`, `doc`) and the next call (`at`); `Bodies` are the member lists creation requests may carry, `FirstProfile` what sign-up requests did | `OrgMembers` |
| `OrgRules` | abstract: what each request may do to a member list, as one step | |
| `Volumes` | both requests and their goroutines: `job[r].main` is the handler, `job[r].work` the goroutine | |
| `OpenshiftClient` | `Init`, `updateBearerToken` and what `request` makes of a call: sent, refused for a blank token, or a panic | |
| `VolumesClient` | both composed: each call of `Volumes` is sent or is a failed call without effect, and a panic ends the process after the deferred functions | `Volumes`, `OpenshiftClient` |
| `Accounts` | five kinds of sessions, sign-up, mail, activation, login and the creation of an organization, one action per call to LDAP, etcd, OpenShift or the mail server; each proxy has a generator of tokens of its own (`seed`, `drawn`) | |
| `SignIn` | the two goroutines of `SignIn`, their appends load by load and store by store | |
| `Paging` | `optionalOffsetAndSize` and `validateOffsetAndLimit`, wrap-around included | |
| `MessagesDB` | the start-up of each proxy, `boot[p]` being where it is, and `updateDB`, `pool[p]` being whether its pool is open | |
| `Inbox` | the requests on messages, one action per SQL statement, composed with start-up, the pool and paging: requests are served only by a proxy that serves, and fail on a pool that was closed | `MessagesDB`, `Paging` |
| `MC*` | constants of the instances TLC checks | |
| `*Proofs` | theorems | |

An action is everything a handler does from one external call up to the next:
the call, the decisions on its answer, and the change of the copy. Guards are
the early returns of the code. A call that fails, an answer that is lost after
the call took effect, and the death of the process are alternatives of the
action or actions of their own (`CallFails`, `Restart`), bounded by
`MaxFaults`. Errors the code ignores are not ends of the request: the update of
the creator's profile and the deletion of the document in `DeleteOrg`, the
binding update whose first error a second success does not erase, and the
goroutine of a listing.

History variables (named so where they are declared) record what no handler
reads: who was invited, who accepted, whom a creation listed (`brought`), which
requests overlapped. They are there for the properties.

## Runs

| Run | Bounds | Shows |
|---|---|---|
| `org_concurrent` | 2 requests at a time, 5 in all, 2 registered users and one who is not, 1 organization, creation bodies empty or with one joined admin, 1 fault | no stale write makes a member, a joined member or an admin of anybody who was not made one or listed by the creation; who acts for an organization had been granted it; a joined admin is lost in two ways only |
| `org_serial` | one request at a time, 6 requests, 2 registered users and one who is not, 2 organizations, creation bodies with a registered and an unregistered member, a sign-up body that lists an organization, 1 fault | documents, projects, bindings and quota agree between requests when no call failed, and every change is a step of `OrgRules`, also when one did (refinement `Rules!Spec`) |
| `volumes_faults` | 4 requests, 3 claims (two with the same PV name), 1 fault | PVs point to volumes; orderly use leaks nothing |
| `volumes_client` | 2 requests on 1 claim, 1 call that fails though sent, or other death; `MaxFaults` is 7, more than such a behaviour can use | without a token, or with half of one, no volume leaks; late calls have their client; a claim whose calls were sent gets its PV; the token comes for good |
| `accounts` | 2 names, 2 proxies with 2 sessions each, 1 fault, 1 expiry, 2 creations of organizations | activation, initialisation, sign-up and the list of organizations in any overlap |
| `sign_in` | one request, each region granting, redirecting with an error, refusing or garbled, whose goroutines share no data with another's | what the answer holds in any order of loads and stores, and that there is one |
| `inbox` | 2 proxies with a worker each, 2 users, 2 messages, pages and sizes past both ends, every status asked for, 1 fault | receivers, read marks, acceptances and pages |
| `inbox_live` | as `inbox`, one user, listings of the whole inbox whatever the status, 1 fault, fair | listed messages get read; proxies serve, on an open pool |
| `org_needs_admin`, `volumes_gone`, `accounts_links`, `accounts_activation` | the smallest that show it | where the code does not do what its comments and texts say (below) |

Why the bounds are enough: a race in this code is between two requests over one
document, and takes a third to have set the scene; two handlers with five
requests, four volume requests and four sessions give that. One or two body
members beside the creator give every shape the properties tell apart: the creator
twice, somebody who never accepted, somebody who never signed up. Tokens
collide as soon as two proxies serve one request each. A second fault adds no
new place where a request can stop. Two messages make a listing's goroutine
have one done and one to do. The instance of `Paging` has int64 of 4 bits, so
that page * size overflows within the pages asked for; the theorem is for any
width. `CHECK_DEADLOCK FALSE` everywhere: where requests are bounded a
behaviour ends when they are used up, and a proxy that gave up start-up does
nothing more.

Symmetry is used in safety runs only, over sets whose members the specification
and the properties do not tell apart: handlers, requests or sessions, users in
the same position, the two claims of one PV name, and in `inbox` each worker
together with its proxy.

### Fairness

Go schedules runnable goroutines, and HTTP calls and SQL statements return or
fail. So `Inbox!FairSpec` has `WF` of each worker's `Step` and of each proxy's
start-up or reconnecting (`updateDB` is a loop); `SignIn!FairSpec` has `WF` of
each goroutine's `Step` and of the answer, which takes for granted that a
region answers or its connection breaks, since `token_proxy` sets no timeout;
`VolumesClient!FairClientSpec` has `WF` of each request's `ProxyStep`, of the
goroutines of the client, and of `Die`: a panic that is under way ends the
process. `SF` of `TokenGranted` says that OpenShift does not refuse the
administrator's password for ever; the goroutine goes on asking, so weak
fairness would not do. No request of a client is fair, and failed calls never
have to happen or to stop happening: the liveness properties except them.

### What the code does otherwise

* `NeedsAdmin`: "Last admin restricted" (`errcode.go:60`) guards leave and
  privileged, not remove, and `IsAdmin` does not look at the status
  `IsLastAdmin` counts by. `ManageOrganization` refuses a caller who does not
  list the organization, so the remover must have accepted once; in the run his
  acceptance is overwritten by another handler's stale write, which makes him
  invited again, and he then removes the last joined admin.
  `OnlyOrphanedLackAdmin` names all the ways there are: a member removed by an
  admin who is not joined, and a member with several entries, listed by the
  creation's body, who leaves: `IsLastAdmin` counts each entry, and
  `RemoveMember` may take them all.
* `GoneWithClaim`: a deletion that overtakes the creation's goroutine leaves PV
  and volume. `NothingLeaks` shows that it takes an overlap, a failed call or a
  shared PV name.
* `LinksLeadHome`: two proxies on one etcd that have not been seeded draw the
  same tokens, and so does a process after the one before it; the link mailed
  to one user then activates another. The run has neither a restart nor a
  fault. `LinksLeadHomeAtFirst` shows that links lead home as long as at most
  one process has drawn a token before it was seeded.
* `ActivationLasts`: a login, a second sign-up or the creation of an
  organization that had read the profile before the activation undoes it.
  `ActivationLastsAlone` shows that it takes such an overlap, also when calls
  fail; `CreatedOrgsListed` shows the same of the list of organizations.

Observed, and left to the hazards in `PROJECT.json`: two proxies that start on
a new database may both insert the version row, and one then never serves
(`ProxyServes` excepts this); a listing of unread messages page by page skips
pages, because listing sets messages read; an explicit "unread" may be undone
by the goroutine of an earlier listing, and messages are read whose listing was
never answered (`ReadWasSeen` excepts them, `lost`); who leaves an organization
keeps the role in its project; a member who accepts while a deletion is under
way is a joined member of a deleted organization; a sign-in whose appends
overlap may lose a region's token or give it the other's name (`TokensComplete`
excepts this), though `AnswerCounts` shows that the answer is never empty when
a region gave one; a region that redirects with an error only is answered as a
blank token.

## Proofs

All theorems hold for every value of the constants under the `ASSUME`s of the
modules, which TLC evaluates in the runs.

* `OrganizationsProofs`. The invariants are not inductive: a handler's copy of
  a document is written back later, so the inductive invariant says of every
  copy what it says of every document (unique names and members invited but for
  those the creation listed, admins granted, a joined admin unless orphaned),
  and of every handler past its check that its caller had been granted the
  admin flag. History only grows, so a stale copy stays good. `Inductive`
  proves it, one step per action, and `TypeCorrect`, `MembersUnique`,
  `MembershipEarned`, `AdminsGranted`, `LastAdminGuarded` and
  `AuthorityFromAdmins` follow. The lemmas on the list operators come first.
* `OrgSerialProofs` is about requests that do not overlap, for any number of
  users, organizations, handlers and requests: every theorem has the hypothesis
  `[]OneAtATime`, at most one handler is busy. The code does not see to that;
  two requests that overlap write stale copies and break the agreement of the
  stores, so the hypothesis cannot be dropped. In the run `org_serial` it holds
  because there is one handler. `SInv` says of every call what the handler's
  copies are next to the store: until a document is put back it is the stored
  one with the member list the request decided on (`Decided`), and so is a
  profile (`Current`). Neither faults nor deaths disturb this, so that
  `RulesImplemented` holds whatever fails: the step that puts a document is the
  request's step of `OrgRules`, every other step is a stutter. What the stores
  owe each other is `Faultless`: lists, projects, quota and bindings agree but
  for what sign-up and creation bodies put there and what the handler at its
  present call has still to write (`Listings`, `Projects`, `Quota`,
  `Bindings`). With nobody busy nothing is owed, which gives `ProjectsHold`,
  `QuotaHolds`, `RolesHold` and `ListsHold`. The last one assumes
  `~AnyoneAccepts` as well: `OrgJoin` lists the organization for a caller who
  has no entry in its member list, so the lists agree only if who accepts was
  invited.
* `VolumesProofs`. `PVHasVolume` needs who may delete a volume: an undo only
  the volume of its own request, which no PV points to; a deletion only the
  volume of a PV it has itself taken away, which no other PV points to since
  each volume id is posted once. The inductive invariant names these
  (`PVIsPosted`, `ReadIsPosted`, `PosterHasVolume`, `WorkIsStarted`,
  `DeleterHasRead`, `DeleterTookPV`), and `TypeCorrect` and `VolumesKept`
  follow. `LeakFree` counts what there is of a claim: while no call fails, its
  requests do not overlap and it shares its PV name with no other claim
  (`Orderly`), at most one request about it is unfinished, the one in turn
  (`TurnInv`). For every call of that request `LeakInv` says which volumes
  there are beside the PV's (`Stocked`) and whether the claim has its PV
  (`Matched`); with none unfinished they are what `NothingLeaks` asks for.
  Requests about other claims touch none of this (`Elsewhere`).
* `VolumesClientProofs`. `ClientImplementsVolumes`: every step of the
  composition is a step of `Volumes` or leaves it alone, so that
  `VolumesKeptByClient` follows at once. `LateCallsKeepClient`: whoever is past
  the first call was let through by a client that was there, and only the end
  of the process takes it away, with all requests. `BlankLeaksNothing` repeats
  the account of `LeakFree` for requests some calls of which were not sent.
  Such a call leaves PV and volume as they are, and a request that made a
  volume goes on to its undo, so `Stocked` still holds; what it may leave is a
  claim without its PV, hence `Matched` is kept only for claims whose calls
  were all sent (`BlankInv`).
* `AccountsProofs`. A copy of a profile says nothing untrue of activation and
  initialisation even when it is stale (`CopiesVerified`, `CopiesInitialized`):
  `ActiveVerified` and `InitializedProject`. What was told to a user stays true
  only if no copy is stale: `OverlapsAreRaces` says that two unfinished
  requests of a user have raced, hence a copy of a user who has not is the
  profile as it is (`CopiesAreCurrent`), and writing it back loses nothing:
  `ActivationKept` and `CreatedOrgsKept`. `OneSignUpWins` rests on `OneWinner`:
  the sign-up that made the LDAP entry is the one that may be answered OK.
  `LinksSafeAtFirst`: a token is a pair of a seed and a place in its sequence.
  Seeds are used once and places only go up; only an unseeded process starts
  again where another started. While at most one process has drawn unseeded,
  faults and restarts or not, what is drawn next was never drawn before
  (`NextIsNew`); a token is therefore held by one user at most, be it in a
  session, in `verify` or in a mail (`HoldersOnce`).
* `PagingProofs`. `ListingAlwaysFits` and `EachRowAlwaysOnce`: that an in-range
  sum does not wrap, and uniqueness of quotients, for every number of rows,
  page and size.
* `InboxProofs`. `PagesAlwaysCover` lifts them to every state of `Inbox`. The
  other four theorems follow from one inductive invariant. `JobsInOrder` says
  what a request past its select knows: its message is its user's or gone, and
  stays so because rows keep their receiver and no id is used again
  (`RowsChange`, `IdsAreCounted`); that gives `ReceiverOnly`, and, with what a
  listing's goroutine holds being seen, lost or still to be answered,
  `ReadOnlyIfSeen`. `AloneIsAlone` says that who accepts alone shares the
  message with no other acceptance, so that nobody writes it between the check
  and the write: `AcceptedOnce`. That the newest of a set of messages is in it
  (`NewestIn`) comes from the well-foundedness of `<` on the naturals.
* `SignInProofs`. What the answer holds follows from the stored length
  (`Lengths`): an append stores one more than it loaded, so the length is
  positive once anybody has stored it, and it is two only after both have. This
  gives `AnswersCounted` however words are torn, and bounds the arrays for
  `TypeCorrect`. `ProjectIsAskedFirst` says it of every array (`Asked`). For
  `TokensAreComplete`, `InTurn` says what the slice is while the appends do not
  overlap: all that was appended so far, and what the one under way has loaded
  of it or stored on top. The system is finite and the run explores all of it;
  the proof says why it is so.

Only model-checked: all liveness, which is out of the prover's reach, like the
`ENABLED` in the weak and strong fairness it rests on; and the properties of
the runs that expect a violation, which are false.

## Simplifications

* Organizations: ids are new (`generatedOrgName` seeds by the clock);
  `JoinedAt` and `PrivilegedBy` are left out; a member list is a set of entries
  without their order, those of one name told apart by a number (`nth`), so
  that where the order decides which of them a method meets, any may be it:
  `RemoveMember` then has every outcome the code can have, the panic included,
  and some it cannot; a creation's body is one of `Bodies`, finite lists of any
  members, and its other fields are overwritten; `OrgList` and `OrgUsed` of a
  sign-up's body are `FirstProfile`, `OrgList` being the number of times it
  names each organization, under the name the organization asks for; reading
  and writing one role binding is one step; the profile reads that accept and
  leave make twice in a row are one; a profile copy is kept only by those that
  write it back; OpenShift's refusal for lack of rights is a failed call.
* Volumes: a volume's id is the request that made it; a request is used once;
  OpenShift's controller binds a claim to its PV at any time (`Bind`,
  external).
* Accounts: each process has its own generator, and creations seed it by a
  clock that never gives two processes the same; addresses are left out, a mail
  being for the user; a link is visited by the user it was mailed to; the PUT
  of a profile is not routed and left out; of the organization requests only
  the creation is a writer of profiles here; the user's project is not deleted
  through the proxied API; `glog.Fatal` in sign-up and password change is
  `Restart`; `TryCreatProject` runs beside an unfinished login.
* VolumesClient: a token is a string of two words, stored and read one after
  the other; all tokens have one length, so only the first store can be seen
  half done; that OpenShift refuses an outdated token is a failed call.
* SignIn: a redirect with an error is a token whose text is blank; of the Go
  runtime, `growslice` and an append that loads and stores the three words of a
  slice in any order are modelled (external); the element has two of its
  fields.
* Inbox: the answer of a listing is written beside its goroutine, whole or not
  at all, and an answer whose process dies is lost; the page of a listing is
  chosen where the rows are counted; every message is an organization
  invitation, the only kind the routes create; ids and times have one order and
  ids are not used again; filters by type, level and sender are left out (one
  kind of message); a statement sees what is committed; the error of a commit,
  which the code ignores, is a fault; a ping that fails and a pool that is
  closed is one step.
* MessagesDB: three failed tries to connect are one fault; the version is that
  of the only upgrader there is, so no upgrade runs.

## Not modelled

Mail text and the queue of mails, password change, backing services, HTTP
helpers, validation, configuration and routing keep no state that a later
request reads; their errors are failed calls of the modules that use them.
`UpdateStat`, `RemoveStat`, the statistics cursor and the watch functions of
the OpenShift client have no caller. The goroutine of a login that sends a
request to GitLab logs its answer and nothing more. The pools that `updateDB`
leaves behind when a first ping fails are not counted.

## Plan

Done: `OrgMembers`, `Organizations` with `OrgRules`, creation bodies and
sign-up profiles included, `Volumes`, `OpenshiftClient` and `VolumesClient`,
`Accounts` over several proxies with the creation of organizations, `SignIn`,
`Paging`, `MessagesDB` with `updateDB`, `Inbox`, and the theorems above.

Next, in this order:

1. Invite, accept and leave as further writers of a profile in `Accounts`, with
   `OrgUsed`.
2. The invitation from the organization to the inbox and back.
3. The order of a member list with several entries of one name, to tell the
   outcomes of `RemoveMember` the code has from those the set allows.
