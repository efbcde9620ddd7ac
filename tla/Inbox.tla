-------------------------------- MODULE Inbox -------------------------------
(***************************************************************************)
(* The messages API (message.go, messages/message.go, notification.go):    *)
(* organization invitations are put in the inbox of their receiver, who    *)
(* lists them, marks them read or unread, accepts and deletes them.        *)
(* Every call on the database is a step of its own: the select and the     *)
(* update of modifyUserMessage are in one transaction, but the select      *)
(* locks nothing.                                                          *)
(*                                                                         *)
(* A listing starts a background goroutine that sets the unread messages   *)
(* it found to read, one after the other.  The goroutine is started by the *)
(* query: the handler writes the answer beside it.                         *)
(*                                                                         *)
(* Messages are numbered in the order of their TIME, by which they are     *)
(* listed; an id is not used again.  Each worker carries one request at a  *)
(* time, on one proxy, until its last goroutine has ended.                 *)
(***************************************************************************)
EXTENDS MessagesDB, Paging, FiniteSets

CONSTANTS
    Users,
    Workers,
    ProxyOf,      \* the proxy a worker belongs to
    Pages, Sizes, \* the pages and page sizes clients ask for
    Asked,        \* the statuses of messages they ask for
    MaxMessages,  \* bound: messages ever created
    None

Messages == 1 .. MaxMessages
Statuses == {"unread", "read"}
Filters  == Statuses \cup {"either"}

\* A row of DF_MESSAGE; accepted is in the JSON of its DATA.
Message == [receiver : Users, status : Statuses, accepted : BOOLEAN]

Calls == {"count", "query", "modifySelect", "modifyUpdate", "answer", "get",
          "putData", "delete"}

\* A request: its user, its next call, the messages it is about (of a listing
\* the ones its goroutine is to set read), the status wanted, the rows the
\* listing asks the database for, whether it is a listing that has found its
\* messages, the ones it is still to answer, and whether the pool that getDB
\* gave it is still open.
Job == [user : Users, at : Calls, todo : SUBSET Messages,
        status : Filters, rows : SUBSET (0 .. MaxMessages),
        listing : BOOLEAN, answer : SUBSET Messages, db : BOOLEAN]

ASSUME InboxAssumption ==
    /\ ProxyOf \in [Workers -> Proxies]
    /\ Pages \subseteq Int64 /\ Pages # {}
    /\ Sizes \subseteq Int64 /\ Sizes # {}
    /\ Asked \subseteq Filters
    /\ MaxMessages \in Nat
    /\ MaxMessages + MaxSize <= MaxInt64
    /\ MaxFaults \in Nat
    /\ None \notin Message
    /\ None \notin Job

VARIABLES
    messages,     \* DF_MESSAGE
    created,      \* its AUTO_INCREMENT counter
    job,          \* what each worker is doing
    \* History; no handler reads these.
    seen,         \* messages shown to their receiver, or set read by them
    lost,         \* messages of a listing whose answer never arrived
    alone         \* workers accepting an invitation no other request has been
                  \* accepting meanwhile

inboxVars == <<messages, created, job, seen, lost, alone>>
vars == <<bootVars, inboxVars>>

TypeOK ==
    /\ BootTypeOK
    /\ messages \in [Messages -> Message \cup {None}]
    /\ created \in 0 .. MaxMessages
    /\ job \in [Workers -> Job \cup {None}]
    /\ seen \cup lost \subseteq Messages
    /\ alone \subseteq Workers

Init ==
    /\ BootInit
    /\ messages = [m \in Messages |-> None]
    /\ created = 0
    /\ job = [w \in Workers |-> None]
    /\ seen = {} /\ lost = {} /\ alone = {}
-----------------------------------------------------------------------------
Exists(m)      == messages[m] # None
IsTo(m, user)  == Exists(m) /\ messages[m].receiver = user
Busy(w)        == job[w] # None
At(w, call)    == Busy(w) /\ job[w].at = call
Call(w, call)  == job' = [job EXCEPT ![w].at = call]
End(w)         == job' = [job EXCEPT ![w] = None]
Newest(S)      == CHOOSE m \in S : \A n \in S : n <= m

NewJob(db, user, call, todo, status) ==
    [db |-> db, user |-> user, at |-> call, todo |-> todo, status |-> status,
     rows |-> {}, listing |-> FALSE, answer |-> {}]

\* Every handler first gets the database, which there is none of before the
\* proxy serves.
Receive(w, request) ==
    /\ ~Busy(w)
    /\ IsServing(ProxyOf[w])
    /\ job' = [job EXCEPT ![w] = request]
    /\ UNCHANGED <<bootVars, messages, created, seen, lost>>

\* A statement reaches the database through a pool that is open.  Reading an
\* invitation and writing its data each ask for the pool again; the update is
\* made on the connection its transaction holds, which outlives the pool.
Reaches(w) ==
    CASE job[w].at \in {"get", "putData"} -> pool[ProxyOf[w]]
      [] job[w].at = "modifyUpdate"       -> TRUE
      [] OTHER                            -> job[w].db

Works(w) == Reaches(w) /\ NoFault
Fails(w) == IF Reaches(w) THEN Fault ELSE NoFault
Lost(w)  == Reaches(w) /\ Fault   \* it worked, but its answer is lost

\* SendOrgInviteMessage, from a goroutine of OrgInvite
CreateMessage(user) ==
    /\ \E p \in Proxies : IsServing(p) /\ pool[p]
    /\ created < MaxMessages
    /\ created' = created + 1
    /\ messages' = [messages EXCEPT ![created + 1] =
           [receiver |-> user, status |-> "unread", accepted |-> FALSE]]
    /\ UNCHANGED <<bootVars, job, seen, lost, alone>>
-----------------------------------------------------------------------------
\* GetMyMessages: the rows that match are counted, ...
GetMyMessages(w) ==
    \E user \in Users, filter \in Asked :
        /\ Receive(w, NewJob(pool[ProxyOf[w]], user, "count", {}, filter))
        /\ UNCHANGED alone

Matching(user, filter) ==
    {m \in Messages : IsTo(m, user) /\ filter \in {messages[m].status, "either"}}

\* The page asked for is read no sooner than here, and named here.
QueryMessagesCount(w) ==
    LET count == Cardinality(Matching(job[w].user, job[w].status))
    IN  /\ At(w, "count")
        /\ \/ count = 0 /\ End(w) /\ Works(w)
           \/ /\ count > 0 /\ Works(w)
              /\ \E page \in Pages, size \in Sizes :
                     job' = [job EXCEPT
                         ![w].at = "query", ![w].rows = RowsOf(count, page, size)]
           \/ End(w) /\ Fails(w)
        /\ UNCHANGED <<proxies, messages, created, seen, lost, alone>>

\* ... and a page of them is read, which by now may hold other messages.
RowOf(m, S)   == Cardinality({n \in S : n > m})
Listed(w)     ==
    LET all == Matching(job[w].user, job[w].status)
    IN  {m \in all : RowOf(m, all) \in job[w].rows}
Unread(S)     == {m \in S : messages[m].status = "unread"}

\* A plausible slip: everything the listing's filter matched
ToSetReadMatching(w) == Unread(Matching(job[w].user, job[w].status))

\* The goroutine the query starts has these to set read.
ToSetRead(w) == Unread(Listed(w))

\* The goroutine sets some of what was found, beside the answer.
Follow(w, found, todo) ==
    job' = [job EXCEPT ![w].at = IF todo = {} THEN "answer" ELSE "modifySelect",
                       ![w].todo = todo, ![w].status = "read", ![w].rows = {},
                       ![w].listing = TRUE, ![w].answer = found]

QueryMessages(w) ==
    /\ At(w, "query")
    /\ \/ /\ IF Listed(w) = {} THEN End(w) ELSE Follow(w, Listed(w), ToSetRead(w))
          /\ Works(w)
       \/ End(w) /\ Fails(w)
    /\ UNCHANGED <<proxies, messages, created, seen, lost, alone>>

\* The handler writes what the query found, before, between or after what the
\* goroutine sets; the connection may break.
Answer(w) ==
    LET found == {m \in job[w].answer : Exists(m)}
    IN  /\ Busy(w) /\ job[w].answer # {}
        /\ \/ seen' = seen \cup found /\ UNCHANGED lost /\ NoFault
           \/ lost' = lost \cup found /\ UNCHANGED seen /\ Fault
        /\ IF At(w, "answer") THEN End(w)
           ELSE job' = [job EXCEPT ![w].answer = {}]
        /\ UNCHANGED <<proxies, messages, created, alone>>
-----------------------------------------------------------------------------
\* ModifyMessage with "read" or "unread".  The goroutine of a listing does
\* the same to each of its messages, newest first, whatever becomes of it.
ModifyMessage(w) ==
    \E user \in Users, m \in Messages, status \in Statuses :
        /\ Receive(w, NewJob(pool[ProxyOf[w]], user, "modifySelect", {m}, status))
        /\ UNCHANGED alone

Current(w) == Newest(job[w].todo)

\* A plausible slip: the goroutine ends with the first message it is done with
ModifiedFirst(w) == End(w)

Modified(w) ==
    LET rest == job[w].todo \ {Current(w)}
    IN  IF rest = {} /\ job[w].answer = {} THEN End(w)
        ELSE job' = [job EXCEPT ![w].todo = rest,
                         ![w].at = IF rest = {} THEN "answer" ELSE "modifySelect"]

ModifySelect(w) ==
    LET m == Current(w)
    IN  /\ At(w, "modifySelect")
        /\ \/ IsTo(m, job[w].user) /\ messages[m].status # job[w].status
              /\ Call(w, "modifyUpdate") /\ Works(w)
           \/ ~(IsTo(m, job[w].user) /\ messages[m].status # job[w].status)
              /\ Modified(w) /\ Works(w)
           \/ Modified(w) /\ Fails(w)
        /\ UNCHANGED <<proxies, messages, created, seen, lost, alone>>

\* The update is by id alone; a row deleted meanwhile is not there to change.
ModifyUpdate(w) ==
    LET m == Current(w)
    IN  /\ At(w, "modifyUpdate")
        /\ \/ /\ messages' = [messages EXCEPT ![m] =
                     IF @ = None THEN None ELSE [@ EXCEPT !.status = job[w].status]]
              /\ seen' = IF job[w].listing \/ ~IsTo(m, job[w].user) THEN seen
                         ELSE seen \cup {m}
              /\ Works(w)
           \/ UNCHANGED <<messages, seen>> /\ Fails(w)
        /\ Modified(w)
        /\ UNCHANGED <<proxies, created, lost, alone>>
-----------------------------------------------------------------------------
\* ModifyMessage_Custom: the invitation is read, and refused if accepted, ...
Accepting(x, m) == (At(x, "get") \/ At(x, "putData")) /\ m \in job[x].todo
StillAlone      == alone' = {w \in alone : job'[w] # None}

AcceptOrgInvitation(w) ==
    \E user \in Users, m \in Messages :
        LET rivals == {x \in Workers : Accepting(x, m)}
        IN  /\ Receive(w, NewJob(pool[ProxyOf[w]], user, "get", {m}, "either"))
            /\ alone' = IF rivals = {} THEN alone \cup {w}
                        ELSE alone \ rivals

\* A plausible slip: the check for an invitation accepted already is lost
MayAcceptAgain(m, user) == IsTo(m, user)

MayAccept(m, user) == IsTo(m, user) /\ ~messages[m].accepted

GetMessageByUserAndID(w) ==
    /\ At(w, "get")
    /\ \/ MayAccept(Current(w), job[w].user) /\ Call(w, "putData") /\ Works(w)
       \/ ~MayAccept(Current(w), job[w].user) /\ End(w) /\ Works(w)
       \/ End(w) /\ Fails(w)
    /\ StillAlone
    /\ UNCHANGED <<proxies, messages, created, seen, lost>>

\* A plausible slip: the data is stored in the place of the row
WithDataOnly(m) == [messages EXCEPT ![m] = [accepted |-> TRUE]]

\* ... then its data is written by id alone.  No answer says whether the row
\* was there.
WithData(m) ==
    [messages EXCEPT ![m] = IF @ = None THEN None ELSE [@ EXCEPT !.accepted = TRUE]]

ModifyMessageDataByID(w) ==
    LET m == Current(w)
    IN  /\ At(w, "putData")
        /\ \/ messages' = WithData(m) /\ Works(w)
           \/ UNCHANGED messages /\ Fails(w)
           \/ messages' = WithData(m) /\ Lost(w)
        /\ End(w)
        /\ StillAlone
        /\ UNCHANGED <<proxies, created, seen, lost>>
-----------------------------------------------------------------------------
DeleteMessage(w) ==
    \E user \in Users, m \in Messages :
        /\ Receive(w, NewJob(pool[ProxyOf[w]], user, "delete", {m}, "either"))
        /\ UNCHANGED alone

\* A plausible slip: the receiver is left out of the statement
DeletesAny(m, user) == Exists(m)

Deletes(m, user) == IsTo(m, user)

DeleteUserMessage(w) ==
    LET m == Current(w)
        without == IF Deletes(m, job[w].user)
                   THEN [messages EXCEPT ![m] = None] ELSE messages
    IN  /\ At(w, "delete")
        /\ \/ messages' = without /\ Works(w)
           \/ UNCHANGED messages /\ Fails(w)
           \/ messages' = without /\ Lost(w)
        /\ seen' = {n \in seen : messages'[n] # None}
        /\ lost' = {n \in lost : messages'[n] # None}
        /\ End(w)
        /\ UNCHANGED <<proxies, created, alone>>
-----------------------------------------------------------------------------
\* updateDB closes the pool under the requests and goroutines that hold it.
ClosePool(p) ==
    /\ PingFails(p)
    /\ job' = [w \in Workers |->
                  IF Busy(w) /\ ProxyOf[w] = p THEN [job[w] EXCEPT !.db = FALSE]
                                               ELSE job[w]]
    /\ UNCHANGED <<messages, created, seen, lost, alone>>

\* The process dies with its requests and goroutines, and is started again.
Restart(p) ==
    /\ boot[p] # "connect"
    /\ boot' = [boot EXCEPT ![p] = "connect"]
    /\ pool' = [pool EXCEPT ![p] = FALSE]
    /\ job' = [w \in Workers |-> IF ProxyOf[w] = p THEN None ELSE job[w]]
    /\ lost' = lost \cup {m \in Messages : Exists(m) /\ \E w \in Workers :
                               Busy(w) /\ ProxyOf[w] = p /\ m \in job[w].answer}
    /\ Fault
    /\ StillAlone
    /\ UNCHANGED <<version, collided, messages, created, seen>>

Request(w) ==
    \/ GetMyMessages(w) \/ ModifyMessage(w) \/ AcceptOrgInvitation(w)
    \/ DeleteMessage(w)

Step(w) ==
    \/ QueryMessagesCount(w) \/ QueryMessages(w) \/ Answer(w)
    \/ ModifySelect(w) \/ ModifyUpdate(w)
    \/ GetMessageByUserAndID(w) \/ ModifyMessageDataByID(w)
    \/ DeleteUserMessage(w)

Next ==
    \/ \E user \in Users : CreateMessage(user)
    \/ \E w \in Workers : Request(w) \/ Step(w)
    \/ \E p \in Proxies : (BootStep(p) \/ Reconnect(p)) /\ UNCHANGED inboxVars
    \/ \E p \in Proxies : ClosePool(p) \/ Restart(p)

Spec == Init /\ [][Next]_vars

\* A goroutine that has started goes on, whoever else the scheduler runs.
FairSpec ==
    /\ Spec
    /\ \A w \in Workers : WF_vars(Step(w))
    /\ \A p \in Proxies : WF_vars((BootStep(p) \/ Reconnect(p)) /\ UNCHANGED inboxVars)
-----------------------------------------------------------------------------
\* A message changes, or goes, only by a step of a request of its receiver,
\* though the updates of modifyUserMessage and modifyMessageDataByID name the
\* id alone, after a check made in an earlier statement.
OnlyItsReceiver ==
    [][\A m \in Messages :
           Exists(m) /\ messages'[m] # messages[m] =>
               \E w \in Workers :
                   /\ Busy(w) /\ job'[w] # job[w]
                   /\ m \in job[w].todo
                   /\ IsTo(m, job[w].user)]_vars

\* A message that is read was shown to its receiver, or set read by them, or
\* is about to be shown by a listing of theirs whose goroutine was faster than
\* its answer.  What else is read unseen, the answer of such a listing lost: the
\* process died or the connection broke under it.
ToBeShown(m) ==
    \E w \in Workers : Busy(w) /\ m \in job[w].answer /\ IsTo(m, job[w].user)

ReadWasSeen ==
    \A m \in Messages : Exists(m) /\ messages[m].status = "read" =>
        m \in seen \cup lost \/ ToBeShown(m)

\* An invitation accepted already is not accepted again ("already accepted",
\* message.go) unless two requests were accepting it at a time: the check and
\* the write are two statements, and the second request is answered OK too.
AcceptedOnceAlone ==
    \A w \in alone : At(w, "putData") =>
        \A m \in job[w].todo : Exists(m) => ~messages[m].accepted

\* Of whatever is in an inbox, the pages of a listing give each row once, and
\* no page asked for, even one past the end, lies outside.
PagesCover ==
    \A user \in Users, filter \in Filters, size \in Sizes :
        LET count == Cardinality(Matching(user, filter))
        IN  /\ EachRowOnce(count, size)
            /\ count > 0 => \A page \in Pages : ListingFits(count, page, size)

\* A message a listing found unread is read later, or gone, unless a call fails
\* or the process dies: nobody waits for the goroutine that sets it.
Found(m) == \E w \in Workers : Busy(w) /\ job[w].listing /\ m \in job[w].todo

ListedGetsRead ==
    \A m \in Messages :
        Found(m) ~> \/ ~Exists(m)
                    \/ messages[m].status = "read"
                    \/ faults > 0
=============================================================================
