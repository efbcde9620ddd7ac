----------------------------- MODULE InboxProofs ----------------------------
(***************************************************************************)
(* Theorems about Inbox, for every number of users, workers, proxies and   *)
(* messages, and every page and page size: what listings cover, that a     *)
(* message is changed by its receiver alone and is read only if it was     *)
(* shown, and that an invitation is accepted once where none competes.     *)
(***************************************************************************)
EXTENDS Inbox, PagingProofs, FiniteSetTheorems, WellFoundedInduction

LEMMA MatchingCount ==
    ASSUME NEW user, NEW filter
    PROVE  Cardinality(Matching(user, filter)) \in 0 .. MaxMessages
  <1>1. MaxMessages \in Nat
    BY InboxAssumption
  <1>2. IsFiniteSet(Messages) /\ Cardinality(Messages) = MaxMessages
    BY <1>1, FS_Interval DEF Messages
  <1>3. Matching(user, filter) \subseteq Messages
    BY DEF Matching
  <1>4. /\ IsFiniteSet(Matching(user, filter))
        /\ Cardinality(Matching(user, filter)) <= MaxMessages
    BY <1>2, <1>3, FS_Subset
  <1>5. Cardinality(Matching(user, filter)) \in Nat
    BY <1>4, FS_CardinalityType
  <1> QED
    BY <1>1, <1>4, <1>5

\* Of whatever is in an inbox, the pages of a listing give each row once, and
\* no page asked for lies outside the rows (GetMyMessages, getUserMessages):
\* it is the arithmetic alone that makes it so, whatever the messages are.
THEOREM PagesAlwaysCover == Spec => []PagesCover
  <1>1. PagesCover
    <2> SUFFICES ASSUME NEW user \in Users, NEW filter \in Filters,
                        NEW size \in Sizes
                 PROVE  /\ EachRowOnce(Cardinality(Matching(user, filter)), size)
                        /\ Cardinality(Matching(user, filter)) > 0 =>
                               \A page \in Pages :
                                   ListingFits(Cardinality(Matching(user, filter)),
                                               page, size)
      BY DEF PagesCover
    <2> DEFINE count == Cardinality(Matching(user, filter))
    <2>1. /\ count \in 0 .. MaxMessages
          /\ MaxMessages \in Nat
          /\ MaxMessages + MaxSize <= MaxInt64
      BY MatchingCount, InboxAssumption
    <2> HIDE DEF count
    <2>2. MaxInt64 \in Nat /\ MaxSize \in Nat
      BY PagingAssumption
    <2>3. count \in Nat /\ count + MaxSize <= MaxInt64
      BY <2>1, <2>2
    <2>4. size \in Int /\ \A page \in Pages : page \in Int
      BY <2>2, InboxAssumption DEF Int64
    <2>5. EachRowOnce(count, size)
      BY <2>3, <2>4, EachRowAlwaysOnce
    <2>6. ASSUME count > 0, NEW page \in Pages
          PROVE  ListingFits(count, page, size)
      <3>1. count \in Nat \ {0} /\ page \in Int
        BY <2>3, <2>4, <2>6
      <3> QED
        BY <2>3, <2>4, <3>1, ListingAlwaysFits
    <2> QED
      BY <2>5, <2>6 DEF count
  <1> QED
    BY <1>1, PTL
-----------------------------------------------------------------------------
\* A request that is past its first call knows what it is about, and that is
\* its user's or gone; a listing's goroutine sets read what the listing found,
\* be it answered already, still to be answered, or its answer lost.
JobInOrder(w) ==
    /\ job[w].at \notin {"count", "query", "answer"} => job[w].todo # {}
    /\ job[w].at \in {"modifySelect", "modifyUpdate"} => job[w].status \in Statuses
    /\ job[w].at \in {"get", "putData", "delete"} =>
           \E m \in Messages : job[w].todo = {m}
    /\ job[w].at \in {"modifyUpdate", "putData"} =>
           /\ Current(w) <= created
           /\ Exists(Current(w)) => IsTo(Current(w), job[w].user)
    /\ job[w].listing =>
           /\ job[w].at \in {"modifySelect", "modifyUpdate", "answer"}
           /\ job[w].status = "read"
           /\ \A m \in job[w].todo :
                 m <= created /\ (Exists(m) => m \in seen \cup lost \cup job[w].answer)
    /\ job[w].answer # {} => job[w].listing
    /\ \A m \in job[w].answer : m <= created /\ (Exists(m) => IsTo(m, job[w].user))

JobsInOrder == \A w \in Workers : Busy(w) => JobInOrder(w)

\* An id is given to one message: those beyond the counter are free.
IdsAreCounted == \A m \in Messages : Exists(m) => m <= created

\* Who accepts alone is accepting, and no other is.
AloneIsAlone ==
    \A w \in alone :
        /\ At(w, "get") \/ At(w, "putData")
        /\ \A x \in Workers \ {w}, m \in job[w].todo : ~Accepting(x, m)

IInv ==
    /\ TypeOK /\ JobsInOrder /\ IdsAreCounted
    /\ ReadWasSeen /\ AloneIsAlone /\ AcceptedOnceAlone
-----------------------------------------------------------------------------
LEMMA NewestIn ==
    ASSUME NEW S, S \subseteq Messages, S # {}
    PROVE  Newest(S) \in S
<1> DEFINE T == {k \in Nat : MaxMessages - k \in S}
<1>0. MaxMessages \in Nat /\ S \subseteq 1 .. MaxMessages
      BY InboxAssumption DEF Messages
<1>1. T \subseteq Nat /\ T # {}
  <2>1. PICK m \in S : TRUE
        OBVIOUS
  <2>2. MaxMessages - m \in Nat /\ MaxMessages - (MaxMessages - m) = m
        BY <1>0, <2>1
  <2> QED BY <2>1, <2>2
<1>2. PICK k \in T : \A y \in T : ~(<<y, k>> \in OpToRel(<, Nat))
      BY <1>1, WFMin, NatLessThanWellFounded, Zenon
<1>3. \A y \in T : ~(y < k)
      BY <1>1, <1>2 DEF OpToRel
<1>4. ASSUME NEW n \in S
      PROVE  n <= MaxMessages - k
  <2>1. MaxMessages - n \in Nat /\ MaxMessages - (MaxMessages - n) = n
        BY <1>0
  <2>2. ~(MaxMessages - n < k)
        BY <1>3, <2>1
  <2> QED BY <1>0, <2>1, <2>2
<1> QED BY <1>4 DEF Newest

LEMMA NewestOfOne ==
    ASSUME NEW m \in Messages
    PROVE  Newest({m}) = m
BY NewestIn

\* The request of worker w goes on with this call, and the others stay.
Goes(w, call, todo) ==
    /\ job' \in [Workers -> Job \cup {None}]
    /\ job'[w] # None
    /\ job'[w].user = job[w].user /\ job'[w].status = job[w].status
    /\ job'[w].listing = job[w].listing /\ job'[w].answer = job[w].answer
    /\ job'[w].at = call /\ job'[w].todo = todo
    /\ \A x \in Workers \ {w} : job'[x] = job[x]

Ends(w) ==
    /\ job' \in [Workers -> Job \cup {None}]
    /\ job'[w] = None
    /\ \A x \in Workers \ {w} : job'[x] = job[x]

\* Its listing is answered, or will not be.
Answers(w) ==
    /\ job' \in [Workers -> Job \cup {None}]
    /\ job'[w] # None
    /\ job'[w].user = job[w].user /\ job'[w].status = job[w].status
    /\ job'[w].listing = job[w].listing /\ job'[w].answer = {}
    /\ job'[w].at = job[w].at /\ job'[w].todo = job[w].todo
    /\ \A x \in Workers \ {w} : job'[x] = job[x]

Starts(w, user, call, todo, status, listing, answer) ==
    /\ job' \in [Workers -> Job \cup {None}]
    /\ job'[w] # None
    /\ job'[w].user = user /\ job'[w].at = call /\ job'[w].todo = todo
    /\ job'[w].status = status
    /\ job'[w].listing = listing /\ job'[w].answer = answer
    /\ \A x \in Workers \ {w} : job'[x] = job[x]

LEMMA JobRecord ==
    ASSUME TypeOK, NEW w \in Workers, Busy(w)
    PROVE  /\ job[w] \in Job /\ job[w].user \in Users /\ job[w].at \in Calls
           /\ job[w].todo \subseteq Messages /\ job[w].status \in Filters
           /\ job[w].listing \in BOOLEAN /\ job[w].db \in BOOLEAN
           /\ job[w].answer \subseteq Messages
BY DEF TypeOK, Busy, Job

LEMMA Moves ==
    ASSUME TypeOK, NEW w \in Workers, Busy(w)
    PROVE  /\ \A call \in Calls : Call(w, call) => Goes(w, call, job[w].todo)
           /\ End(w) => Ends(w)
           /\ Modified(w) =>
                  \/ Ends(w) /\ job[w].answer = {}
                  \/ /\ job[w].todo \ {Current(w)} # {}
                     /\ Goes(w, "modifySelect", job[w].todo \ {Current(w)})
                  \/ job[w].answer # {} /\ Goes(w, "answer", {})
<1> job \in [Workers -> Job \cup {None}] /\ job[w] \in Job /\ None \notin Job
    BY JobRecord, InboxAssumption DEF TypeOK
<1>1. ASSUME NEW call \in Calls, Call(w, call)
      PROVE  Goes(w, call, job[w].todo)
  <2>1. [job[w] EXCEPT !.at = call] \in Job
        BY DEF Job
  <2>2. job' = [job EXCEPT ![w] = [job[w] EXCEPT !.at = call]]
        BY <1>1 DEF Call
  <2> QED BY <2>1, <2>2 DEF Goes, Job
<1>2. End(w) => Ends(w)
      BY DEF End, Ends
<1>3. ASSUME Modified(w)
      PROVE  \/ Ends(w) /\ job[w].answer = {}
             \/ /\ job[w].todo \ {Current(w)} # {}
                /\ Goes(w, "modifySelect", job[w].todo \ {Current(w)})
             \/ job[w].answer # {} /\ Goes(w, "answer", {})
  <2> DEFINE rest == job[w].todo \ {Current(w)}
             at   == IF rest = {} THEN "answer" ELSE "modifySelect"
             x    == [job[w] EXCEPT !.todo = rest, !.at = at]
  <2>1. IF rest = {} /\ job[w].answer = {} THEN End(w) ELSE job' = [job EXCEPT ![w] = x]
        BY <1>3 DEF Modified
  <2>2. rest \subseteq Messages /\ at \in Calls
        BY JobRecord DEF Calls
  <2>a. (rest = {} => at = "answer") /\ (rest # {} => at = "modifySelect")
        OBVIOUS
  <2> HIDE DEF rest, at
  <2>3. x \in Job /\ x # None
        BY <2>2 DEF Job
  <2>4. /\ x.at = at /\ x.todo = rest /\ x.user = job[w].user
        /\ x.status = job[w].status
        /\ x.listing = job[w].listing /\ x.answer = job[w].answer
        BY DEF Job
  <2> HIDE DEF x
  <2>5. job' = [job EXCEPT ![w] = x] => Goes(w, at, rest)
        BY <2>3, <2>4 DEF Goes
  <2>6. \/ Ends(w) /\ job[w].answer = {}
        \/ rest # {} /\ Goes(w, "modifySelect", rest)
        \/ job[w].answer # {} /\ Goes(w, "answer", {})
        BY <2>1, <2>5, <2>a, <1>2
  <2> QED BY <2>6 DEF rest
<1> QED BY <1>1, <1>2, <1>3

LEMMA Begins ==
    ASSUME TypeOK, NEW w \in Workers, NEW db \in BOOLEAN, NEW user \in Users,
           NEW call \in Calls, NEW todo \in SUBSET Messages, NEW status \in Filters,
           Receive(w, NewJob(db, user, call, todo, status))
    PROVE  Starts(w, user, call, todo, status, FALSE, {})
<1> DEFINE x == NewJob(db, user, call, todo, status)
<1>0. {} \in SUBSET (0 .. MaxMessages) /\ {} \in SUBSET Messages /\ FALSE \in BOOLEAN
      OBVIOUS
<1>1. x \in Job
      BY <1>0, Zenon DEF NewJob, Job
<1>2. x # None /\ job' = [job EXCEPT ![w] = x] /\ job \in [Workers -> Job \cup {None}]
      BY <1>1, InboxAssumption DEF Receive, TypeOK
<1>3. /\ x.user = user /\ x.at = call /\ x.todo = todo /\ x.status = status
      /\ x.listing = FALSE /\ x.answer = {}
      BY DEF NewJob
<1> HIDE DEF x
<1> QED BY <1>1, <1>2, <1>3 DEF Starts

\* A request that arrives, and whom it leaves alone.
Arrives(w, user, call, todo, status) ==
    /\ Starts(w, user, call, todo, status, FALSE, {})
    /\ call = "modifySelect" => status \in Statuses
    /\ \/ call = "count" /\ alone' = alone
       \/ \E m \in Messages :
             /\ todo = {m}
             /\ \/ call \in {"modifySelect", "delete"} /\ alone' = alone
                \/ /\ call = "get"
                   /\ LET rivals == {x \in Workers : Accepting(x, m)}
                      IN  alone' = IF rivals = {} THEN alone \cup {w}
                                                  ELSE alone \ rivals

LEMMA Arrivals ==
    ASSUME TypeOK, NEW w \in Workers, Request(w)
    PROVE  /\ \E user \in Users, status \in Filters, call \in Calls,
                 todo \in SUBSET Messages : Arrives(w, user, call, todo, status)
           /\ ~Busy(w) /\ UNCHANGED <<bootVars, messages, created, seen, lost>>
<1> pool \in [Proxies -> BOOLEAN] /\ pool[ProxyOf[w]] \in BOOLEAN
    BY InboxAssumption DEF TypeOK, BootTypeOK
<1>0. ASSUME NEW x, Receive(w, x)
      PROVE  ~Busy(w) /\ UNCHANGED <<bootVars, messages, created, seen, lost>>
      BY <1>0 DEF Receive
<1>c. {"count", "modifySelect", "get", "delete"} \subseteq Calls
      /\ "either" \in Filters /\ Statuses \subseteq Filters
      BY DEF Calls, Filters
<1>1. CASE GetMyMessages(w)
  <2>1. PICK user \in Users, filter \in Filters :
             Receive(w, NewJob(pool[ProxyOf[w]], user, "count", {}, filter)) /\ alone' = alone
        BY <1>1, InboxAssumption DEF GetMyMessages
  <2>2. Starts(w, user, "count", {}, filter, FALSE, {})
        BY <2>1, <1>c, Begins
  <2>3. Arrives(w, user, "count", {}, filter)
        BY <2>1, <2>2 DEF Arrives
  <2>4. {} \in SUBSET Messages
        OBVIOUS
  <2> QED BY <2>1, <2>3, <2>4, <1>c, <1>0
<1>2. CASE ModifyMessage(w)
  <2>1. PICK user \in Users, m \in Messages, status \in Statuses :
             /\ Receive(w, NewJob(pool[ProxyOf[w]], user, "modifySelect", {m}, status))
             /\ alone' = alone
        BY <1>2 DEF ModifyMessage
  <2>2. Starts(w, user, "modifySelect", {m}, status, FALSE, {})
        BY <2>1, <1>c, Begins
  <2>3. Arrives(w, user, "modifySelect", {m}, status)
        BY <2>1, <2>2 DEF Arrives
  <2>4. {m} \in SUBSET Messages
        OBVIOUS
  <2> QED BY <2>1, <2>3, <2>4, <1>c, <1>0
<1>3. CASE AcceptOrgInvitation(w)
  <2>1. PICK user \in Users, m \in Messages :
             /\ Receive(w, NewJob(pool[ProxyOf[w]], user, "get", {m}, "either"))
             /\ LET rivals == {x \in Workers : Accepting(x, m)}
                IN  alone' = IF rivals = {} THEN alone \cup {w} ELSE alone \ rivals
        BY <1>3 DEF AcceptOrgInvitation
  <2>2. Starts(w, user, "get", {m}, "either", FALSE, {})
        BY <2>1, <1>c, Begins
  <2>3. Arrives(w, user, "get", {m}, "either")
        BY <2>1, <2>2 DEF Arrives
  <2>4. {m} \in SUBSET Messages
        OBVIOUS
  <2> QED BY <2>1, <2>3, <2>4, <1>c, <1>0
<1>4. CASE DeleteMessage(w)
  <2>1. PICK user \in Users, m \in Messages :
             /\ Receive(w, NewJob(pool[ProxyOf[w]], user, "delete", {m}, "either"))
             /\ alone' = alone
        BY <1>4 DEF DeleteMessage
  <2>2. Starts(w, user, "delete", {m}, "either", FALSE, {})
        BY <2>1, <1>c, Begins
  <2>3. Arrives(w, user, "delete", {m}, "either")
        BY <2>1, <2>2 DEF Arrives
  <2>4. {m} \in SUBSET Messages
        OBVIOUS
  <2> QED BY <2>1, <2>3, <2>4, <1>c, <1>0
<1> QED BY <1>1, <1>2, <1>3, <1>4 DEF Request

\* The call a listing's goroutine begins with, if there is anything to set.
FirstOf(todo) == IF todo = {} THEN "answer" ELSE "modifySelect"

LEMMA Follows ==
    ASSUME TypeOK, NEW w \in Workers, Busy(w), NEW found \in SUBSET Messages,
           NEW todo \in SUBSET Messages, Follow(w, found, todo)
    PROVE  Starts(w, job[w].user, FirstOf(todo), todo, "read", TRUE, found)
<1> DEFINE x == [job[w] EXCEPT !.at = FirstOf(todo), !.todo = todo,
                               !.status = "read", !.rows = {}, !.listing = TRUE,
                               !.answer = found]
<1>1. job[w] \in Job /\ {} \in SUBSET (0 .. MaxMessages) /\ TRUE \in BOOLEAN
      /\ FirstOf(todo) \in Calls /\ "read" \in Filters
      BY JobRecord DEF Calls, Filters, Statuses, FirstOf
<1>4. job' = [job EXCEPT ![w] = x]
      BY DEF Follow, FirstOf
<1>2. x \in Job
      BY <1>1 DEF Job
<1>3. /\ x.user = job[w].user /\ x.at = FirstOf(todo) /\ x.todo = todo
      /\ x.status = "read" /\ x.listing = TRUE /\ x.answer = found
      BY <1>1 DEF Job
<1> HIDE DEF x
<1> QED BY <1>2, <1>3, <1>4, InboxAssumption DEF Starts, TypeOK

\* What a listing does once its page is read: it ends, or starts the goroutine.
LEMMA Queries ==
    ASSUME TypeOK, NEW w \in Workers, QueryMessages(w)
    PROVE  /\ Listed(w) \subseteq Messages /\ ToSetRead(w) \subseteq Listed(w)
           /\ \/ Ends(w)
              \/ Starts(w, job[w].user, FirstOf(ToSetRead(w)), ToSetRead(w), "read", TRUE,
                        Listed(w))
<1>1. Busy(w)
      BY DEF QueryMessages, At
<1>2. Listed(w) \subseteq Messages /\ ToSetRead(w) \subseteq Listed(w)
      BY DEF ToSetRead, Unread, Listed, Matching
<1>3. End(w) \/ Follow(w, Listed(w), ToSetRead(w))
      BY DEF QueryMessages
<1> QED BY <1>1, <1>2, <1>3, Moves, Follows

LEMMA AnswerMoves ==
    ASSUME TypeOK, NEW w \in Workers, Answer(w)
    PROVE  \/ Ends(w) /\ job[w].at = "answer"
           \/ Answers(w) /\ job[w].at # "answer"
<1> DEFINE x == [job[w] EXCEPT !.answer = {}]
<1>1. Busy(w) /\ job[w] \in Job /\ {} \in SUBSET Messages
      BY JobRecord DEF Answer
<1>2. CASE job[w].at = "answer"
      BY <1>1, <1>2, Moves DEF Answer, At
<1>3. CASE job[w].at # "answer"
  <2>1. job' = [job EXCEPT ![w] = x]
        BY <1>3 DEF Answer, At
  <2>2. x \in Job
        BY <1>1 DEF Job
  <2>3. /\ x.user = job[w].user /\ x.at = job[w].at /\ x.todo = job[w].todo
        /\ x.status = job[w].status /\ x.listing = job[w].listing /\ x.answer = {}
        BY <1>1 DEF Job
  <2> HIDE DEF x
  <2> QED BY <1>3, <2>1, <2>2, <2>3, InboxAssumption DEF Answers, TypeOK
<1> QED BY <1>2, <1>3

LEMMA Counts ==
    ASSUME TypeOK, NEW w \in Workers, QueryMessagesCount(w)
    PROVE  Ends(w) \/ Goes(w, "query", job[w].todo)
<1> DEFINE count == Cardinality(Matching(job[w].user, job[w].status))
<1>1. Busy(w) /\ job[w] \in Job
      BY JobRecord DEF QueryMessagesCount, At
<1>2. CASE End(w)
      BY <1>1, <1>2, Moves
<1>3. ASSUME count > 0, NEW page \in Pages, NEW size \in Sizes,
             job' = [job EXCEPT ![w].at = "query", ![w].rows = RowsOf(count, page, size)]
      PROVE  Goes(w, "query", job[w].todo)
  <2> DEFINE rows == RowsOf(count, page, size)
             x == [job[w] EXCEPT !.at = "query", !.rows = rows]
  <2>1. rows \subseteq 0 .. MaxMessages
    <3>1. /\ count \in 0 .. MaxMessages /\ MaxMessages \in Nat
          /\ MaxMessages + MaxSize <= MaxInt64
          BY MatchingCount, InboxAssumption
    <3> HIDE DEF count
    <3>2. /\ MaxInt64 \in Nat /\ MaxSize \in Nat
          /\ page \in Int /\ size \in Int
          BY PagingAssumption, InboxAssumption DEF Int64
    <3>3. count \in Nat \ {0} /\ count + MaxSize <= MaxInt64
          BY <1>3, <3>1, <3>2
    <3>4. rows \subseteq 0 .. count - 1
          BY <3>2, <3>3, ListingAlwaysFits DEF ListingFits
    <3> QED BY <3>1, <3>4
  <2>2. job' = [job EXCEPT ![w] = x]
        BY <1>3
  <2> HIDE DEF rows
  <2>3. x \in Job /\ x # None
        BY <1>1, <2>1, InboxAssumption DEF Job, Calls
  <2>4. /\ x.user = job[w].user /\ x.status = job[w].status
        /\ x.listing = job[w].listing /\ x.answer = job[w].answer
        /\ x.at = "query" /\ x.todo = job[w].todo
        BY <1>1 DEF Job
  <2> HIDE DEF x
  <2> QED BY <2>2, <2>3, <2>4 DEF Goes, TypeOK
<1> QED BY <1>2, <1>3 DEF QueryMessagesCount

\* What a statement of a worker does to its own request.
LEMMA StepMoves ==
    ASSUME TypeOK, NEW w \in Workers, Step(w)
    PROVE  /\ Busy(w) /\ UNCHANGED <<boot, pool, version, collided, created>>
           /\ faults' = faults \/ (faults < MaxFaults /\ faults' = faults + 1)
<1> USE DEF At, Works, Fails, Lost, NoFault, Fault, proxies
<1>1. CASE QueryMessagesCount(w)
      BY <1>1 DEF QueryMessagesCount
<1>2. CASE QueryMessages(w)
      BY <1>2 DEF QueryMessages
<1>3. CASE ModifySelect(w)
      BY <1>3 DEF ModifySelect
<1>4. CASE ModifyUpdate(w)
      BY <1>4 DEF ModifyUpdate
<1>5. CASE GetMessageByUserAndID(w)
      BY <1>5 DEF GetMessageByUserAndID
<1>6. CASE ModifyMessageDataByID(w)
      BY <1>6 DEF ModifyMessageDataByID
<1>7. CASE DeleteUserMessage(w)
      BY <1>7 DEF DeleteUserMessage
<1>8. CASE Answer(w)
      BY <1>8 DEF Answer
<1> QED BY <1>1, <1>2, <1>3, <1>4, <1>5, <1>6, <1>7, <1>8 DEF Step

LEMMA InitIInv ==
    ASSUME Init
    PROVE  IInv
<1>1. TypeOK
  <2>1. pool \in [Proxies -> BOOLEAN] /\ \A p \in Proxies : ~pool[p]
        BY Zenon DEF Init, BootInit
  <2>2. boot \in [Proxies -> Boots] /\ version \in BOOLEAN /\ collided \in BOOLEAN
        BY DEF Init, BootInit, Boots
  <2>3. faults \in 0 .. MaxFaults /\ created \in 0 .. MaxMessages
        BY InboxAssumption DEF Init, BootInit
  <2> QED BY <2>1, <2>2, <2>3 DEF Init, TypeOK, BootTypeOK
<1>2. \A w \in Workers : ~Busy(w)
      BY DEF Init, Busy
<1>3. \A m \in Messages : ~Exists(m)
      BY DEF Init, Exists
<1> QED BY <1>1, <1>2, <1>3 DEF IInv, JobsInOrder, IdsAreCounted, ReadWasSeen,
           AloneIsAlone, AcceptedOnceAlone, Init

\* Everything of a message a request holds on to.
LEMMA CurrentIn ==
    ASSUME TypeOK, JobsInOrder, NEW w \in Workers, Busy(w),
           job[w].at \notin {"count", "query", "answer"}
    PROVE  /\ Current(w) \in job[w].todo /\ Current(w) \in Messages
           /\ job[w].at \in {"get", "putData", "delete"} => job[w].todo = {Current(w)}
<1>1. job[w].todo \subseteq Messages /\ job[w].todo # {} /\ JobInOrder(w)
      BY JobRecord DEF JobsInOrder, JobInOrder
<1>2. Current(w) \in job[w].todo
      BY <1>1, NewestIn DEF Current
<1>3. job[w].at \in {"get", "putData", "delete"} => job[w].todo = {Current(w)}
      BY <1>1, <1>2 DEF JobInOrder
<1> QED BY <1>1, <1>2, <1>3

LEMMA BootsKept ==
    ASSUME BootTypeOK, NEW p \in Proxies,
           \/ BootStep(p) \/ Reconnect(p) \/ PingFails(p)
    PROVE  BootTypeOK'
<1> USE DEF Boot, Boots, NoFault, Fault, IsServing
<1>1. /\ boot' \in [Proxies -> Boots]
      /\ \A q \in Proxies : boot'[q] = "connect" => boot[q] = "connect" /\ q # p
      BY DEF BootTypeOK, BootStep, ConnectDB, TryToCreateTables, SelectVersion,
             OldStatNotMatch, InsertVersion, RetrieveVersion, Reconnect, PingFails
<1>2. faults' \in 0 .. MaxFaults
      BY InboxAssumption DEF BootTypeOK, BootStep, ConnectDB, TryToCreateTables,
         SelectVersion, InsertVersion, RetrieveVersion, Reconnect, PingFails
<1>3. \/ UNCHANGED pool
      \/ \E open \in BOOLEAN : pool' = [pool EXCEPT ![p] = open]
      BY Zenon DEF BootStep, ConnectDB, TryToCreateTables, SelectVersion, InsertVersion,
         RetrieveVersion, Reconnect, PingFails
<1>4. /\ pool' \in [Proxies -> BOOLEAN]
      /\ \A q \in Proxies : q # p => pool'[q] = pool[q]
      BY <1>3, Zenon DEF BootTypeOK
<1>5. version' \in BOOLEAN /\ collided' \in BOOLEAN
  <2>1. version \in BOOLEAN /\ collided \in BOOLEAN
        BY DEF BootTypeOK
  <2>2. version' \in {version, TRUE}
        BY DEF BootStep, ConnectDB, TryToCreateTables, SelectVersion, InsertVersion,
               RetrieveVersion, Reconnect, PingFails
  <2>3. collided' = collided \/ SelectVersion(p)
        BY DEF BootStep, ConnectDB, TryToCreateTables, InsertVersion, RetrieveVersion,
               Reconnect, PingFails
  <2>4. SelectVersion(p) => collided' \in BOOLEAN
        BY Zenon DEF SelectVersion
  <2> QED BY <2>1, <2>2, <2>3, <2>4
<1> QED BY <1>1, <1>2, <1>4, <1>5 DEF BootTypeOK

\* A row is changed in place, goes, or is new.
RowsChange ==
    /\ created' \in Nat /\ created <= created'
    /\ \A m \in Messages : m <= created /\ Exists(m)' =>
           /\ Exists(m) /\ messages'[m].receiver = messages[m].receiver
           /\ m \in seen \cup lost => m \in seen' \cup lost'

LEMMA Writes ==
    ASSUME TypeOK, JobsInOrder, NEW w \in Workers, Step(w)
    PROVE  /\ messages' \in [Messages -> Message \cup {None}]
           /\ seen' \cup lost' \subseteq Messages
           /\ \A m \in Messages : Exists(m)' =>
                  /\ Exists(m) /\ messages'[m].receiver = messages[m].receiver
                  /\ m \in seen \cup lost => m \in seen' \cup lost'
<1> USE DEF Exists
<1>0. /\ messages \in [Messages -> Message \cup {None}] /\ seen \cup lost \subseteq Messages
      /\ Busy(w) /\ job[w] \in Job /\ job[w].answer \subseteq Messages
      BY StepMoves, JobRecord DEF TypeOK
<1>2. CASE QueryMessagesCount(w) \/ QueryMessages(w) \/ ModifySelect(w)
           \/ GetMessageByUserAndID(w)
  <2>1. UNCHANGED <<messages, seen, lost>>
        BY <1>2 DEF QueryMessagesCount, QueryMessages, ModifySelect, GetMessageByUserAndID
  <2> QED BY <2>1, <1>0
<1>3. CASE Answer(w)
  <2>1. /\ UNCHANGED messages
        /\ \E found \in SUBSET job[w].answer :
              \/ seen' = seen \cup found /\ lost' = lost
              \/ lost' = lost \cup found /\ seen' = seen
        BY <1>3 DEF Answer
  <2> QED BY <2>1, <1>0
<1>4. CASE ModifyUpdate(w)
  <2> DEFINE m == Current(w)
             x == [messages[m] EXCEPT !.status = job[w].status]
  <2>1. m \in Messages /\ job[w].status \in Statuses
        BY <1>0, <1>4, CurrentIn DEF ModifyUpdate, At, JobsInOrder, JobInOrder
  <2>2. messages[m] # None => x \in Message /\ x.receiver = messages[m].receiver
        BY <1>0, <2>1 DEF Message
  <2>3. \/ UNCHANGED messages
        \/ messages' = [messages EXCEPT ![m] = IF messages[m] = None THEN None ELSE x]
        BY <1>4 DEF ModifyUpdate
  <2>4. seen \subseteq seen' /\ seen' \subseteq Messages /\ lost' = lost
        BY <1>0, <1>4, <2>1 DEF ModifyUpdate
  <2> HIDE DEF x, m
  <2> QED BY <1>0, <2>1, <2>2, <2>3, <2>4
<1>5. CASE ModifyMessageDataByID(w)
  <2> DEFINE m == Current(w)
             x == [messages[m] EXCEPT !.accepted = TRUE]
  <2>1. m \in Messages
        BY <1>0, <1>5, CurrentIn DEF ModifyMessageDataByID, At
  <2>2. messages[m] # None => x \in Message /\ x.receiver = messages[m].receiver
        BY <1>0, <2>1 DEF Message
  <2>3. \/ UNCHANGED messages
        \/ messages' = [messages EXCEPT ![m] = IF messages[m] = None THEN None ELSE x]
        BY <1>5 DEF ModifyMessageDataByID, WithData
  <2>4. seen' = seen /\ lost' = lost
        BY <1>5 DEF ModifyMessageDataByID
  <2> HIDE DEF x, m
  <2> QED BY <1>0, <2>1, <2>2, <2>3, <2>4
<1>6. CASE DeleteUserMessage(w)
  <2>1. \/ UNCHANGED messages
        \/ messages' = [messages EXCEPT ![Current(w)] = None]
        BY <1>6 DEF DeleteUserMessage
  <2>2. /\ seen' = {n \in seen : messages'[n] # None}
        /\ lost' = {n \in lost : messages'[n] # None}
        BY <1>6 DEF DeleteUserMessage
  <2> QED BY <1>0, <2>1, <2>2
<1> QED BY <1>2, <1>3, <1>4, <1>5, <1>6 DEF Step

LEMMA JobsTyped ==
    ASSUME TypeOK, NEW w \in Workers, Step(w)
    PROVE  job' \in [Workers -> Job \cup {None}]
<1>0. Busy(w)
      BY StepMoves
<1>1. CASE QueryMessagesCount(w)
      BY <1>1, Counts DEF Goes, Ends
<1>2. CASE QueryMessages(w)
      BY <1>2, Queries DEF Ends, Starts
<1>3. CASE ModifySelect(w) \/ ModifyUpdate(w)
  <2>1. Call(w, "modifyUpdate") \/ Modified(w)
        BY <1>3 DEF ModifySelect, ModifyUpdate
  <2> QED BY <1>0, <2>1, Moves DEF Goes, Ends, Calls
<1>4. CASE GetMessageByUserAndID(w) \/ ModifyMessageDataByID(w) \/ DeleteUserMessage(w)
  <2>1. Call(w, "putData") \/ End(w)
        BY <1>4 DEF GetMessageByUserAndID, ModifyMessageDataByID, DeleteUserMessage
  <2> QED BY <1>0, <2>1, Moves DEF Goes, Ends, Calls
<1>5. CASE Answer(w)
      BY <1>5, AnswerMoves DEF Ends, Answers
<1> QED BY <1>1, <1>2, <1>3, <1>4, <1>5 DEF Step

\* A request that is cut off, or whose pool is closed, goes on or not as it was.
LEMMA Interrupts ==
    ASSUME TypeOK, NEW p \in Proxies, ClosePool(p) \/ Restart(p)
    PROVE  /\ job' \in [Workers -> Job \cup {None}]
           /\ UNCHANGED <<messages, created, seen>>
           /\ lost \subseteq lost' /\ lost' \subseteq Messages
           /\ \A w \in Workers : Busy(w)' =>
                 /\ Busy(w)
                 /\ job'[w].at = job[w].at /\ job'[w].todo = job[w].todo
                 /\ job'[w].user = job[w].user /\ job'[w].status = job[w].status
                 /\ job'[w].listing = job[w].listing /\ job'[w].answer = job[w].answer
           /\ ClosePool(p) => alone' = alone /\ (\A w \in Workers : Busy(w) => Busy(w)')
           /\ Restart(p) =>
                 /\ StillAlone
                 /\ \A w \in Workers : Busy(w) =>
                       \/ job'[w] = job[w]
                       \/ \A m \in job[w].answer : Exists(m) => m \in lost'
<1>0. ~(ClosePool(p) /\ Restart(p))
      BY DEF ClosePool, Restart, PingFails, IsServing, TypeOK, BootTypeOK
<1>1. CASE ClosePool(p)
  <2> DEFINE Closed(w) == [job[w] EXCEPT !.db = FALSE]
  <2>1. ASSUME NEW w \in Workers, Busy(w)
        PROVE  /\ Closed(w) \in Job
               /\ Closed(w).at = job[w].at /\ Closed(w).todo = job[w].todo
               /\ Closed(w).user = job[w].user /\ Closed(w).status = job[w].status
               /\ Closed(w).listing = job[w].listing /\ Closed(w).answer = job[w].answer
    <3>1. job[w] \in Job /\ FALSE \in BOOLEAN
          BY <2>1, JobRecord
    <3> QED BY <3>1 DEF Job
  <2>2. /\ job' = [w \in Workers |-> IF Busy(w) /\ ProxyOf[w] = p
                                     THEN Closed(w) ELSE job[w]]
        /\ UNCHANGED <<messages, created, seen, lost, alone>>
        BY <1>1 DEF ClosePool
  <2> HIDE DEF Closed
  <2>3. ASSUME NEW w \in Workers
        PROVE  \/ job'[w] = job[w]
               \/ Busy(w) /\ job'[w] = Closed(w)
        BY <2>2
  <2>4. job' \in [Workers -> Job \cup {None}] /\ lost' \subseteq Messages
        BY <2>1, <2>2 DEF TypeOK
  <2> QED BY <1>0, <1>1, <2>1, <2>2, <2>3, <2>4, InboxAssumption DEF Busy
<1>2. CASE Restart(p)
  <2>1. job' = [w \in Workers |-> IF ProxyOf[w] = p THEN None ELSE job[w]]
        BY <1>2 DEF Restart
  <2>2. UNCHANGED <<messages, created, seen>> /\ StillAlone
        BY <1>2 DEF Restart
  <2>3. lost' = lost \cup {m \in Messages : Exists(m) /\ \E w \in Workers :
                               Busy(w) /\ ProxyOf[w] = p /\ m \in job[w].answer}
        BY <1>2 DEF Restart
  <2>4. lost \subseteq lost' /\ lost' \subseteq Messages
        BY <2>3 DEF TypeOK
  <2>5. ASSUME NEW w \in Workers, Busy(w)
        PROVE  \/ job'[w] = job[w]
               \/ \A m \in job[w].answer : Exists(m) => m \in lost'
    <3>1. job[w].answer \subseteq Messages
          BY <2>5, JobRecord
    <3> QED BY <2>1, <2>3, <2>5, <3>1
  <2>6. /\ job' \in [Workers -> Job \cup {None}]
        /\ \A w \in Workers : Busy(w)' => Busy(w) /\ job'[w] = job[w]
        BY <2>1 DEF TypeOK, Busy
  <2> QED BY <1>0, <1>2, <2>2, <2>4, <2>5, <2>6
<1> QED BY <1>1, <1>2

LEMMA TypeKept ==
    ASSUME TypeOK, JobsInOrder, Next
    PROVE  TypeOK'
<1>1. ASSUME NEW user \in Users, CreateMessage(user)
      PROVE  TypeOK'
  <2>1. [receiver |-> user, status |-> "unread", accepted |-> FALSE] \in Message
        BY Zenon DEF Message, Statuses
  <2>2. created + 1 \in 0 .. MaxMessages
        BY <1>1, InboxAssumption DEF TypeOK, CreateMessage
  <2>3. UNCHANGED <<bootVars, job, seen, lost, alone>> /\ BootTypeOK'
        BY <1>1 DEF CreateMessage, TypeOK, BootTypeOK, bootVars, proxies
  <2>4. messages' \in [Messages -> Message \cup {None}] /\ created' = created + 1
        BY <1>1, <2>1 DEF TypeOK, CreateMessage
  <2> QED BY <2>2, <2>3, <2>4 DEF TypeOK
<1>2. ASSUME NEW w \in Workers, Request(w)
      PROVE  TypeOK'
  <2>1. PICK user \in Users, status \in Filters, call \in Calls, todo \in SUBSET Messages :
             Arrives(w, user, call, todo, status)
        BY <1>2, Arrivals
  <2>2. job' \in [Workers -> Job \cup {None}] /\ alone' \subseteq Workers
        BY <2>1 DEF Arrives, Starts, TypeOK
  <2>3. UNCHANGED <<bootVars, messages, created, seen, lost>> /\ BootTypeOK'
        BY <1>2, Arrivals DEF TypeOK, BootTypeOK, bootVars, proxies
  <2> QED BY <2>2, <2>3 DEF TypeOK
<1>3. ASSUME NEW w \in Workers, Step(w)
      PROVE  TypeOK'
  <2>1. BootTypeOK' /\ created' = created
        BY <1>3, StepMoves, InboxAssumption DEF TypeOK, BootTypeOK
  <2>2. alone' \subseteq alone
        BY <1>3 DEF Step, QueryMessagesCount, QueryMessages, Answer, ModifySelect, ModifyUpdate,
           GetMessageByUserAndID, ModifyMessageDataByID, DeleteUserMessage, StillAlone
  <2> QED BY <1>3, <2>1, <2>2, Writes, JobsTyped DEF TypeOK
<1>4. ASSUME NEW p \in Proxies, BootStep(p) \/ Reconnect(p), UNCHANGED inboxVars
      PROVE  TypeOK'
      BY <1>4, BootsKept DEF TypeOK, inboxVars
<1>5. ASSUME NEW p \in Proxies, ClosePool(p) \/ Restart(p)
      PROVE  TypeOK'
  <2>1. alone' \subseteq alone
        BY <1>5, Interrupts DEF StillAlone
  <2>2. CASE ClosePool(p)
        BY <1>5, <2>1, <2>2, BootsKept, Interrupts DEF TypeOK, ClosePool
  <2>3. CASE Restart(p)
    <3>1. /\ boot' \in [Proxies -> Boots] /\ boot'[p] = "connect"
          /\ \A q \in Proxies : q # p => boot'[q] = boot[q]
          /\ UNCHANGED <<version, collided>> /\ faults' \in 0 .. MaxFaults
          BY <2>3, InboxAssumption DEF Restart, TypeOK, BootTypeOK, Boots, Fault
    <3>2. /\ pool' \in [Proxies -> BOOLEAN] /\ ~pool'[p]
          /\ \A q \in Proxies : q # p => pool'[q] = pool[q]
          BY <2>3, Zenon DEF Restart, TypeOK, BootTypeOK
    <3>3. BootTypeOK'
          BY <3>1, <3>2 DEF TypeOK, BootTypeOK
    <3> QED BY <1>5, <2>1, <3>3, Interrupts DEF TypeOK
  <2> QED BY <1>5, <2>2, <2>3
<1> QED BY <1>1, <1>2, <1>3, <1>4, <1>5 DEF Next

LEMMA RowsKept ==
    ASSUME TypeOK, JobsInOrder, IdsAreCounted, Next
    PROVE  RowsChange /\ IdsAreCounted'
<1> USE DEF RowsChange, IdsAreCounted, Exists
<1>c. created \in Nat /\ MaxMessages \in Nat
      BY InboxAssumption DEF TypeOK
<1>0. UNCHANGED <<messages, created, seen>> /\ lost \subseteq lost' =>
          RowsChange /\ IdsAreCounted'
      BY <1>c
<1>1. ASSUME NEW user \in Users, CreateMessage(user)
      PROVE  RowsChange /\ IdsAreCounted'
      BY <1>1, <1>c DEF CreateMessage, TypeOK, Messages
<1>2. ASSUME NEW w \in Workers, Request(w)
      PROVE  RowsChange /\ IdsAreCounted'
      BY <1>0, <1>2, Arrivals
<1>3. ASSUME NEW w \in Workers, Step(w)
      PROVE  RowsChange /\ IdsAreCounted'
      BY <1>3, <1>c, Writes, StepMoves
<1>4. ASSUME NEW p \in Proxies, ClosePool(p) \/ Restart(p)
      PROVE  RowsChange /\ IdsAreCounted'
      BY <1>0, <1>4, Interrupts
<1>5. UNCHANGED inboxVars => RowsChange /\ IdsAreCounted'
      BY <1>0 DEF inboxVars
<1> QED BY <1>1, <1>2, <1>3, <1>4, <1>5 DEF Next

\* Whatever others write, a request that stays where it is stays in order.
LEMMA JobStays ==
    ASSUME TypeOK, RowsChange, NEW w \in Workers,
           Busy(w), JobInOrder(w),
           job'[w].at = job[w].at, job'[w].todo = job[w].todo,
           job'[w].user = job[w].user, job'[w].status = job[w].status,
           job'[w].listing = job[w].listing, job'[w].answer = job[w].answer
    PROVE  JobInOrder(w)'
<1>1. Current(w)' = Current(w) /\ job[w].todo \subseteq Messages
      /\ job[w].answer \subseteq Messages
      BY JobRecord DEF Current
<1>2. \A m \in Messages : m <= created => m <= created'
      BY InboxAssumption DEF RowsChange, Messages, TypeOK
<1>3. \A m \in job[w].todo :
          m <= created /\ (Exists(m) => m \in seen \cup lost \cup job[w].answer) =>
          m <= created' /\ (Exists(m)' => m \in seen' \cup lost' \cup job'[w].answer)
      BY <1>1, <1>2 DEF RowsChange
<1>5. \A m \in job[w].answer :
          m <= created /\ (Exists(m) => IsTo(m, job[w].user)) =>
          m <= created' /\ (Exists(m)' => IsTo(m, job[w].user)')
      BY <1>1, <1>2 DEF RowsChange, IsTo, Exists
<1>4. job[w].at \in {"modifyUpdate", "putData"} =>
          /\ Current(w) <= created'
          /\ Exists(Current(w))' => IsTo(Current(w), job[w].user)'
  <2> SUFFICES ASSUME job[w].at \in {"modifyUpdate", "putData"}
               PROVE  /\ Current(w) <= created'
                      /\ Exists(Current(w))' => IsTo(Current(w), job[w].user)'
      OBVIOUS
  <2>1. Current(w) \in Messages
        BY <1>1, NewestIn DEF JobInOrder, Current
  <2>2. Current(w) <= created /\ (Exists(Current(w)) => IsTo(Current(w), job[w].user))
        BY DEF JobInOrder
  <2> QED BY <1>1, <1>2, <2>1, <2>2 DEF RowsChange, IsTo, Exists
<1> QED BY <1>1, <1>3, <1>4, <1>5 DEF JobInOrder, IsTo

LEMMA JobsKept ==
    ASSUME TypeOK, JobsInOrder, IdsAreCounted, Next
    PROVE  JobsInOrder'
<1>r. RowsChange
      BY RowsKept
<1>o. ASSUME NEW w \in Workers, job'[w] = job[w], Busy(w)'
      PROVE  JobInOrder(w)'
      BY <1>o, <1>r, JobStays DEF JobsInOrder, Busy
<1>1. ASSUME NEW w \in Workers, Request(w)
      PROVE  JobsInOrder'
  <2>1. PICK user \in Users, status \in Filters, call \in Calls, todo \in SUBSET Messages :
             Arrives(w, user, call, todo, status)
        BY <1>1, Arrivals
  <2>2. JobInOrder(w)'
        BY <2>1 DEF Arrives, Starts, JobInOrder
  <2> QED BY <1>o, <2>1, <2>2 DEF JobsInOrder, Arrives, Starts
<1>2. ASSUME NEW w \in Workers, Step(w)
      PROVE  JobsInOrder'
  <2>0. /\ Busy(w) /\ created' = created /\ JobInOrder(w) /\ job[w].todo \subseteq Messages
        /\ created \in Nat /\ job[w].answer \subseteq Messages
        BY <1>2, StepMoves, JobRecord DEF JobsInOrder, TypeOK
  <2>e. Ends(w) => JobsInOrder'
        BY <1>o DEF Ends, JobsInOrder, Busy
  <2>g. ASSUME NEW call, NEW todo, Goes(w, call, todo), JobInOrder(w)'
        PROVE  JobsInOrder'
        BY <2>g, <1>o DEF Goes, JobsInOrder
  <2>1. CASE QueryMessagesCount(w)
    <3>1. Goes(w, "query", job[w].todo) => JobInOrder(w)'
          BY <2>0, <2>1 DEF Goes, JobInOrder, QueryMessagesCount, At
    <3> QED BY <2>1, <2>e, <2>g, <3>1, Counts
  <2>2. CASE QueryMessages(w)
    <3>1. /\ ToSetRead(w) \subseteq Listed(w) /\ UNCHANGED messages
          /\ \A m \in Listed(w) : m \in Messages /\ m <= created /\ IsTo(m, job[w].user)
          BY <2>2 DEF QueryMessages, ToSetRead, Unread, Listed, Matching, IsTo, IdsAreCounted
    <3>2. ASSUME Starts(w, job[w].user, FirstOf(ToSetRead(w)), ToSetRead(w), "read", TRUE,
                        Listed(w))
          PROVE  JobsInOrder'
      <4>1. /\ job'[w].at = FirstOf(ToSetRead(w)) /\ job'[w].todo = ToSetRead(w)
            /\ job'[w].status = "read" /\ job'[w].listing /\ job'[w].answer = Listed(w)
            /\ job'[w].user = job[w].user
            BY <3>2 DEF Starts
      <4>2. \/ job'[w].at = "answer"
            \/ job'[w].at = "modifySelect" /\ job'[w].todo # {}
            BY <4>1 DEF FirstOf
      <4>3. \A m \in job'[w].answer : m <= created' /\ (Exists(m)' => IsTo(m, job[w].user)')
            BY <2>0, <3>1, <4>1 DEF IsTo, Exists
      <4>4. JobInOrder(w)'
            BY <2>0, <3>1, <4>1, <4>2, <4>3 DEF JobInOrder, Statuses
      <4> QED BY <3>2, <4>4, <1>o DEF Starts, JobsInOrder
    <3> QED BY <2>2, <2>e, <3>2, Queries
  <2>m. ASSUME Modified(w), job[w].at \in {"modifySelect", "modifyUpdate"}
        PROVE  JobsInOrder'
    <3>0. /\ \A m \in job[w].todo :
                 m <= created /\ (Exists(m) => m \in seen \cup lost \cup job[w].answer) =>
                 m <= created' /\ (Exists(m)' => m \in seen' \cup lost' \cup job[w].answer)
          /\ \A m \in job[w].answer :
                 m <= created /\ (Exists(m) => IsTo(m, job[w].user)) =>
                 m <= created' /\ (Exists(m)' => messages'[m].receiver = job[w].user)
          BY <2>0, <1>r DEF RowsChange, IsTo, Exists
    <3>2. ASSUME NEW call, NEW rest, rest \subseteq job[w].todo, Goes(w, call, rest),
                 \/ call = "answer" /\ job[w].answer # {}
                 \/ call = "modifySelect" /\ rest # {}
          PROVE  JobInOrder(w)'
      <4>1. /\ job'[w].at = call /\ job'[w].todo = rest /\ job'[w].answer = job[w].answer
            /\ job'[w].listing = job[w].listing /\ job'[w].status = job[w].status
            /\ job'[w].user = job[w].user
            BY <3>2 DEF Goes
      <4>2. job[w].listing => \A m \in rest :
                m <= created' /\ (Exists(m)' => m \in seen' \cup lost' \cup job'[w].answer)
            BY <2>0, <3>0, <3>2, <4>1 DEF JobInOrder
      <4>3. \A m \in job'[w].answer : m <= created' /\ (Exists(m)' => IsTo(m, job[w].user)')
            BY <2>0, <3>0, <4>1 DEF JobInOrder, IsTo, Exists
      <4>4. job[w].status \in Statuses /\ (job[w].listing => job[w].status = "read")
            /\ (job[w].answer # {} => job[w].listing)
            BY <2>0, <2>m DEF JobInOrder
      <4> QED BY <3>2, <4>1, <4>2, <4>3, <4>4 DEF JobInOrder
    <3>3. \/ Ends(w)
          \/ \E call, rest : /\ rest \subseteq job[w].todo /\ Goes(w, call, rest)
                             /\ \/ call = "answer" /\ job[w].answer # {}
                                \/ call = "modifySelect" /\ rest # {}
      <4>1. job[w].todo \ {Current(w)} \subseteq job[w].todo /\ {} \subseteq job[w].todo
            OBVIOUS
      <4> QED BY <2>0, <2>m, <4>1, Moves
    <3> QED BY <2>e, <2>g, <3>2, <3>3
  <2>3. CASE ModifySelect(w)
    <3>1. CASE Modified(w)
          BY <2>3, <2>m, <3>1 DEF ModifySelect, At
    <3>2. CASE ~Modified(w)
      <4>1. /\ Call(w, "modifyUpdate") /\ IsTo(Current(w), job[w].user)
            /\ UNCHANGED <<messages, seen, lost>> /\ job[w].at = "modifySelect"
            BY <2>3, <3>2 DEF ModifySelect, At
      <4>2. Goes(w, "modifyUpdate", job[w].todo)
            BY <2>0, <4>1, Moves DEF Calls
      <4>3. Current(w)' = Current(w) /\ Current(w) \in Messages /\ Current(w) <= created
        <5>1. Current(w) \in Messages
              BY <2>0, <4>1, CurrentIn
        <5>2. Current(w)' = Current(w)
              BY <4>2 DEF Current, Goes
        <5> QED BY <4>1, <5>1, <5>2 DEF IsTo, IdsAreCounted
      <4>4. JobInOrder(w)'
            BY <2>0, <4>1, <4>2, <4>3 DEF Goes, JobInOrder, IsTo, Exists
      <4> QED BY <2>g, <4>2, <4>4
    <3> QED BY <3>1, <3>2
  <2>4. CASE ModifyUpdate(w)
        BY <2>4, <2>m DEF ModifyUpdate, At
  <2>5. CASE GetMessageByUserAndID(w)
    <3>1. CASE End(w)
          BY <2>0, <2>e, <3>1, Moves
    <3>2. CASE ~End(w)
      <4>1. /\ Call(w, "putData") /\ IsTo(Current(w), job[w].user)
            /\ UNCHANGED <<messages, seen, lost>> /\ job[w].at = "get"
            BY <2>5, <3>2 DEF GetMessageByUserAndID, At, MayAccept
      <4>2. Goes(w, "putData", job[w].todo)
            BY <2>0, <4>1, Moves DEF Calls
      <4>3. Current(w)' = Current(w) /\ Current(w) \in Messages /\ Current(w) <= created
        <5>1. Current(w) \in Messages
              BY <2>0, <4>1, CurrentIn
        <5>2. Current(w)' = Current(w)
              BY <4>2 DEF Current, Goes
        <5> QED BY <4>1, <5>1, <5>2 DEF IsTo, IdsAreCounted
      <4>4. JobInOrder(w)'
            BY <2>0, <4>1, <4>2, <4>3 DEF Goes, JobInOrder, IsTo, Exists
      <4> QED BY <2>g, <4>2, <4>4
    <3> QED BY <3>1, <3>2
  <2>6. CASE ModifyMessageDataByID(w) \/ DeleteUserMessage(w)
        BY <2>0, <2>e, <2>6, Moves DEF ModifyMessageDataByID, DeleteUserMessage
  <2>7. CASE Answer(w)
    <3>1. ASSUME Answers(w), job[w].at # "answer"
          PROVE  JobsInOrder'
      <4>1. /\ job'[w].at = job[w].at /\ job'[w].todo = job[w].todo /\ job'[w].answer = {}
            /\ job'[w].listing = job[w].listing /\ job'[w].status = job[w].status
            /\ job'[w].user = job[w].user
            BY <3>1 DEF Answers
      <4>2. /\ UNCHANGED messages /\ job[w].answer # {}
            /\ \A m \in job[w].answer : Exists(m) => m \in seen' \cup lost'
            /\ seen \cup lost \subseteq seen' \cup lost'
            BY <2>7 DEF Answer
      <4>3. job[w].listing /\ job[w].at \in {"modifySelect", "modifyUpdate"}
            /\ Current(w)' = Current(w)
            BY <2>0, <3>1, <4>1, <4>2 DEF JobInOrder, Current
      <4>a. /\ \A m \in job[w].todo :
                    m <= created /\ (Exists(m) => m \in seen \cup lost \cup job[w].answer)
            /\ job[w].at = "modifyUpdate" =>
                    /\ Current(w) <= created
                    /\ Exists(Current(w)) => IsTo(Current(w), job[w].user)
            BY <2>0, <4>3 DEF JobInOrder
      <4>b. \A m : Exists(m)' <=> Exists(m)
            BY <4>2 DEF Exists
      <4>4. \A m \in job[w].todo :
                m <= created' /\ (Exists(m)' => m \in seen' \cup lost' \cup job'[w].answer)
            BY <2>0, <4>a, <4>b, <4>2
      <4>5. job[w].at = "modifyUpdate" =>
                /\ Current(w)' <= created'
                /\ Exists(Current(w))' => IsTo(Current(w), job[w].user)'
            BY <2>0, <4>1, <4>2, <4>3, <4>a DEF IsTo, Exists
      <4>6. job[w].todo # {} /\ job[w].status = "read" /\ "read" \in Statuses
            BY <2>0, <4>3 DEF JobInOrder, Statuses
      <4>7. JobInOrder(w)'
            BY <4>1, <4>3, <4>4, <4>5, <4>6 DEF JobInOrder
      <4> QED BY <3>1, <4>7, <1>o DEF Answers, JobsInOrder
    <3> QED BY <2>e, <2>7, <3>1, AnswerMoves
  <2> QED BY <1>2, <2>1, <2>2, <2>3, <2>4, <2>5, <2>6, <2>7 DEF Step
<1>3. ASSUME NEW p \in Proxies, ClosePool(p) \/ Restart(p)
      PROVE  JobsInOrder'
      BY <1>3, <1>r, Interrupts, JobStays DEF JobsInOrder
<1>4. ASSUME NEW user \in Users, CreateMessage(user)
      PROVE  JobsInOrder'
      BY <1>4, <1>o DEF JobsInOrder, CreateMessage
<1>5. UNCHANGED inboxVars => JobsInOrder'
      BY <1>o DEF JobsInOrder, inboxVars
<1> QED BY <1>1, <1>2, <1>3, <1>4, <1>5 DEF Next

\* What was shown, or whose answer was lost, or who still waits for it.
Shown(m) == m \in seen \cup lost \/ ToBeShown(m)

\* A worker whose listing is not answered yet still has it, or its messages are
\* shown or lost now.
LEMMA AnswerStays ==
    ASSUME TypeOK, JobsInOrder, Next, NEW w \in Workers, Busy(w), job[w].answer # {}
    PROVE  \/ Busy(w)' /\ job'[w].answer = job[w].answer /\ job'[w].user = job[w].user
           \/ \A m \in job[w].answer : Exists(m) => m \in seen' \cup lost'
<1>0. /\ JobInOrder(w) /\ job[w].listing
      /\ job[w].at \in {"modifySelect", "modifyUpdate", "answer"}
      BY DEF JobsInOrder, JobInOrder
<1>1. ASSUME job'[w] = job[w]
      PROVE  Busy(w)' /\ job'[w].answer = job[w].answer /\ job'[w].user = job[w].user
      BY <1>1 DEF Busy
<1>2. ASSUME NEW x \in Workers, Request(x)
      PROVE  job'[w] = job[w]
  <2>1. x # w
        BY <1>2, Arrivals
  <2> QED BY <1>2, <2>1, Arrivals DEF Arrives, Starts
<1>3. ASSUME NEW x \in Workers, x # w, Step(x)
      PROVE  job'[w] = job[w]
  <2>0. Busy(x)
        BY <1>3, StepMoves
  <2>1. CASE QueryMessagesCount(x)
        BY <1>3, <2>1, Counts DEF Goes, Ends
  <2>2. CASE QueryMessages(x)
        BY <1>3, <2>2, Queries DEF Starts, Ends
  <2>3. CASE Answer(x)
        BY <1>3, <2>3, AnswerMoves DEF Answers, Ends
  <2>4. CASE ModifySelect(x) \/ ModifyUpdate(x)
    <3>1. Call(x, "modifyUpdate") \/ Modified(x)
          BY <2>4 DEF ModifySelect, ModifyUpdate
    <3> QED BY <1>3, <2>0, <3>1, Moves DEF Goes, Ends, Calls
  <2>5. CASE GetMessageByUserAndID(x) \/ ModifyMessageDataByID(x) \/ DeleteUserMessage(x)
    <3>1. Call(x, "putData") \/ End(x)
          BY <2>5 DEF GetMessageByUserAndID, ModifyMessageDataByID, DeleteUserMessage
    <3> QED BY <1>3, <2>0, <3>1, Moves DEF Goes, Ends, Calls
  <2> QED BY <1>3, <2>1, <2>2, <2>3, <2>4, <2>5 DEF Step
<1>4. CASE Step(w)
  <2>1. CASE ModifySelect(w) \/ ModifyUpdate(w)
    <3>1. Call(w, "modifyUpdate") \/ Modified(w)
          BY <2>1 DEF ModifySelect, ModifyUpdate
    <3>2. \E call, todo : Goes(w, call, todo)
          BY <3>1, Moves DEF Calls
    <3> QED BY <3>2 DEF Goes, Busy
  <2>2. CASE Answer(w)
        BY <2>2 DEF Answer
  <2> QED BY <1>0, <1>4, <2>1, <2>2 DEF Step, QueryMessagesCount, QueryMessages,
             GetMessageByUserAndID, ModifyMessageDataByID, DeleteUserMessage, At
<1>5. ASSUME NEW p \in Proxies, ClosePool(p)
      PROVE  Busy(w)' /\ job'[w].answer = job[w].answer /\ job'[w].user = job[w].user
      BY <1>5, Interrupts
<1>6. ASSUME NEW p \in Proxies, Restart(p)
      PROVE  \/ job'[w] = job[w]
             \/ \A m \in job[w].answer : Exists(m) => m \in seen' \cup lost'
      BY <1>6, Interrupts
<1>7. ASSUME NEW user \in Users, CreateMessage(user)
      PROVE  job'[w] = job[w]
      BY <1>7 DEF CreateMessage
<1>8. UNCHANGED inboxVars => job'[w] = job[w]
      BY DEF inboxVars
<1> QED BY <1>1, <1>2, <1>3, <1>4, <1>5, <1>6, <1>7, <1>8 DEF Next

LEMMA ShownStays ==
    ASSUME TypeOK, JobsInOrder, IdsAreCounted, Next, NEW m \in Messages,
           Shown(m), m <= created, Exists(m)'
    PROVE  Shown(m)'
<1>1. /\ Exists(m) /\ messages'[m].receiver = messages[m].receiver
      /\ m \in seen \cup lost => m \in seen' \cup lost'
      BY RowsKept DEF RowsChange
<1>2. CASE m \in seen \cup lost
      BY <1>1, <1>2 DEF Shown
<1>3. CASE ToBeShown(m)
  <2> PICK w \in Workers : Busy(w) /\ m \in job[w].answer /\ IsTo(m, job[w].user)
      BY <1>3 DEF ToBeShown
  <2>1. \/ Busy(w)' /\ job'[w].answer = job[w].answer /\ job'[w].user = job[w].user
        \/ m \in seen' \cup lost'
        BY <1>1, AnswerStays
  <2> QED BY <1>1, <2>1 DEF Shown, ToBeShown, IsTo, Exists
<1> QED BY <1>2, <1>3 DEF Shown

LEMMA SeenKept ==
    ASSUME TypeOK, JobsInOrder, IdsAreCounted, ReadWasSeen, Next
    PROVE  ReadWasSeen'
<1> DEFINE Read(m) == messages[m].status = "read"
<1>s. \A m \in Messages : Exists(m) /\ Read(m) => Shown(m) /\ m <= created
      BY DEF ReadWasSeen, Shown, IdsAreCounted
<1>m. messages \in [Messages -> Message \cup {None}]
      BY DEF TypeOK
<1> SUFFICES ASSUME NEW m \in Messages, Exists(m)', Read(m)'
             PROVE  Shown(m)'
    BY DEF ReadWasSeen, Shown
<1>0. ASSUME Exists(m), Read(m)
      PROVE  Shown(m)'
      BY <1>0, <1>s, ShownStays
<1>1. ASSUME NEW user \in Users, CreateMessage(user)
      PROVE  Exists(m) /\ Read(m)
  <2>1. [receiver |-> user, status |-> "unread", accepted |-> FALSE].status = "unread"
        BY Zenon
  <2>2. messages' = [messages EXCEPT ![created + 1] =
               [receiver |-> user, status |-> "unread", accepted |-> FALSE]]
        BY <1>1 DEF CreateMessage
  <2> QED BY <1>m, <2>1, <2>2 DEF Exists
<1>2. ASSUME messages' = messages
      PROVE  Exists(m) /\ Read(m)
      BY <1>2 DEF Exists
<1>3. ASSUME NEW w \in Workers, Step(w)
      PROVE  Shown(m)'
  <2>0. Busy(w) /\ JobInOrder(w)
        BY <1>3, StepMoves DEF JobsInOrder
  <2>1. CASE QueryMessagesCount(w) \/ QueryMessages(w) \/ Answer(w) \/ ModifySelect(w)
             \/ GetMessageByUserAndID(w)
        BY <1>0, <1>2, <2>1 DEF QueryMessagesCount, QueryMessages, Answer, ModifySelect,
           GetMessageByUserAndID
  <2>3. CASE ModifyUpdate(w)
    <3> DEFINE n == Current(w)
               x == [messages[n] EXCEPT !.status = job[w].status]
    <3>1. n \in job[w].todo /\ n \in Messages /\ job[w].at = "modifyUpdate"
          BY <2>0, <2>3, CurrentIn DEF ModifyUpdate, At
    <3>2. \/ UNCHANGED <<messages, seen>>
          \/ /\ messages' = [messages EXCEPT ![n] = IF messages[n] = None THEN None ELSE x]
             /\ seen' = IF job[w].listing \/ ~IsTo(n, job[w].user) THEN seen
                        ELSE seen \cup {n}
          BY <2>3 DEF ModifyUpdate
\* A row that is there is the user's; one of a listing's goroutine was found.
    <3>3. Exists(n) =>
              /\ IsTo(n, job[w].user) /\ n <= created
              /\ job[w].listing => n \in seen \cup lost \cup job[w].answer
          BY <2>0, <3>1 DEF JobInOrder
    <3>4. CASE m # n \/ UNCHANGED messages
      <4>1. messages'[m] = messages[m]
            BY <1>m, <3>1, <3>2, <3>4
      <4> QED BY <1>0, <4>1 DEF Exists
    <3>5. CASE m = n /\ ~UNCHANGED messages
      <4>1. Exists(n)
            BY <1>m, <3>1, <3>2, <3>5 DEF Exists
      <4>2. CASE job[w].listing
        <5>1. Shown(n)
              BY <2>0, <3>3, <4>1, <4>2 DEF Shown, ToBeShown
        <5> QED BY <3>3, <3>5, <4>1, <5>1, ShownStays
      <4>3. CASE ~job[w].listing
            BY <3>2, <3>3, <3>5, <4>1, <4>3 DEF Shown
      <4> QED BY <4>2, <4>3
    <3> QED BY <3>4, <3>5
  <2>4. CASE ModifyMessageDataByID(w)
    <3> DEFINE n == Current(w)
               x == [messages[n] EXCEPT !.accepted = TRUE]
    <3>1. n \in Messages
          BY <2>0, <2>4, CurrentIn DEF ModifyMessageDataByID, At
    <3>2. messages[n] # None => x.status = messages[n].status
          BY <1>m, <3>1 DEF Message
    <3>3. \/ UNCHANGED messages
          \/ messages' = [messages EXCEPT ![n] = IF messages[n] = None THEN None ELSE x]
          BY <2>4 DEF ModifyMessageDataByID, WithData
    <3> HIDE DEF x, n
    <3>4. Exists(m) /\ Read(m)
          BY <1>m, <3>1, <3>2, <3>3 DEF Exists
    <3> QED BY <1>0, <3>4
  <2>5. CASE DeleteUserMessage(w)
    <3>1. \/ UNCHANGED messages
          \/ messages' = [messages EXCEPT ![Current(w)] = None]
          BY <2>5 DEF DeleteUserMessage
    <3>2. Exists(m) /\ Read(m)
          BY <1>m, <3>1 DEF Exists
    <3> QED BY <1>0, <3>2
  <2> QED BY <1>3, <2>1, <2>3, <2>4, <2>5 DEF Step
<1>4. ASSUME NEW w \in Workers, Request(w)
      PROVE  messages' = messages
      BY <1>4, Arrivals
<1>5. ASSUME NEW p \in Proxies, ClosePool(p) \/ Restart(p)
      PROVE  messages' = messages
      BY <1>5, Interrupts
<1>6. UNCHANGED inboxVars => messages' = messages
      BY DEF inboxVars
<1> QED BY <1>0, <1>1, <1>2, <1>3, <1>4, <1>5, <1>6 DEF Next

\* Where only requests end that were accepting, who was alone still is.
LEMMA AloneStays ==
    ASSUME TypeOK, AloneIsAlone,
           alone' \subseteq alone,
           \A w \in Workers : Busy(w)' /\ job'[w].at \in {"get", "putData"} =>
               /\ Busy(w) /\ job[w].at \in {"get", "putData"}
               /\ job'[w].todo = job[w].todo,
           \A w \in alone' :
               Busy(w)' /\ job'[w].at \in {"get", "putData"} /\ job'[w].todo = job[w].todo
    PROVE  AloneIsAlone'
BY DEF AloneIsAlone, At, Accepting, TypeOK

LEMMA AloneKept ==
    ASSUME TypeOK, JobsInOrder, AloneIsAlone, Next
    PROVE  AloneIsAlone'
<1>a. alone \subseteq Workers
      BY DEF TypeOK
<1>1. ASSUME NEW w \in Workers, Request(w)
      PROVE  AloneIsAlone'
  <2>1. PICK user \in Users, status \in Filters, call \in Calls, todo \in SUBSET Messages :
             Arrives(w, user, call, todo, status)
        BY <1>1, Arrivals
  <2>2. /\ ~Busy(w) /\ w \notin alone
        /\ \A x \in Workers \ {w} : job'[x] = job[x]
        /\ job'[w] # None /\ job'[w].at = call /\ job'[w].todo = todo
        BY <1>1, <2>1, Arrivals DEF AloneIsAlone, At, Arrives, Starts
  <2>3. CASE call # "get"
    <3>1. alone' = alone /\ call # "putData"
          BY <2>1, <2>3 DEF Arrives
    <3> QED BY <1>a, <2>2, <2>3, <3>1 DEF AloneIsAlone, At, Accepting, Busy
  <2>4. CASE call = "get"
    <3>1. PICK m \in Messages :
               /\ todo = {m}
               /\ LET rivals == {x \in Workers : Accepting(x, m)}
                  IN  alone' = IF rivals = {} THEN alone \cup {w} ELSE alone \ rivals
          BY <2>1, <2>4 DEF Arrives
    <3>2. \A x \in Workers \ {w}, n \in Messages : Accepting(x, n)' <=> Accepting(x, n)
          BY <2>2 DEF Accepting, At, Busy
    <3>3. \A x \in alone : x # w /\ job'[x] = job[x] /\ job[x].todo \subseteq Messages
                           /\ (At(x, "get") \/ At(x, "putData"))
          BY <1>a, <2>2, JobRecord DEF AloneIsAlone, At
\* Who is not a rival is about another message.
    <3>4. ASSUME NEW x \in alone, ~Accepting(x, m)
          PROVE  /\ At(x, "get")' \/ At(x, "putData")'
                 /\ \A y \in Workers \ {x}, n \in job'[x].todo : ~Accepting(y, n)'
      <4>1. m \notin job[x].todo
            BY <3>3, <3>4 DEF Accepting
      <4>2. At(x, "get")' \/ At(x, "putData")'
            BY <3>3 DEF At, Busy
      <4>3. ASSUME NEW y \in Workers \ {x}, NEW n \in job'[x].todo
            PROVE  ~Accepting(y, n)'
        <5>1. CASE y = w
              BY <2>2, <3>1, <3>3, <4>1, <4>3, <5>1 DEF Accepting
        <5>2. CASE y # w
              BY <3>2, <3>3, <4>3, <5>2 DEF AloneIsAlone
        <5> QED BY <5>1, <5>2
      <4> QED BY <4>2, <4>3
    <3>5. CASE \A x \in Workers : ~Accepting(x, m)
      <4>1. alone' = alone \cup {w}
            BY <3>1, <3>5
      <4>2. At(w, "get")' /\ \A x \in Workers \ {w}, n \in job'[w].todo : ~Accepting(x, n)'
            BY <2>2, <2>4, <3>1, <3>2, <3>5 DEF At, Busy
      <4> QED BY <1>a, <3>4, <3>5, <4>1, <4>2 DEF AloneIsAlone
    <3>6. CASE \E x \in Workers : Accepting(x, m)
      <4>1. alone' \subseteq alone /\ \A x \in alone' : ~Accepting(x, m)
            BY <1>a, <3>1, <3>6
      <4> QED BY <3>4, <4>1 DEF AloneIsAlone
    <3> QED BY <3>5, <3>6
  <2> QED BY <2>3, <2>4
<1>2. ASSUME NEW w \in Workers, Step(w)
      PROVE  AloneIsAlone'
  <2>0. /\ Busy(w)
        /\ \A x \in alone : Busy(x) /\ job[x].at \in {"get", "putData"}
        BY <1>2, StepMoves DEF AloneIsAlone, At
  <2>e. ASSUME Ends(w), alone' \subseteq alone, w \notin alone'
        PROVE  AloneIsAlone'
        BY <1>a, <2>0, <2>e, AloneStays DEF Ends, Busy
  <2>g. ASSUME NEW call, NEW todo, Goes(w, call, todo), w \notin alone,
               call \notin {"get", "putData"}, alone' = alone
        PROVE  AloneIsAlone'
        BY <1>a, <2>0, <2>g, AloneStays DEF Goes, Busy
  <2>1. CASE QueryMessagesCount(w)
        BY <2>0, <2>1, <2>e, <2>g, Counts DEF QueryMessagesCount, At
  <2>2. CASE QueryMessages(w)
    <3>1. alone' = alone /\ w \notin alone
          BY <2>0, <2>2 DEF QueryMessages, At
    <3>2. \/ Ends(w)
          \/ /\ job'[w] # None /\ job'[w].at \notin {"get", "putData"}
             /\ \A x \in Workers \ {w} : job'[x] = job[x]
          BY <2>2, Queries DEF Starts, FirstOf
    <3> QED BY <1>a, <2>0, <2>e, <3>1, <3>2, AloneStays DEF Busy
  <2>7. CASE Answer(w)
    <3>1. alone' = alone /\ w \in Workers
          BY <2>7 DEF Answer
    <3>2. (Ends(w) /\ job[w].at = "answer") \/ Answers(w)
          BY <2>7, AnswerMoves
    <3>3. Ends(w) /\ job[w].at = "answer" => w \notin alone
          BY <2>0
    <3>4. CASE Answers(w)
          BY <1>a, <2>0, <3>1, <3>4, AloneStays DEF Answers, Busy
    <3> QED BY <2>e, <3>1, <3>2, <3>3, <3>4
  <2>3. CASE ModifySelect(w) \/ ModifyUpdate(w)
    <3>1. alone' = alone /\ w \notin alone /\ (Call(w, "modifyUpdate") \/ Modified(w))
          BY <2>0, <2>3 DEF ModifySelect, ModifyUpdate, At
    <3>2. \/ Ends(w)
          \/ \E call \in {"modifySelect", "modifyUpdate", "answer"} : \E todo :
                 Goes(w, call, todo)
          BY <2>0, <3>1, Moves DEF Calls
    <3> QED BY <2>e, <2>g, <3>1, <3>2
  <2>4. CASE GetMessageByUserAndID(w)
    <3>1. /\ alone' = {x \in alone : job'[x] # None} /\ job[w].at = "get"
          /\ (End(w) \/ Call(w, "putData"))
          BY <2>4 DEF GetMessageByUserAndID, At, StillAlone
    <3>2. Ends(w) \/ Goes(w, "putData", job[w].todo)
          BY <2>0, <3>1, Moves DEF Calls
    <3>3. CASE Ends(w)
          BY <2>e, <3>1, <3>3 DEF Ends
    <3>4. CASE Goes(w, "putData", job[w].todo)
          BY <1>a, <2>0, <3>1, <3>4, AloneStays DEF Goes, Busy
    <3> QED BY <3>2, <3>3, <3>4
  <2>5. CASE ModifyMessageDataByID(w)
        BY <2>0, <2>5, <2>e, Moves DEF ModifyMessageDataByID, StillAlone, Ends
  <2>6. CASE DeleteUserMessage(w)
        BY <2>0, <2>6, <2>e, Moves DEF DeleteUserMessage, At
  <2> QED BY <1>2, <2>1, <2>2, <2>3, <2>4, <2>5, <2>6, <2>7 DEF Step
<1>3. ASSUME NEW p \in Proxies, ClosePool(p) \/ Restart(p)
      PROVE  AloneIsAlone'
      BY <1>a, <1>3, Interrupts, AloneStays DEF StillAlone, Busy, AloneIsAlone, At
<1>4. ASSUME NEW user \in Users, CreateMessage(user)
      PROVE  AloneIsAlone'
      BY <1>4 DEF CreateMessage, AloneIsAlone, At, Accepting, Busy
<1>5. UNCHANGED inboxVars => AloneIsAlone'
      BY DEF inboxVars, AloneIsAlone, At, Accepting, Busy
<1> QED BY <1>1, <1>2, <1>3, <1>4, <1>5 DEF Next

\* Where no row becomes accepted, and none comes to write one, nothing is lost.
RowsUnaccepted ==
    \A m \in Messages : Exists(m)' /\ messages'[m].accepted =>
        Exists(m) /\ messages[m].accepted

LEMMA AcceptedStays ==
    ASSUME TypeOK, AcceptedOnceAlone, RowsUnaccepted,
           \A w \in alone' : At(w, "putData")' =>
               /\ w \in alone /\ w \in Workers
               /\ At(w, "putData") /\ job'[w].todo = job[w].todo
    PROVE  AcceptedOnceAlone'
<1> SUFFICES ASSUME NEW w \in alone', At(w, "putData")',
                    NEW m \in job'[w].todo, Exists(m)', messages'[m].accepted
             PROVE  FALSE
    BY DEF AcceptedOnceAlone
<1>1. /\ w \in alone /\ w \in Workers
      /\ At(w, "putData") /\ job'[w].todo = job[w].todo
      OBVIOUS
<1>2. m \in Messages
      BY <1>1, JobRecord DEF At
<1>3. Exists(m) /\ messages[m].accepted
      BY <1>2 DEF RowsUnaccepted
<1> QED BY <1>1, <1>3 DEF AcceptedOnceAlone

LEMMA AcceptedKept ==
    ASSUME TypeOK, JobsInOrder, AloneIsAlone, AcceptedOnceAlone, Next
    PROVE  AcceptedOnceAlone'
<1>a. alone \subseteq Workers
      BY DEF TypeOK
<1>0. messages' = messages => RowsUnaccepted
      BY DEF RowsUnaccepted, Exists
<1>1. ASSUME NEW user \in Users, CreateMessage(user)
      PROVE  AcceptedOnceAlone'
  <2>1. [receiver |-> user, status |-> "unread", accepted |-> FALSE].accepted = FALSE
        BY Zenon
  <2>2. /\ UNCHANGED <<job, alone>> /\ messages \in [Messages -> Message \cup {None}]
        /\ messages' = [messages EXCEPT ![created + 1] =
               [receiver |-> user, status |-> "unread", accepted |-> FALSE]]
        BY <1>1 DEF CreateMessage, TypeOK
  <2>3. RowsUnaccepted
        BY <2>1, <2>2 DEF RowsUnaccepted, Exists
  <2> QED BY <1>a, <2>2, <2>3, AcceptedStays DEF At, Busy
<1>2. ASSUME NEW w \in Workers, Request(w)
      PROVE  AcceptedOnceAlone'
  <2>1. PICK user \in Users, status \in Filters, call \in Calls, todo \in SUBSET Messages :
             Arrives(w, user, call, todo, status)
        BY <1>2, Arrivals
  <2>2. /\ job'[w].at = call /\ call # "putData"
        /\ \A x \in Workers \ {w} : job'[x] = job[x]
        /\ alone' \subseteq alone \cup {w}
        BY <2>1 DEF Arrives, Starts
  <2>3. RowsUnaccepted
        BY <1>0, <1>2, Arrivals
  <2> QED BY <1>a, <2>2, <2>3, AcceptedStays DEF At, Busy
<1>3. ASSUME NEW w \in Workers, Step(w)
      PROVE  AcceptedOnceAlone'
  <2>0. Busy(w) /\ JobInOrder(w) /\ messages \in [Messages -> Message \cup {None}]
        BY <1>3, StepMoves DEF JobsInOrder, TypeOK
  <2>m. /\ alone' \subseteq alone
        /\ (\A x \in Workers \ {w} : job'[x] = job[x])
        /\ (At(w, "putData")' => job[w].at = "get")
    <3>1. alone' \subseteq alone
          BY <1>3 DEF Step, QueryMessagesCount, QueryMessages, Answer, ModifySelect, ModifyUpdate,
             GetMessageByUserAndID, ModifyMessageDataByID, DeleteUserMessage, StillAlone
    <3>2. CASE QueryMessagesCount(w)
          BY <3>1, <3>2, Counts DEF Goes, Ends, At, Busy
    <3>3. CASE QueryMessages(w)
      <4>1. \/ Ends(w)
            \/ /\ job'[w].at # "putData"
               /\ \A x \in Workers \ {w} : job'[x] = job[x]
            BY <3>3, Queries DEF Starts, FirstOf
      <4> QED BY <3>1, <4>1 DEF Ends, At, Busy
    <3>4. CASE ModifySelect(w) \/ ModifyUpdate(w)
      <4>1. Call(w, "modifyUpdate") \/ Modified(w)
            BY <3>4 DEF ModifySelect, ModifyUpdate
      <4>2. \/ Ends(w)
            \/ \E call \in {"modifySelect", "modifyUpdate", "answer"} : \E todo :
                   Goes(w, call, todo)
            BY <2>0, <4>1, Moves DEF Calls
      <4> QED BY <3>1, <4>2 DEF Ends, Goes, At, Busy
    <3>5. CASE GetMessageByUserAndID(w)
      <4>1. job[w].at = "get" /\ (End(w) \/ Call(w, "putData"))
            BY <3>5 DEF GetMessageByUserAndID, At
      <4> QED BY <2>0, <3>1, <4>1, Moves DEF Ends, Goes, Calls
    <3>6. CASE ModifyMessageDataByID(w) \/ DeleteUserMessage(w)
      <4>1. End(w)
            BY <3>6 DEF ModifyMessageDataByID, DeleteUserMessage
      <4> QED BY <2>0, <3>1, <4>1, Moves DEF Ends, At, Busy
    <3>7. CASE Answer(w)
      <4>1. job[w].at \in {"modifySelect", "modifyUpdate", "answer"}
            BY <2>0, <3>7 DEF Answer, JobInOrder
      <4>2. Ends(w) \/ Answers(w)
            BY <3>7, AnswerMoves
      <4> QED BY <3>1, <4>1, <4>2 DEF Ends, Answers, At, Busy
    <3> QED BY <1>3, <3>2, <3>3, <3>4, <3>5, <3>6, <3>7 DEF Step
  <2>k. ASSUME RowsUnaccepted, job[w].at # "get"
        PROVE  AcceptedOnceAlone'
        BY <1>a, <2>k, <2>m, AcceptedStays DEF At, Busy
  <2>1. CASE QueryMessagesCount(w) \/ QueryMessages(w) \/ Answer(w) \/ ModifySelect(w)
    <3>1. messages' = messages /\ job[w].at # "get"
          BY <2>0, <2>1 DEF QueryMessagesCount, QueryMessages, Answer, ModifySelect, At,
             JobInOrder
    <3> QED BY <1>0, <2>k, <3>1
  <2>2. CASE ModifyUpdate(w)
    <3> DEFINE m == Current(w)
               x == [messages[m] EXCEPT !.status = job[w].status]
    <3>1. m \in Messages /\ job[w].at = "modifyUpdate"
          BY <2>0, <2>2, CurrentIn DEF ModifyUpdate, At
    <3>2. messages[m] # None => x.accepted = messages[m].accepted
          BY <2>0, <3>1 DEF Message
    <3>3. \/ UNCHANGED messages
          \/ messages' = [messages EXCEPT ![m] = IF messages[m] = None THEN None ELSE x]
          BY <2>2 DEF ModifyUpdate
    <3> HIDE DEF x, m
    <3>4. RowsUnaccepted
          BY <2>0, <3>1, <3>2, <3>3 DEF RowsUnaccepted, Exists
    <3> QED BY <2>k, <3>1, <3>4
  <2>3. CASE DeleteUserMessage(w)
    <3>1. /\ job[w].at = "delete"
          /\ \/ UNCHANGED messages
             \/ messages' = [messages EXCEPT ![Current(w)] = None]
          BY <2>3 DEF DeleteUserMessage, At
    <3>2. RowsUnaccepted
          BY <2>0, <3>1 DEF RowsUnaccepted, Exists
    <3> QED BY <2>k, <3>1, <3>2
\* What is not accepted when it is read is not when it is about to be written.
  <2>4. CASE GetMessageByUserAndID(w)
    <3>1. /\ UNCHANGED messages /\ job[w].at = "get"
          /\ \/ MayAccept(Current(w), job[w].user) /\ Call(w, "putData")
             \/ End(w)
          BY <2>4 DEF GetMessageByUserAndID, At
    <3>2. CASE End(w)
      <4>1. Ends(w)
            BY <2>0, <3>2, Moves
      <4> QED BY <1>0, <1>a, <2>m, <3>1, <4>1, AcceptedStays DEF Ends, At, Busy
    <3>3. CASE MayAccept(Current(w), job[w].user) /\ Call(w, "putData")
      <4>1. job'[w].todo = {Current(w)} /\ ~messages[Current(w)].accepted
            BY <2>0, <3>1, <3>3, Moves, CurrentIn DEF Goes, Calls, MayAccept
      <4> QED BY <1>a, <2>m, <3>1, <4>1 DEF AcceptedOnceAlone, At, Busy, Exists
    <3> QED BY <3>1, <3>2, <3>3
\* The message one writes is in no list of another that is alone.
  <2>5. CASE ModifyMessageDataByID(w)
    <3> DEFINE m == Current(w)
               y == [messages[m] EXCEPT !.accepted = TRUE]
    <3>1. m \in Messages /\ m \in job[w].todo /\ Accepting(w, m)
          BY <2>0, <2>5, CurrentIn DEF ModifyMessageDataByID, At, Accepting
    <3>2. /\ \/ UNCHANGED messages
             \/ messages' = [messages EXCEPT ![m] = IF messages[m] = None THEN None ELSE y]
          /\ Ends(w)
          /\ alone' = {x \in alone : job'[x] # None}
          BY <2>0, <2>5, Moves DEF ModifyMessageDataByID, WithData, StillAlone
    <3>3. \A n \in Messages \ {m} : messages'[n] = messages[n]
          BY <2>0, <3>2
    <3>4. ASSUME NEW x \in alone', At(x, "putData")', NEW n \in job'[x].todo, Exists(n)'
          PROVE  ~messages'[n].accepted
      <4>1. x \in alone /\ x \in Workers /\ x # w /\ job'[x] = job[x]
            BY <1>a, <3>2 DEF Ends
      <4>2. At(x, "putData") /\ n \in job[x].todo /\ n \in Messages
            BY <3>4, <4>1, JobRecord DEF At, Busy
      <4>3. n # m
            BY <2>0, <3>1, <4>1, <4>2 DEF AloneIsAlone
      <4>4. messages'[n] = messages[n] /\ Exists(n)
            BY <3>3, <3>4, <4>2, <4>3 DEF Exists
      <4> QED BY <4>1, <4>2, <4>4 DEF AcceptedOnceAlone
    <3> QED BY <3>4 DEF AcceptedOnceAlone
  <2> QED BY <1>3, <2>1, <2>2, <2>3, <2>4, <2>5 DEF Step
<1>4. ASSUME NEW p \in Proxies, ClosePool(p) \/ Restart(p)
      PROVE  AcceptedOnceAlone'
  <2>1. RowsUnaccepted /\ alone' \subseteq alone
        BY <1>0, <1>4, Interrupts DEF StillAlone
  <2> QED BY <1>4, <1>a, <2>1, Interrupts, AcceptedStays DEF At
<1>5. UNCHANGED inboxVars => AcceptedOnceAlone'
      BY DEF inboxVars, AcceptedOnceAlone, At, Busy, Exists
<1> QED BY <1>1, <1>2, <1>3, <1>4, <1>5 DEF Next
-----------------------------------------------------------------------------
LEMMA InvariantHolds == Spec => []IInv
<1>1. Init => IInv
      BY InitIInv
<1>2. IInv /\ [Next]_vars => IInv'
  <2>1. IInv /\ Next => IInv'
        BY TypeKept, RowsKept, JobsKept, SeenKept, AloneKept, AcceptedKept DEF IInv
  <2>2. ASSUME IInv, UNCHANGED vars
        PROVE  IInv'
    <3> USE <2>2 DEF IInv, vars, bootVars, proxies, inboxVars, Exists, Busy
    <3>1. TypeOK'
          BY DEF TypeOK, BootTypeOK
    <3>2. JobsInOrder'
          BY DEF JobsInOrder, JobInOrder, Current, IsTo
    <3>3. IdsAreCounted' /\ ReadWasSeen'
          BY DEF IdsAreCounted, ReadWasSeen, ToBeShown, IsTo
    <3>4. AloneIsAlone' /\ AcceptedOnceAlone'
          BY DEF AloneIsAlone, AcceptedOnceAlone, At, Accepting
    <3> QED BY <3>1, <3>2, <3>3, <3>4
  <2> QED BY <2>1, <2>2
<1> QED BY <1>1, <1>2, PTL DEF Spec

\* The rows of DF_MESSAGE, the requests and the pools keep their types.
THEOREM TypeCorrect == Spec => []TypeOK
  BY InvariantHolds, PTL DEF IInv

\* A message is read only once it was shown to its receiver or set read by
\* them, or while a listing of theirs is about to show it (GetMyMessages,
\* modifyUserMessage), but for those of a listing whose answer was lost: the
\* listing's goroutine works on what the listing found, which was the
\* receiver's, and an id is not given to a second message.
THEOREM ReadOnlyIfSeen == Spec => []ReadWasSeen
  BY InvariantHolds, PTL DEF IInv

\* Where no other request accepts the same invitation meanwhile, what is about
\* to be marked accepted was not (ModifyMessage_Custom in message.go).
THEOREM AcceptedOnce == Spec => []AcceptedOnceAlone
  BY InvariantHolds, PTL DEF IInv

\* A message changes, or goes, by a step of a request of its receiver alone
\* (modifyUserMessage, modifyMessageDataByID, deleteUserMessage): what a select
\* found to be the user's is theirs when the update by id comes, or is gone.
THEOREM ReceiverOnly == Spec => OnlyItsReceiver
<1> DEFINE Rightly ==
        \A m \in Messages : Exists(m) /\ messages'[m] # messages[m] =>
            \E w \in Workers :
                /\ Busy(w) /\ job'[w] # job[w]
                /\ m \in job[w].todo
                /\ IsTo(m, job[w].user)
<1>1. IInv /\ [Next]_vars => [Rightly]_vars
  <2> SUFFICES ASSUME IInv, Next
               PROVE  Rightly
      OBVIOUS
  <2> USE DEF IInv
  <2>0. UNCHANGED messages => Rightly
        OBVIOUS
  <2>1. ASSUME NEW user \in Users, CreateMessage(user)
        PROVE  Rightly
    <3>1. created + 1 \in Messages => ~Exists(created + 1)
          BY InboxAssumption DEF IdsAreCounted, TypeOK
    <3>2. \A m \in Messages : m # created + 1 => messages'[m] = messages[m]
          BY <2>1 DEF CreateMessage, TypeOK
    <3> QED BY <3>1, <3>2
  <2>2. ASSUME NEW w \in Workers, Step(w)
        PROVE  Rightly
    <3>0. Busy(w) /\ JobInOrder(w) /\ messages \in [Messages -> Message \cup {None}]
          BY <2>2, StepMoves DEF JobsInOrder, TypeOK
    <3>1. CASE QueryMessagesCount(w) \/ QueryMessages(w) \/ Answer(w) \/ ModifySelect(w)
               \/ GetMessageByUserAndID(w)
          BY <2>0, <3>1 DEF QueryMessagesCount, QueryMessages, Answer, ModifySelect,
             GetMessageByUserAndID
    <3>2. CASE ModifyUpdate(w) \/ ModifyMessageDataByID(w) \/ DeleteUserMessage(w)
      <4>1. Current(w) \in job[w].todo /\ Current(w) \in Messages
            BY <3>0, <3>2, CurrentIn DEF ModifyUpdate, ModifyMessageDataByID,
               DeleteUserMessage, At
      <4>2. \A m \in Messages \ {Current(w)} : messages'[m] = messages[m]
            BY <3>0, <3>2, <4>1 DEF ModifyUpdate, ModifyMessageDataByID, WithData,
               DeleteUserMessage
      <4>3. Exists(Current(w)) /\ messages'[Current(w)] # messages[Current(w)] =>
                IsTo(Current(w), job[w].user)
            BY <3>0, <3>2, <4>1 DEF ModifyUpdate, ModifyMessageDataByID,
               DeleteUserMessage, Deletes, JobInOrder, At
      <4>4. job'[w] # job[w]
        <5>1. (Modified(w) /\ job[w].at = "modifyUpdate") \/ End(w)
              BY <3>2 DEF ModifyUpdate, ModifyMessageDataByID, DeleteUserMessage, At
        <5>2. \/ Ends(w)
              \/ job[w].at = "modifyUpdate" /\ job'[w].at \in {"modifySelect", "answer"}
              BY <3>0, <5>1, Moves DEF Goes
        <5> QED BY <3>0, <5>2 DEF Ends, Busy
      <4> QED BY <3>0, <4>1, <4>2, <4>3, <4>4
    <3> QED BY <2>2, <3>1, <3>2 DEF Step
  <2>3. ASSUME NEW w \in Workers, Request(w)
        PROVE  Rightly
        BY <2>0, <2>3, Arrivals
  <2>4. ASSUME NEW p \in Proxies, ClosePool(p) \/ Restart(p)
        PROVE  Rightly
        BY <2>0, <2>4, Interrupts
  <2>5. UNCHANGED inboxVars => Rightly
        BY <2>0 DEF inboxVars
  <2> QED BY <2>1, <2>2, <2>3, <2>4, <2>5 DEF Next
<1> QED BY <1>1, InvariantHolds, PTL DEF OnlyItsReceiver, Spec
=============================================================================
