------------------------- MODULE VolumesClientProofs -------------------------
(***************************************************************************)
(* What holds of VolumesClient for every set of claims and requests and    *)
(* every bound: each step of the composition is a step of Volumes or       *)
(* leaves its variables alone, so that what is proved of Volumes holds     *)
(* whatever the admin client does; and late calls have their client.       *)
(***************************************************************************)
EXTENDS VolumesClient, VolumesProofs

-----------------------------------------------------------------------------
(* The composition implements Volumes.                                     *)

\* Each call, sent or not, is a step of its request in Volumes.
LEMMA ProxyStepIsStep ==
    ASSUME NEW r \in Requests, ProxyStep(r)
    PROVE  Step(r)
<1>1. Sent(r) => AdminCall(r) \/ UserCall(r) \/ HeketiCall(r)
      BY DEF Sent
<1>2. TokenIsBlank(r) \/ GoroutinePanics(r) => AdminCall(r)
      BY DEF TokenIsBlank, GoroutinePanics
<1>3. HandlerPanics(r) => UserCall(r)
      BY DEF HandlerPanics, UserCall
<1> QED BY <1>1, <1>2, <1>3 DEF ProxyStep, AdminCall, UserCall, HeketiCall, Step

\* Every step of the composition is one of Volumes, or none.
LEMMA ClientStepIsStep == [ClientNext]_allVars => [Next]_vars
<1> SUFFICES ASSUME [ClientNext]_allVars PROVE [Next]_vars
    OBVIOUS
<1>1. CASE UNCHANGED allVars
      BY <1>1 DEF allVars
<1>2. ASSUME NEW r \in Requests, ProxyStep(r) PROVE Next
      BY <1>2, ProxyStepIsStep DEF Next
<1>3. ASSUME NEW r \in Requests, ReceiveCreate(r) \/ ReceiveDelete(r) PROVE Next
      BY <1>3 DEF Next
<1>4. ASSUME NEW c \in Claims, Bind(c) PROVE Next
      BY <1>4 DEF Next
<1>5. CASE ClientStep /\ UNCHANGED <<vars, rest>>
      BY <1>5
<1>6. CASE Die \/ Kill
      BY <1>6 DEF Die, Kill, Reborn, Next
<1> QED BY <1>1, <1>2, <1>3, <1>4, <1>5, <1>6 DEF ClientNext

\* With the admin client in between, missing, without a token or with half of
\* it, the volume API does nothing that Volumes does not do.
THEOREM ClientImplementsVolumes == ClientSpec => Spec
<1>1. ClientInit => Init
      BY DEF ClientInit
<1> QED BY <1>1, ClientStepIsStep, PTL DEF ClientSpec, Spec

\* So no PV points to a volume that is gone, there too.
THEOREM VolumesKeptByClient == ClientSpec => []PVHasVolume
      BY ClientImplementsVolumes, VolumesKept, PTL
-----------------------------------------------------------------------------
(* Types, and the client of late calls.                                    *)

LEMMA FaultsGrow == TypeOK /\ [Next]_vars => faults' - faults \in {0, 1}
<1> SUFFICES ASSUME TypeOK, [Next]_vars PROVE faults' = faults \/ faults' = faults + 1
    BY VolumeAssumption DEF TypeOK
<1>1. CASE UNCHANGED vars
      BY <1>1 DEF vars
<1>2. ASSUME NEW r \in Requests, Step(r)
      PROVE  faults' = faults \/ faults' = faults + 1
      BY <1>2 DEF Step, ClusterList, PostClaim, DeleteClaim, CreateVolume, PostPV, Undo,
         GetClaim, PutClaim, GetPV, DeletePV, DeleteVolume, NoFault, Fault
<1>3. ASSUME NEW r \in Requests, ReceiveCreate(r) \/ ReceiveDelete(r)
      PROVE  faults' = faults
      BY <1>3 DEF ReceiveCreate, ReceiveDelete, Receive
<1>4. (\E c \in Claims : Bind(c)) => faults' = faults
      BY DEF Bind
<1>5. Restart => faults' = faults + 1
      BY DEF Restart, Fault
<1> QED BY <1>1, <1>2, <1>3, <1>4, <1>5 DEF Next

LEMMA ClientTypeStep ==
    ClientVolumesTypeOK /\ [ClientNext]_allVars => ClientVolumesTypeOK'
<1> SUFFICES ASSUME ClientVolumesTypeOK, [ClientNext]_allVars
             PROVE  ClientVolumesTypeOK'
    OBVIOUS
<1>1. TypeOK'
      BY ClientStepIsStep, TypeStep DEF ClientVolumesTypeOK
<1>2. CASE UNCHANGED allVars
      BY <1>1, <1>2 DEF allVars, client, rest, ClientVolumesTypeOK, ClientTypeOK
<1>3. ASSUME NEW r \in Requests, ProxyStep(r) PROVE ClientVolumesTypeOK'
  <2>1. CASE Sent(r)
    <3>1. failures' \in 0 .. MaxFailures
      <4>1. faults' - faults \in {0, 1}
            BY ClientStepIsStep, FaultsGrow DEF ClientVolumesTypeOK
      <4>2. failures' = failures + (faults' - faults) /\ failures' <= MaxFailures
            BY <2>1 DEF Sent, Counted
      <4> QED BY <4>1, <4>2, ClientAssumption DEF ClientVolumesTypeOK
    <3> QED BY <1>1, <2>1, <3>1 DEF Sent, client, ClientVolumesTypeOK, ClientTypeOK
  <2>2. CASE TokenIsBlank(r) \/ HandlerPanics(r) \/ GoroutinePanics(r)
    <3>1. /\ UNCHANGED <<client, failures, died>>
          /\ unsent' = unsent \cup {r}
          /\ panicking' = panicking \/ panicking' = panicking \cup {r}
          BY <2>2 DEF TokenIsBlank, HandlerPanics, GoroutinePanics, Unsent
    <3>2. panicking' \subseteq unsent' /\ unsent' \subseteq Requests
          BY <3>1 DEF ClientVolumesTypeOK
    <3> QED BY <1>1, <3>1, <3>2 DEF client, ClientVolumesTypeOK, ClientTypeOK
  <2> QED BY <1>3, <2>1, <2>2 DEF ProxyStep
<1>4. CASE UNCHANGED <<client, rest>>
      BY <1>1, <1>4 DEF client, rest, ClientVolumesTypeOK, ClientTypeOK
<1>5. CASE ClientStep /\ UNCHANGED <<vars, rest>>
  <2>1. ClientTypeOK'
        BY <1>5 DEF ClientStep, newOpenshiftClient, Publish, TokenGranted, TokenRefused,
           StoreToken, Awake, ClientVolumesTypeOK, ClientTypeOK
  <2> QED BY <1>1, <1>5, <2>1 DEF rest, ClientVolumesTypeOK
<1>6. CASE Die \/ Kill
  <2>1. ClientTypeOK' /\ panicking' = {} /\ unsent' = unsent
        BY <1>6 DEF Die, Kill, Reborn, ClientTypeOK
  <2>2. \/ failures' = failures
        \/ failures < MaxFailures /\ failures' = failures + 1
        BY <1>6, Zenon DEF Die, Kill
  <2>3. failures' \in 0 .. MaxFailures
        BY <2>2, ClientAssumption DEF ClientVolumesTypeOK
  <2>4. died' = TRUE \/ died' = died
        BY <1>6, Zenon DEF Die, Kill
  <2>5. died' \in BOOLEAN
        BY <2>4, Zenon DEF ClientVolumesTypeOK
  <2> QED BY <1>1, <2>1, <2>3, <2>5, Zenon DEF ClientVolumesTypeOK
<1> QED BY <1>2, <1>3, <1>4, <1>5, <1>6 DEF ClientNext

LEMMA ClientTypeInit == ClientInit => ClientVolumesTypeOK
<1> SUFFICES ASSUME ClientInit PROVE ClientVolumesTypeOK
    OBVIOUS
<1>1. TypeOK
      BY InitIInv DEF ClientInit, IInv
<1>2. ClientTypeOK
      BY Zenon DEF ClientInit, NoClient, ClientTypeOK
<1>3. failures \in 0 .. MaxFailures
      BY ClientAssumption DEF ClientInit
<1>4. panicking \subseteq unsent /\ unsent \subseteq Requests
      BY DEF ClientInit
<1>5. died \in BOOLEAN
      BY Zenon DEF ClientInit
<1> QED BY <1>1, <1>2, <1>3, <1>4, <1>5, Zenon DEF ClientVolumesTypeOK

\* Every variable of the composition keeps its type.
THEOREM ClientTypeCorrect == ClientSpec => []ClientVolumesTypeOK
BY ClientTypeInit, ClientTypeStep, PTL DEF ClientSpec

\* The client stays while the process lives, and a late call follows one that
\* needed the client.
LEMMA LateCallFollows ==
    ASSUME ClientVolumesTypeOK, NEW r \in Requests, ProxyStep(r), ~theOC,
           job'[r].work \in LateCalls
    PROVE  job[r].work \in LateCalls
<1>1. job[r] \in Job /\ job \in [Requests -> Job \cup {None}]
      BY ProxyStepIsStep, OneJob DEF ClientVolumesTypeOK, TypeOK
<1>w. \A call : Work(r, call) => job'[r].work = call
      BY <1>1 DEF Work, Job
<1>m. \A call : Main(r, call) => job'[r].work = job[r].work
      BY <1>1 DEF Main, Job
<1>s. Stop(r) => job'[r].work = "none"
      BY <1>1 DEF Stop, Ended, Job
<1>1a. faults \in Nat
      BY VolumeAssumption DEF ClientVolumesTypeOK, TypeOK
<1>2. CASE HeketiCall(r)
  <2>1. CASE ClusterList(r)
    <3>1. \/ Main(r, "done")
          \/ job'[r] = [job[r] EXCEPT !.main = "postClaim", !.work = "createVolume"]
          BY <1>1, <2>1 DEF ClusterList
    <3> QED BY <1>1, <1>m, <3>1 DEF Job, LateCalls
  <2>2. CASE CreateVolume(r)
        BY <1>w, <1>s, <2>2 DEF CreateVolume, LateCalls
  <2>3. CASE Undo(r) \/ DeleteVolume(r)
        BY <1>s, <2>3 DEF Undo, DeleteVolume, LateCalls
  <2> QED BY <1>2, <2>1, <2>2, <2>3 DEF HeketiCall
<1>3. CASE HandlerPanics(r)
  <2>1. faults' # faults
        BY <1>1a, <1>3 DEF HandlerPanics, Unsent
  <2>2. Main(r, "done")
        BY <1>3, <2>1 DEF HandlerPanics, PostClaim, DeleteClaim, NoFault
  <2> QED BY <1>m, <2>2
<1>4. CASE GoroutinePanics(r)
  <2>1. faults' # faults
        BY <1>1a, <1>4 DEF GoroutinePanics, Unsent
  <2>2. CASE PostPV(r)
        BY <1>w, <2>1, <2>2 DEF PostPV, NoFault, LateCalls
  <2>3. CASE GetPV(r) \/ DeletePV(r)
        BY <2>3 DEF GetPV, DeletePV, WorkAt, LateCalls
  <2> QED BY <1>4, <2>2, <2>3 DEF GoroutinePanics, AdminCall
<1>5. ~TokenIsBlank(r) /\ (Sent(r) => HeketiCall(r))
      BY DEF TokenIsBlank, Blank, Sent, Sends
<1> QED BY <1>2, <1>3, <1>4, <1>5 DEF ProxyStep

LEMMA ProxyStepKeepsClient ==
    ASSUME ClientVolumesTypeOK, LateCallsHaveClient, NEW r \in Requests, ProxyStep(r)
    PROVE  LateCallsHaveClient'
<1>1. theOC' = theOC
      BY DEF ProxyStep, Sent, TokenIsBlank, HandlerPanics, GoroutinePanics, Unsent, client
<1>2. job[r] \in Job /\ job'[r] \in Job /\ \A q \in Requests : q # r => job'[q] = job[q]
      BY ProxyStepIsStep, OneJob DEF ClientVolumesTypeOK
<1> SUFFICES ASSUME NEW q \in Requests, NEW call \in LateCalls, WorkAt(q, call)'
             PROVE  theOC
    BY <1>1 DEF LateCallsHaveClient
<1>3. CASE q # r
      BY <1>2, <1>3 DEF LateCallsHaveClient, WorkAt, Received
<1>4. CASE q = r
  <2>1. job'[r].work \in LateCalls
        BY <1>4 DEF WorkAt
  <2>2. ~theOC => job[r].work \in LateCalls
        BY <2>1, LateCallFollows
  <2>3. job[r] # None
        BY <1>2, VolumeAssumption
  <2> QED BY <2>2, <2>3 DEF LateCallsHaveClient, WorkAt, Received
<1> QED BY <1>3, <1>4

\* No goroutine that has a late call to make can find the client missing.
THEOREM LateCallsKeepClient == ClientSpec => []LateCallsHaveClient
<1>1. ClientInit => LateCallsHaveClient
      BY DEF ClientInit, Init, LateCallsHaveClient, WorkAt, Received
<1>2. ClientVolumesTypeOK /\ LateCallsHaveClient /\ [ClientNext]_allVars
          => LateCallsHaveClient'
  <2> SUFFICES ASSUME ClientVolumesTypeOK, LateCallsHaveClient, [ClientNext]_allVars
               PROVE  LateCallsHaveClient'
      OBVIOUS
  <2>1. CASE UNCHANGED allVars
        BY <2>1 DEF allVars, vars, client, LateCallsHaveClient, WorkAt, Received
  <2>2. ASSUME NEW r \in Requests, ProxyStep(r) PROVE LateCallsHaveClient'
        BY <2>2, ProxyStepKeepsClient
  <2>3. ASSUME NEW r \in Requests, ReceiveCreate(r) \/ ReceiveDelete(r),
               UNCHANGED <<client, rest>>
        PROVE  LateCallsHaveClient'
    <3>1. PICK c \in Claims, first \in Mains : Receive(r, c, first)
          BY <2>3 DEF ReceiveCreate, ReceiveDelete, Mains
    <3>2. /\ job'[r].work = "none"
          /\ \A q \in Requests : q # r => job'[q] = job[q]
          BY <3>1 DEF Receive, ClientVolumesTypeOK, TypeOK
    <3>3. theOC' = theOC
          BY <2>3 DEF client
    <3> QED BY <3>2, <3>3 DEF LateCallsHaveClient, LateCalls, WorkAt, Received
  <2>4. ASSUME NEW c \in Claims, Bind(c), UNCHANGED <<client, rest>>
        PROVE  LateCallsHaveClient'
        BY <2>4 DEF Bind, client, LateCallsHaveClient, WorkAt, Received
  <2>5. CASE ClientStep /\ UNCHANGED <<vars, rest>>
    <3>1. theOC => theOC'
          BY <2>5 DEF ClientStep, newOpenshiftClient, Publish, TokenGranted, TokenRefused,
             StoreToken, Awake
    <3> QED BY <2>5, <3>1 DEF vars, LateCallsHaveClient, WorkAt, Received
  <2>6. CASE Die \/ Kill
    <3>1. ASSUME NEW r \in Requests, job'[r] # None PROVE job'[r].work = "none"
      <4>1. CASE Restart
        <5>1. Received(r) /\ job'[r] = [Ended(job[r]) EXCEPT !.main = "done"]
              BY <3>1, <4>1 DEF Restart
        <5>2. job[r] \in Job
              BY <5>1, JobRecord DEF ClientVolumesTypeOK
        <5> QED BY <5>1, <5>2 DEF Ended, Job
      <4>2. CASE (\A q \in Requests : Finished(q)) /\ UNCHANGED vars
            BY <3>1, <4>2 DEF Finished, Received, vars
      <4> QED BY <2>6, <4>1, <4>2 DEF Die, Kill, Reborn
    <3> QED BY <3>1 DEF LateCallsHaveClient, LateCalls, WorkAt, Received
  <2> QED BY <2>1, <2>2, <2>3, <2>4, <2>5, <2>6 DEF ClientNext
<1> QED BY <1>1, <1>2, ClientTypeCorrect, PTL DEF ClientSpec
-----------------------------------------------------------------------------
(* Nothing leaks at a blank token.  A call that was not sent leaves claims *)
(* and PVs alone, so that the account of the volumes (StocksStep) goes on; *)
(* the claims stay in step with their PVs while all calls were sent.       *)

UnsentReceived == \A r \in unsent : Received(r)
BlankAccounted ==
    \A c \in Claims :
        Undisturbed(c) => Stocked(c) /\ (AllSent(c) => Matched(c))
BlankInv == ClientVolumesTypeOK /\ TurnInv /\ UnsentReceived /\ BlankAccounted

\* A call that was sent, with no failure so far, did not fail; one that was not
\* sent had no effect.
LEMMA ProxyStepIsClean ==
    ASSUME ClientVolumesTypeOK, IInv, failures = 0, failures' = 0,
           NEW r \in Requests, ProxyStep(r)
    PROVE  /\ Clean(r)
           /\ Sent(r) => NoFault
           /\ ~Sent(r) => unsent' = unsent \cup {r}
           /\ Sent(r) => unsent' = unsent
<1>1. TypeOK /\ job[r] \in Job /\ Received(r) /\ Step(r)
      BY ProxyStepIsStep, AboutStays, JobRecord DEF IInv
<1>2. Sent(r) => NoFault
  <2>1. faults \in Nat /\ faults' \in Nat
        BY <1>1, TypeStep, VolumeAssumption DEF TypeOK, Next
  <2>2. Sent(r) => failures' = failures + (faults' - faults)
        BY Zenon DEF Sent, Counted
  <2>3. ASSUME failures' = failures + (faults' - faults) PROVE faults' = faults
    <3>1. 0 = 0 + (faults' - faults)
          BY <2>3, Zenon
    <3>2. \A a, b \in Nat : 0 = 0 + (b - a) => b = a
          OBVIOUS
    <3> QED BY <2>1, <3>1, <3>2, Zenon
  <2> QED BY <2>2, <2>3, Zenon DEF NoFault
<1>3. ~Sent(r) => /\ unsent' = unsent \cup {r} /\ UNCHANGED <<pv, pvc>>
                  /\ AdminCall(r) \/ PostClaim(r) \/ DeleteClaim(r)
      BY DEF ProxyStep, TokenIsBlank, HandlerPanics, GoroutinePanics, Unsent
<1>4. AdminCall(r) => ~CreateVolume(r) /\ ~Undo(r) /\ ~DeleteVolume(r)
      BY DEF AdminCall, PostPV, GetPV, DeletePV, CreateVolume, Undo, DeleteVolume, WorkAt
<1>5. DeleteClaim(r) => ~CreateVolume(r) /\ ~Undo(r) /\ ~DeleteVolume(r)
  <2>1. DeleteClaim(r) => job[r].work = "none"
        BY <1>1 DEF DeleteClaim, MainAt, Received, IInv, WorkIsStarted
  <2> QED BY <2>1 DEF CreateVolume, Undo, DeleteVolume, WorkAt
<1>6. PostClaim(r) => ~CreateVolume(r) /\ ~Undo(r) /\ ~DeleteVolume(r)
  <2>1. PostClaim(r) => job[r].main = "postClaim" /\ Becomes(r, "done", job[r].work, job[r].vol)
        BY <1>1, JobMoves DEF PostClaim, MainAt
  <2>2. CreateVolume(r) => \/ Becomes(r, job[r].main, "postPV", job[r].vol)
                           \/ Becomes(r, job[r].main, "none", None)
        BY <1>1, JobMoves DEF CreateVolume
  <2>3. Undo(r) \/ DeleteVolume(r) => Becomes(r, job[r].main, "none", None)
        BY <1>1, JobMoves DEF Undo, DeleteVolume
  <2> QED BY <2>1, <2>2, <2>3 DEF Becomes
<1>7. Sent(r) => unsent' = unsent
      BY DEF Sent
<1> QED BY <1>2, <1>3, <1>4, <1>5, <1>6, <1>7 DEF Clean

\* Requests with an unsent call have come in, and what they are about stays.
LEMMA UnsentStay ==
    ASSUME ClientVolumesTypeOK, UnsentReceived, [ClientNext]_allVars
    PROVE  /\ UnsentReceived'
           /\ \A x \in unsent : x \in unsent' /\ ClaimOf(x)' = ClaimOf(x)
<1>1. TypeOK /\ unsent \subseteq Requests /\ [Next]_vars
      BY ClientStepIsStep DEF ClientVolumesTypeOK
<1>2. \A x \in Requests : Received(x) => Received(x)' /\ ClaimOf(x)' = ClaimOf(x)
  <2>1. ASSUME NEW x \in Requests, Received(x), NEW r \in Requests,
               ReceiveCreate(r) \/ ReceiveDelete(r)
        PROVE  Received(x)' /\ ClaimOf(x)' = ClaimOf(x)
    <3>1. job'[x] = job[x]
          BY <1>1, <2>1, Newcomer
    <3> QED BY <2>1, <3>1 DEF Received, ClaimOf
  <2>2. ASSUME NEW x \in Requests, Received(x),
               \A r \in Requests : ~ReceiveCreate(r) /\ ~ReceiveDelete(r)
        PROVE  Received(x)' /\ ClaimOf(x)' = ClaimOf(x)
    <3> PICK c \in Claims : c = ClaimOf(x)
        BY <2>2, <1>1, JobRecord DEF ClaimOf, Job
    <3>1. About(x, c)
          BY <2>2 DEF About
    <3>2. About(x, c)'
          BY <1>1, <2>2, <3>1, Elders
    <3> QED BY <3>2 DEF About
  <2> QED BY <2>1, <2>2
<1>3. ASSUME NEW r \in Requests, ProxyStep(r)
      PROVE  (unsent' = unsent \/ unsent' = unsent \cup {r}) /\ Received(r)
  <2>1. unsent' = unsent \/ unsent' = unsent \cup {r}
        BY <1>3 DEF ProxyStep, Sent, TokenIsBlank, HandlerPanics, GoroutinePanics, Unsent
  <2>2. Received(r)
        BY <1>1, <1>3, ProxyStepIsStep, AboutStays
  <2> QED BY <2>1, <2>2
<1>4. unsent' = unsent \/ \E r \in Requests : ProxyStep(r)
      BY DEF ClientNext, Die, Kill, Reborn, rest, allVars
<1>5. \A x \in unsent' : x \in Requests /\ Received(x)
      BY <1>1, <1>3, <1>4 DEF UnsentReceived
<1>6. unsent \subseteq unsent'
      BY <1>3, <1>4
<1>7. UnsentReceived'
      BY <1>2, <1>5 DEF UnsentReceived
<1> QED BY <1>1, <1>2, <1>5, <1>6, <1>7

LEMMA BlankInvStep == BlankInv /\ [ClientNext]_allVars => BlankInv'
<1> SUFFICES ASSUME BlankInv, [ClientNext]_allVars PROVE BlankInv'
    OBVIOUS
<1>1. /\ ClientVolumesTypeOK /\ TurnInv /\ TurnInv' /\ IInv /\ TypeOK /\ UnsentReceived
      /\ [Next]_vars /\ unsent \subseteq Requests
      BY ClientStepIsStep, TurnStep DEF BlankInv, TurnInv, ClientVolumesTypeOK
<1>2. /\ ClientVolumesTypeOK' /\ UnsentReceived'
      /\ \A x \in unsent : x \in unsent' /\ ClaimOf(x)' = ClaimOf(x)
      BY <1>1, ClientTypeStep, UnsentStay
<1>3. raced \subseteq raced'
      BY <1>1 DEF Next, ReceiveCreate, ReceiveDelete, Receive, Step, ClusterList, PostClaim,
         DeleteClaim, CreateVolume, PostPV, Undo, GetClaim, PutClaim, GetPV, DeletePV,
         DeleteVolume, Bind, Restart, vars
<1>4. /\ failures \in Nat /\ failures' \in Nat
      /\ failures' = 0 => failures = 0 /\ ~Kill
  <2>1. failures \in Nat /\ failures' \in Nat
        BY <1>1, <1>2, ClientAssumption DEF ClientVolumesTypeOK
  <2>2. faults' - faults \in {0, 1}
        BY <1>1, FaultsGrow
  <2>3. ASSUME NEW r \in Requests, ProxyStep(r)
        PROVE  failures' = failures \/ failures' = failures + (faults' - faults)
        BY <2>3 DEF ProxyStep, Sent, Counted, TokenIsBlank, HandlerPanics,
           GoroutinePanics, Unsent
  <2>4. Kill => failures' = failures + 1
        BY DEF Kill
  <2>5. Die => failures' = failures
        BY DEF Die
  <2>6. \/ \E r \in Requests : ProxyStep(r)
        \/ failures' = failures \/ Kill \/ Die
        BY DEF ClientNext, rest, allVars
  <2> QED BY <2>1, <2>2, <2>3, <2>4, <2>5, <2>6
<1>5. ASSUME NEW c \in Claims, Undisturbed(c)'
      PROVE  Stocked(c)' /\ (AllSent(c)' => Matched(c)')
  <2>1. /\ failures = 0 /\ failures' = 0 /\ Sole(c) /\ PvcName2PvName[c] \notin raced'
        /\ ~Kill
        BY <1>4, <1>5 DEF Undisturbed, Sole
  <2>2. ~Die /\ ~died
    <3>1. ~died'
          BY <1>5 DEF Undisturbed
    <3>2. ~Die
          BY <3>1, Zenon DEF Die
    <3>3. died' = died \/ Die
      <4>1. ASSUME NEW r \in Requests, ProxyStep(r) PROVE died' = died
            BY <4>1, Zenon DEF ProxyStep, Sent, TokenIsBlank, HandlerPanics,
               GoroutinePanics, Unsent
      <4>2. ASSUME UNCHANGED rest PROVE died' = died
            BY <4>2 DEF rest
      <4>3. (\E r \in Requests : ProxyStep(r)) \/ UNCHANGED rest \/ Die \/ Kill
            BY DEF ClientNext, allVars
      <4>4. ~Kill
            BY <2>1
      <4>5. ASSUME \E r \in Requests : ProxyStep(r) PROVE died' = died
        <5> PICK r \in Requests : ProxyStep(r)
            BY <4>5
        <5> QED BY <4>1, Zenon
      <4> QED BY <4>2, <4>3, <4>4, <4>5, Zenon
    <3>4. died' = died
          BY <3>2, <3>3, Zenon
    <3>5. ~died
          BY <3>1, <3>4
    <3> QED BY <3>2, <3>5, Zenon
  <2>3. Stocked(c) /\ (AllSent(c) => Matched(c))
    <3>1. Undisturbed(c)
          BY <1>3, <2>1, <2>2 DEF Undisturbed, Sole
    <3> QED BY <3>1 DEF BlankInv, BlankAccounted
  <2>4. AllSent(c)' => AllSent(c)
        BY <1>2 DEF AllSent
  <2>5. ASSUME NEW r \in Requests, ProxyStep(r)
        PROVE  Stocked(c)' /\ (AllSent(c)' => Matched(c)')
    <3>1. /\ Clean(r) /\ Step(r)
          /\ Sent(r) => NoFault
          /\ ~Sent(r) => unsent' = unsent \cup {r}
          BY <1>1, <2>1, <2>5, ProxyStepIsClean, ProxyStepIsStep
    <3>2. Stocked(c)'
          BY <1>1, <2>1, <2>3, <3>1, StockedStep
    <3>3. ASSUME AllSent(c)', About(r, c) PROVE NoFault
      <4>1. ClaimOf(r)' = c
            BY <1>1, <3>1, <3>3, AboutStays DEF About
      <4>2. r \notin unsent'
            BY <3>3, <4>1 DEF AllSent
      <4> QED BY <3>1, <4>2
    <3>4. AllSent(c)' => Matched(c)'
          BY <1>1, <2>1, <2>3, <2>4, <3>1, <3>3, MatchedStep
    <3> QED BY <3>2, <3>4
  <2>6. ASSUME ~\E r \in Requests : ProxyStep(r)
        PROVE  Stocked(c)' /\ (AllSent(c)' => Matched(c)')
    <3>1. \/ \E r \in Requests : ReceiveCreate(r) \/ ReceiveDelete(r)
          \/ \E d \in Claims : Bind(d)
          \/ UNCHANGED vars
          BY <2>1, <2>2, <2>6 DEF ClientNext, allVars
    <3>2. \/ \E r \in Requests : ReceiveCreate(r) \/ ReceiveDelete(r)
          \/ UNCHANGED <<volumes, pv, job>>
          BY <3>1 DEF Bind, vars
    <3>3. \/ \E r \in Requests : ReceiveCreate(r) \/ ReceiveDelete(r)
          \/ \E d \in Claims : Bind(d)
          \/ UNCHANGED <<pv, pvc, job>>
          BY <3>1 DEF vars
    <3>4. Stocked(c)'
          BY <1>1, <2>1, <2>3, <3>2, StockedBeside
    <3>5. AllSent(c)' => Matched(c)'
          BY <1>1, <2>1, <2>3, <2>4, <3>3, MatchedBeside
    <3> QED BY <3>4, <3>5
  <2> QED BY <2>5, <2>6
<1> QED BY <1>1, <1>2, <1>5 DEF BlankInv, BlankAccounted

\* While the process has no token its creations and deletions end half way, a
\* handler without the client panics, and a panicking goroutine runs its
\* deferred functions; still no volume is left without its PV, and no PV
\* without its volume, once the requests about a claim are done; and a claim
\* whose calls were all sent has its PV.
THEOREM BlankLeaksNothing == ClientSpec => []BlankTokenLeaksNoVolume
<1>1. ClientInit => BlankInv
  <2> SUFFICES ASSUME ClientInit PROVE BlankInv
      OBVIOUS
  <2>1. Init /\ unsent = {}
        BY DEF ClientInit
  <2>2. TurnInv /\ UnsentReceived
        BY <2>1, InitLeakInv DEF LeakInv, UnsentReceived
  <2>3. BlankAccounted
    <3>1. ASSUME NEW c \in Claims PROVE Stocked(c) /\ Matched(c)
      <4>1. /\ volumes = {} /\ PVNow(c) = None /\ pvc[c] = None
            /\ \A r \in Requests : ~Unfinished(r, c)
            BY <2>1, VolumeAssumption DEF Init, PVNow, Received, Unfinished, About
      <4> QED BY <4>1, VolumeAssumption DEF Stocked, StockAtRest, Matched, MatchAtRest
    <3> QED BY <3>1 DEF BlankAccounted
  <2>4. ClientVolumesTypeOK
        BY ClientTypeInit
  <2> QED BY <2>2, <2>3, <2>4 DEF BlankInv
<1>2. BlankInv => BlankTokenLeaksNoVolume
  <2> SUFFICES ASSUME BlankInv, NEW c \in Claims, Undisturbed(c), Settled(c)
               PROVE  LET v == pv[PvcName2PvName[c]]
                      IN  /\ Volumes(c) = {v} \ {None}
                          /\ AllSent(c) => (pvc[c] = None <=> v = None)
      BY DEF BlankTokenLeaksNoVolume
  <2>1. StockAtRest(c) /\ (AllSent(c) => MatchAtRest(c))
        BY DEF BlankInv, BlankAccounted, Stocked, Matched, Settled, Unfinished, About
  <2>2. Volumes(c) = {PVNow(c)} \ {None}
        BY <2>1, VolumesOf DEF BlankInv
  <2> QED BY <2>1, <2>2 DEF MatchAtRest, PVNow
<1> QED BY <1>1, <1>2, BlankInvStep, PTL DEF ClientSpec
=============================================================================
