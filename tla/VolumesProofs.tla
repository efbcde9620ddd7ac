---------------------------- MODULE VolumesProofs ---------------------------
(***************************************************************************)
(* Proofs about Volumes, for all claims, PV names, requests and bounds:    *)
(* no deletion and no undone creation leaves a PV without its volume.      *)
(***************************************************************************)
EXTENDS Volumes, TLAPS

\* q is a creation whose PV has been posted: it never posts one again.
PastPost(q) ==
    /\ q \in Requests /\ job[q] # None
    /\ job[q].main \in {"postClaim", "done"}
    /\ job[q].work \in {"none", "undo", "getClaim", "putClaim"}

\* A PV points to the volume of a creation that posted it under this name,
\* and that is there, or whose answer was lost.
PVIsPosted ==
    \A n \in PVs : pv[n] # None =>
        /\ PastPost(pv[n]) /\ PVOf(pv[n]) = n
        /\ pv[n] \in lost \/ (pv[n] \in volumes /\ job[pv[n]].work # "undo")

\* A volume a deletion has read was posted under the name it is about.
ReadIsPosted ==
    \A r \in Requests : job[r] # None /\ job[r].vol # None =>
        PastPost(job[r].vol) /\ PVOf(job[r].vol) = PVOf(r)

\* A creation about to post has its volume.
PosterHasVolume ==
    \A r \in Requests : WorkAt(r, "postPV") => r \in volumes

\* The background goroutine is started by the handler, at its last but one call.
WorkIsStarted ==
    \A r \in Requests : job[r] # None /\ job[r].work # "none" =>
        job[r].main \in {"postClaim", "done"}

\* A deletion about to delete something has read the PV, ...
DeleterHasRead ==
    \A r \in Requests : WorkAt(r, "deletePV") \/ WorkAt(r, "deleteVolume") =>
        job[r].vol # None

\* ... and one about to delete the volume has taken the PV away.
DeleterTookPV ==
    \A r \in Requests, n \in PVs :
        WorkAt(r, "deleteVolume") => pv[n] # job[r].vol

IInv == /\ TypeOK
        /\ PVIsPosted /\ ReadIsPosted
        /\ PosterHasVolume /\ WorkIsStarted
        /\ DeleterHasRead /\ DeleterTookPV
-----------------------------------------------------------------------------
\* The initial states satisfy the invariant.
LEMMA InitIInv == Init => IInv
BY VolumeAssumption, SMT
   DEF Init, IInv, TypeOK, PVIsPosted, ReadIsPosted, PosterHasVolume,
       WorkIsStarted, DeleterHasRead, DeleterTookPV, WorkAt, Received

\* None is no job.
LEMMA JobRecord == ASSUME TypeOK, NEW r \in Requests, Received(r)
                   PROVE  job[r] \in Job
BY DEF TypeOK, Received

\* The ways a goroutine moves on keep the type of job.
JobType == [Requests -> Job \cup {None}]

LEMMA Moves ==
    ASSUME TypeOK, NEW r \in Requests, Received(r)
    PROVE  /\ \A call \in Mains : Main(r, call) => job' \in JobType
           /\ \A call \in Works : Work(r, call) => job' \in JobType
           /\ Stop(r) => job' \in JobType
<1> job[r] \in Job
    BY JobRecord
<1> job \in JobType
    BY DEF TypeOK, JobType
<1>1. ASSUME NEW call \in Mains PROVE [job[r] EXCEPT !.main = call] \in Job
      BY DEF Job
<1>2. ASSUME NEW call \in Works PROVE [job[r] EXCEPT !.work = call] \in Job
      BY DEF Job
<1>3. Ended(job[r]) \in Job
      BY DEF Job, Ended, Works
<1> QED BY <1>1, <1>2, <1>3 DEF JobType, Main, Work, Stop

\* The variables have their types in every step.
LEMMA TypeStep == TypeOK /\ [Next]_vars => TypeOK'
<1> SUFFICES ASSUME TypeOK, [Next]_vars PROVE TypeOK'
    OBVIOUS
<1> USE VolumeAssumption
<1>0. faults \in 0 .. MaxFaults /\ (NoFault \/ Fault => faults' \in 0 .. MaxFaults)
      BY DEF TypeOK, NoFault, Fault
<1>1. ASSUME NEW r \in Requests, NEW c \in Claims, NEW first \in Mains,
             Receive(r, c, first)
      PROVE  TypeOK'
      BY <1>1 DEF Receive, Job, Works, TypeOK
<1>2. ASSUME NEW r \in Requests, Step(r)
      PROVE  TypeOK'
  <2>0. Received(r)
        BY <1>2 DEF Step, ClusterList, PostClaim, DeleteClaim, CreateVolume, PostPV,
                Undo, GetClaim, PutClaim, GetPV, DeletePV, DeleteVolume, MainAt, WorkAt
  <2> job[r] \in Job /\ job[r].claim \in Claims /\ PVOf(r) \in PVs
      BY <2>0, JobRecord DEF Job, PVOf
  <2>m. /\ \A call \in Mains : Main(r, call) => job' \in JobType
        /\ \A call \in Works : Work(r, call) => job' \in JobType
        /\ Stop(r) => job' \in JobType
        BY <2>0, Moves
  <2> USE DEF Mains, Works
  <2>1. CASE ClusterList(r)
        BY <2>1, <2>m, <1>0 DEF ClusterList, TypeOK, Job, JobType
  <2>2. CASE PostClaim(r)
    <3>1. NewClaim(r) \in Claim
          BY DEF NewClaim, Claim
    <3>2. pvc' \in [Claims -> Claim \cup {None}]
          BY <2>2, <3>1 DEF PostClaim, TypeOK
    <3> QED BY <2>2, <3>2, <2>m, <1>0 DEF PostClaim, TypeOK, JobType
  <2>3. CASE DeleteClaim(r)
    <3>1. pvc' \in [Claims -> Claim \cup {None}]
          BY <2>3 DEF DeleteClaim, TypeOK
    <3>2. job' \in JobType
          BY <2>3, <2>m DEF DeleteClaim, TypeOK, Job, JobType
    <3> QED BY <2>3, <3>1, <3>2, <1>0 DEF DeleteClaim, TypeOK, JobType
  <2>4. CASE CreateVolume(r)
        BY <2>4, <2>m, <1>0 DEF CreateVolume, TypeOK, JobType
  <2>5. CASE PostPV(r)
        BY <2>5, <2>m, <1>0 DEF PostPV, TypeOK, JobType
  <2>6. CASE Undo(r)
        BY <2>6, <2>m, <1>0 DEF Undo, TypeOK, JobType
  <2>7. CASE GetClaim(r)
    <3>1. job' \in JobType
          BY <2>7, <2>m DEF GetClaim, ClaimOf, TypeOK, Job, JobType
    <3> QED BY <2>7, <3>1, <1>0 DEF GetClaim, TypeOK, JobType
  <2>8. CASE PutClaim(r)
    <3>1. \A x \in Claim : Annotated(x, r) \in Claim
          BY DEF Annotated, Claim
    <3>2. pvc' \in [Claims -> Claim \cup {None}]
          BY <2>8, <3>1 DEF PutClaim, TypeOK, ClaimOf
    <3> QED BY <2>8, <3>2, <2>m, <1>0 DEF PutClaim, TypeOK, JobType
  <2>9. CASE GetPV(r)
    <3>1. job' \in JobType
          BY <2>9, <2>m DEF GetPV, TypeOK, Job, JobType
    <3> QED BY <2>9, <3>1, <1>0 DEF GetPV, TypeOK, JobType
  <2>10. CASE DeletePV(r)
        BY <2>10, <2>m, <1>0 DEF DeletePV, TypeOK, JobType
  <2>11. CASE DeleteVolume(r)
        BY <2>11, <2>m, <1>0 DEF DeleteVolume, TypeOK, JobType
  <2> QED BY <1>2, <2>1, <2>2, <2>3, <2>4, <2>5, <2>6, <2>7, <2>8, <2>9, <2>10,
             <2>11 DEF Step
<1>3. ASSUME NEW c \in Claims, Bind(c) PROVE TypeOK'
  <2>1. pvc[c] \in Claim
        BY <1>3 DEF Bind, TypeOK
  <2>2. [pvc[c] EXCEPT !.bound = TRUE] \in Claim
        BY <2>1 DEF Claim
  <2>3. pvc' \in [Claims -> Claim \cup {None}]
        BY <1>3, <2>2 DEF Bind, TypeOK
  <2> QED BY <1>3, <2>3 DEF Bind, TypeOK
<1>4. CASE Restart
  <2>1. ASSUME NEW r \in Requests, Received(r)
        PROVE  [Ended(job[r]) EXCEPT !.main = "done"] \in Job
        BY <2>1, JobRecord DEF Ended, Job, Mains, Works
  <2> QED BY <1>4, <2>1, <1>0 DEF Restart, TypeOK
<1>5. CASE UNCHANGED vars
      BY <1>5 DEF vars, TypeOK
<1> QED BY <1>1, <1>2, <1>3, <1>4, <1>5 DEF Next, ReceiveCreate, ReceiveDelete, Mains

-----------------------------------------------------------------------------
\* A creation that is past its post stays so: each step changes at most the
\* goroutines of one request, and none leads back to an earlier call.
LEMMA PastPostStays ==
    ASSUME TypeOK, [Next]_vars, NEW q \in Requests, PastPost(q)
    PROVE  PastPost(q)' /\ PVOf(q)' = PVOf(q)
<1> USE DEF PastPost, PVOf
<1> job \in [Requests -> Job \cup {None}] /\ job[q] \in Job
    BY DEF TypeOK
<1>1. ASSUME NEW r \in Requests, NEW c \in Claims, NEW first \in Mains,
             Receive(r, c, first)
      PROVE  r # q /\ job'[q] = job[q]
      BY <1>1 DEF Receive, Received
<1>2. ASSUME NEW r \in Requests, Step(r)
      PROVE  /\ job'[q] \in Job
             /\ job'[q].main \in {"postClaim", "done"}
             /\ job'[q].work \in {"none", "undo", "getClaim", "putClaim"}
             /\ job'[q].claim = job[q].claim
  <2>1. CASE r # q
    <3>1. job'[q] = job[q]
          BY <1>2, <2>1 DEF Step, ClusterList, PostClaim, DeleteClaim, CreateVolume,
             PostPV, Undo, GetClaim, PutClaim, GetPV, DeletePV, DeleteVolume, Main,
             Work, Stop
    <3> QED BY <3>1
  <2>2. CASE r = q
    <3>1. ~ClusterList(q) /\ ~DeleteClaim(q) /\ ~CreateVolume(q) /\ ~PostPV(q)
          BY DEF ClusterList, DeleteClaim, CreateVolume, PostPV, MainAt, WorkAt
    <3>2. ~GetPV(q) /\ ~DeletePV(q) /\ ~DeleteVolume(q)
          BY DEF GetPV, DeletePV, DeleteVolume, WorkAt
    <3> DEFINE Kept == /\ job'[q] \in Job
                       /\ job'[q].main \in {"postClaim", "done"}
                       /\ job'[q].work \in {"none", "undo", "getClaim", "putClaim"}
                       /\ job'[q].claim = job[q].claim
    <3>3. PostClaim(q) => Kept
          BY DEF PostClaim, Main, Mains, Job
    <3>4. Stop(q) => Kept
      <4>1. /\ Ended(job[q]) \in Job
            /\ Ended(job[q]).main = job[q].main
            /\ Ended(job[q]).work = "none"
            /\ Ended(job[q]).claim = job[q].claim
            BY DEF Ended, Works, Job
      <4>2. Stop(q) => job'[q] = Ended(job[q])
            BY DEF Stop
      <4> QED BY <4>1, <4>2
    <3>5. Undo(q) \/ PutClaim(q) => Kept
          BY <3>4 DEF Undo, PutClaim
    <3>6. GetClaim(q) => Kept
      <4>1. pvc[ClaimOf(q)] \in Claim \cup {None}
            BY DEF TypeOK, ClaimOf, Job
      <4> QED BY <4>1, <3>4 DEF GetClaim, Works, Job
    <3>7. Step(q) => Kept
          BY <3>1, <3>2, <3>3, <3>5, <3>6 DEF Step
    <3> QED BY <1>2, <2>2, <3>7
  <2> QED BY <2>1, <2>2
<1>3. ASSUME NEW c \in Claims, Bind(c) PROVE job' = job
      BY <1>3 DEF Bind
<1>4. ASSUME Restart
      PROVE  /\ job'[q] \in Job
             /\ job'[q].main \in {"postClaim", "done"}
             /\ job'[q].work \in {"none", "undo", "getClaim", "putClaim"}
             /\ job'[q].claim = job[q].claim
      BY <1>4 DEF Restart, Received, Ended, Job, Mains, Works
<1>5. ASSUME UNCHANGED vars PROVE job' = job
      BY <1>5 DEF vars
<1>6. ASSUME NEW r \in Requests, ReceiveCreate(r) \/ ReceiveDelete(r)
      PROVE  job'[q] = job[q]
      BY <1>6, <1>1 DEF ReceiveCreate, ReceiveDelete, Mains
<1>7. /\ job'[q] \in Job
      /\ job'[q].main \in {"postClaim", "done"}
      /\ job'[q].work \in {"none", "undo", "getClaim", "putClaim"}
      /\ job'[q].claim = job[q].claim
      BY <1>2, <1>3, <1>4, <1>5, <1>6 DEF Next
<1> QED BY <1>7, VolumeAssumption
-----------------------------------------------------------------------------
\* A step of one request leaves the goroutines of the others alone, and the
\* claim it is about.
LEMMA OneJob ==
    ASSUME TypeOK, NEW r \in Requests, Step(r)
    PROVE  /\ job[r] \in Job
           /\ \A s \in Requests : s # r => job'[s] = job[s]
           /\ job'[r] \in Job /\ job'[r].claim = job[r].claim
<1>1. Received(r)
      BY DEF Step, ClusterList, PostClaim, DeleteClaim, CreateVolume, PostPV,
             Undo, GetClaim, PutClaim, GetPV, DeletePV, DeleteVolume, MainAt, WorkAt
<1> job[r] \in Job /\ job \in [Requests -> Job \cup {None}]
    BY <1>1, JobRecord DEF TypeOK
<1> DEFINE Same == job'[r] \in Job /\ job'[r].claim = job[r].claim
<1>2. \A call \in Mains : Main(r, call) => Same
      BY DEF Main, Job
<1>3. \A call \in Works : Work(r, call) => Same
      BY DEF Work, Job
<1>4. Stop(r) => Same
  <2>1. Ended(job[r]) \in Job /\ Ended(job[r]).claim = job[r].claim
        BY DEF Ended, Job, Works
  <2> QED BY <2>1 DEF Stop
<1>5. Same
  <2> USE DEF Mains, Works
  <2>1. CASE ClusterList(r)
        BY <1>2, <2>1 DEF ClusterList, Job
  <2>2. CASE PostClaim(r)
        BY <1>2, <2>2 DEF PostClaim
  <2>3. CASE DeleteClaim(r)
        BY <1>2, <2>3 DEF DeleteClaim, Job
  <2>4. CASE CreateVolume(r) \/ PostPV(r) \/ Undo(r) \/ PutClaim(r)
        BY <1>3, <1>4, <2>4 DEF CreateVolume, PostPV, Undo, PutClaim
  <2>5. CASE DeletePV(r) \/ DeleteVolume(r)
        BY <1>3, <1>4, <2>5 DEF DeletePV, DeleteVolume
  <2>6. CASE GetClaim(r)
    <3>1. pvc[ClaimOf(r)] \in Claim \cup {None}
          BY DEF TypeOK, ClaimOf, Job
    <3> QED BY <1>4, <2>6, <3>1 DEF GetClaim, Job
  <2>7. CASE GetPV(r)
    <3>1. pv[PVOf(r)] \in Requests \cup {None}
          BY VolumeAssumption DEF TypeOK, PVOf, Job
    <3> QED BY <1>4, <2>7, <3>1 DEF GetPV, Job
  <2> QED BY <2>1, <2>2, <2>3, <2>4, <2>5, <2>6, <2>7 DEF Step
<1>6. \A s \in Requests : s # r => job'[s] = job[s]
      BY DEF Step, ClusterList, PostClaim, DeleteClaim, CreateVolume, PostPV, Undo,
             GetClaim, PutClaim, GetPV, DeletePV, DeleteVolume, Main, Work, Stop
<1> QED BY <1>5, <1>6

\* What a step of request r does to what the invariant speaks about: the PV
\* it posts or deletes, the volumes it makes or takes away, where it goes on.
PVEffect(r) ==
    \A n \in PVs :
        \/ pv'[n] \in {pv[n], None}
        \/ /\ WorkAt(r, "postPV")
           /\ pv'[n] = r /\ n = PVOf(r)
           /\ r \in lost' \/ (r \in volumes' /\ job'[r].work # "undo")
           /\ job'[r].work \in {"undo", "getClaim"} /\ job'[r].main = job[r].main

VolumesEffect(r) ==
    /\ lost \subseteq lost'
    /\ job'[r].work = "postPV" => r \in volumes'
    /\ \A q \in volumes : q \notin volumes' =>
           \/ WorkAt(r, "undo") /\ q = r
           \/ WorkAt(r, "deleteVolume") /\ q = job[r].vol

JobEffect(r) ==
    /\ job'[r].work = "undo" => WorkAt(r, "postPV") \/ WorkAt(r, "undo")
    /\ job'[r].work # "none" => job'[r].main \in {"postClaim", "done"}
    /\ job'[r].vol \in {None, job[r].vol, pv[PVOf(r)]}
    /\ job'[r].work \in {"deletePV", "deleteVolume"} => job'[r].vol # None
    /\ job'[r].work = "deleteVolume" =>
           /\ job'[r].vol = job[r].vol
           /\ \/ pv' = pv /\ WorkAt(r, "deleteVolume")
              \/ pv' = [pv EXCEPT ![PVOf(r)] = None]

LEMMA Effects ==
    ASSUME IInv, NEW r \in Requests, Step(r)
    PROVE  PVEffect(r) /\ VolumesEffect(r) /\ JobEffect(r)
<1>1. job[r] \in Job /\ job \in [Requests -> Job \cup {None}] /\ job[r] # None
      BY OneJob, VolumeAssumption DEF IInv, TypeOK
<1>2. pv \in [PVs -> Requests \cup {None}] /\ PVOf(r) \in PVs
      BY <1>1, VolumeAssumption DEF IInv, TypeOK, PVOf, Job
<1>3. PVEffect(r)
  <2>1. ~PostPV(r) /\ ~DeletePV(r) => pv' = pv
        BY DEF Step, ClusterList, PostClaim, DeleteClaim, CreateVolume, Undo, GetClaim,
               PutClaim, GetPV, DeleteVolume
  <2>2. CASE DeletePV(r)
        BY <2>2, <1>2 DEF DeletePV, PVEffect
  <2>3. CASE PostPV(r)
        BY <2>3, <1>1, <1>2 DEF PostPV, PVEffect, IInv, PosterHasVolume, WorkAt, Work, Job
  <2> QED BY <2>1, <2>2, <2>3 DEF PVEffect
<1> HIDE DEF PVEffect
<1>4. VolumesEffect(r)
  <2>0. job[r].work = "postPV" => r \in volumes
        BY <1>1 DEF IInv, PosterHasVolume, WorkAt, Received
  <2>p. job'[r].work = "postPV" => r \in volumes'
    <3>1. CreateVolume(r) => r \in volumes' \/ job'[r].work = "none"
          BY <1>1 DEF CreateVolume, Stop, Ended, Job
    <3>2. CASE ClusterList(r)
      <4>1. \/ job'[r] = [job[r] EXCEPT !.main = "postClaim", !.work = "createVolume"]
            \/ job'[r] = [job[r] EXCEPT !.main = "done"]
            BY <1>1, <3>2 DEF ClusterList, Main
      <4>2. volumes' = volumes
            BY <3>2 DEF ClusterList
      <4> QED BY <1>1, <2>0, <4>1, <4>2 DEF Job
    <3>3. CASE PostClaim(r) \/ DeleteClaim(r)
          BY <1>1, <2>0, <3>3 DEF PostClaim, DeleteClaim, Main, Job
    <3>s. Stop(r) => job'[r].work = "none"
          BY <1>1 DEF Stop, Ended, Job
    <3>w. \A call : Work(r, call) => job'[r].work = call
          BY <1>1 DEF Work, Job
    <3>4. CASE PostPV(r)
          BY <3>4, <3>w DEF PostPV
    <3>5. CASE Undo(r) \/ PutClaim(r) \/ DeleteVolume(r)
          BY <3>5, <3>s DEF Undo, PutClaim, DeleteVolume
    <3>6. CASE DeletePV(r)
          BY <3>6, <3>s, <3>w DEF DeletePV
    <3>7. CASE GetClaim(r)
      <4>1. \/ Stop(r)
            \/ job' = [job EXCEPT ![r].work = "putClaim", ![r].copy = pvc[ClaimOf(r)]]
            BY <3>7 DEF GetClaim
      <4>2. Stop(r) \/ job'[r] = [job[r] EXCEPT !.work = "putClaim",
                                               !.copy = pvc[ClaimOf(r)]]
            BY <1>1, <4>1
      <4> QED BY <1>1, <4>2, <3>s DEF Job
    <3>8. CASE GetPV(r)
      <4>1. \/ Stop(r)
            \/ job' = [job EXCEPT ![r].work = "deletePV", ![r].vol = pv[PVOf(r)]]
            BY <3>8 DEF GetPV
      <4>2. Stop(r) \/ job'[r] = [job[r] EXCEPT !.work = "deletePV", !.vol = pv[PVOf(r)]]
            BY <1>1, <4>1
      <4> QED BY <1>1, <4>2, <3>s DEF Job
    <3> QED BY <3>1, <3>2, <3>3, <3>4, <3>5, <3>6, <3>7, <3>8 DEF Step
  <2> QED BY <2>p DEF VolumesEffect, Step, ClusterList, PostClaim, DeleteClaim,
             CreateVolume, PostPV, Undo, GetClaim, PutClaim, GetPV, DeletePV, DeleteVolume
<1>5. JobEffect(r)
  <2>0. /\ job[r].work # "none" => job[r].main \in {"postClaim", "done"}
        /\ job[r].work \in {"deletePV", "deleteVolume"} => job[r].vol # None
        BY <1>1 DEF IInv, WorkIsStarted, DeleterHasRead, WorkAt, Received
  <2> DEFINE j == job[r]
  <2>s. Stop(r) => job'[r] = Ended(j)
        BY <1>1 DEF Stop
  <2>w. \A call : Work(r, call) => job'[r] = [j EXCEPT !.work = call]
        BY <1>1 DEF Work
  <2>m. \A call : Main(r, call) => job'[r] = [j EXCEPT !.main = call]
        BY <1>1 DEF Main
  <2> USE DEF JobEffect, Job, MainAt, WorkAt
  <2>t. Stop(r) => JobEffect(r)
        BY <1>1, <2>s DEF Ended
  <2>1. CASE ClusterList(r)
    <3>1. \/ job'[r] = [j EXCEPT !.main = "postClaim", !.work = "createVolume"]
          \/ job'[r] = [j EXCEPT !.main = "done"]
          BY <1>1, <2>1, <2>m DEF ClusterList
    <3> QED BY <1>1, <2>0, <2>1, <3>1 DEF ClusterList
  <2>2. CASE PostClaim(r)
    <3>1. job'[r] = [j EXCEPT !.main = "done"]
          BY <1>1, <2>2, <2>m DEF PostClaim
    <3> QED BY <1>1, <2>0, <2>2, <3>1 DEF PostClaim, Received
  <2>3. CASE DeleteClaim(r)
    <3>1. \/ job'[r] = [j EXCEPT !.main = "done", !.work = "getPV"]
          \/ job'[r] = [j EXCEPT !.main = "done"]
          BY <1>1, <2>3, <2>m DEF DeleteClaim
    <3>2. job[r].work = "none"
          BY <2>0, <2>3 DEF DeleteClaim
    <3> QED BY <1>1, <3>1, <3>2
  <2>4. CASE CreateVolume(r)
    <3>1. Stop(r) \/ job'[r] = [j EXCEPT !.work = "postPV"]
          BY <1>1, <2>4, <2>w DEF CreateVolume
    <3> QED BY <1>1, <2>0, <2>t, <2>4, <3>1 DEF CreateVolume
  <2>5. CASE PostPV(r)
    <3>1. \/ job'[r] = [j EXCEPT !.work = "getClaim"]
          \/ job'[r] = [j EXCEPT !.work = "undo"]
          BY <1>1, <2>5, <2>w DEF PostPV
    <3> QED BY <1>1, <2>0, <2>5, <3>1 DEF PostPV
  <2>6. CASE Undo(r)
        BY <2>t, <2>6 DEF Undo
  <2>7. CASE GetClaim(r)
    <3>1. Stop(r) \/ job'[r] = [j EXCEPT !.work = "putClaim", !.copy = pvc[ClaimOf(r)]]
          BY <1>1, <2>7 DEF GetClaim
    <3> QED BY <1>1, <2>0, <2>t, <2>7, <3>1 DEF GetClaim
  <2>8. CASE PutClaim(r)
        BY <2>t, <2>8 DEF PutClaim
  <2>9. CASE GetPV(r)
    <3>1. Stop(r) \/ (/\ job'[r] = [j EXCEPT !.work = "deletePV", !.vol = pv[PVOf(r)]]
                      /\ pv[PVOf(r)] # None)
          BY <1>1, <2>9 DEF GetPV
    <3> QED BY <1>1, <2>0, <2>t, <2>9, <3>1 DEF GetPV
  <2>10. CASE DeletePV(r)
    <3>1. Stop(r) \/ (/\ job'[r] = [j EXCEPT !.work = "deleteVolume"]
                      /\ pv' = [pv EXCEPT ![PVOf(r)] = None])
          BY <2>w, <2>10 DEF DeletePV
    <3> QED BY <1>1, <2>0, <2>t, <2>10, <3>1 DEF DeletePV
  <2>11. CASE DeleteVolume(r)
        BY <2>t, <2>11 DEF DeleteVolume
  <2> QED BY <2>1, <2>2, <2>3, <2>4, <2>5, <2>6, <2>7, <2>8, <2>9, <2>10, <2>11 DEF Step
<1> QED BY <1>3, <1>4, <1>5
-----------------------------------------------------------------------------
\* Every step of a request keeps the invariant.
LEMMA StepIInv == ASSUME IInv, NEW r \in Requests, Step(r) PROVE IInv'
<1>1. TypeOK /\ TypeOK' /\ [Next]_vars
      BY TypeStep DEF IInv, Next
<1>2. /\ job[r] \in Job
      /\ \A s \in Requests : s # r => job'[s] = job[s]
      /\ job'[r] \in Job /\ job'[r].claim = job[r].claim
      /\ \A s \in Requests : job[s] # None => PVOf(s)' = PVOf(s)
  <2>1. /\ job[r] \in Job
        /\ \A s \in Requests : s # r => job'[s] = job[s]
        /\ job'[r] \in Job /\ job'[r].claim = job[r].claim
        BY <1>1, OneJob
  <2> QED BY <2>1 DEF PVOf
<1>3. PVEffect(r) /\ VolumesEffect(r) /\ JobEffect(r)
      BY Effects
<1>4. \A q \in Requests : PastPost(q) => PastPost(q)' /\ PVOf(q)' = PVOf(q)
      BY <1>1, PastPostStays
<1>5. /\ pv \in [PVs -> Requests \cup {None}] /\ pv' \in [PVs -> Requests \cup {None}]
      /\ job \in [Requests -> Job \cup {None}] /\ job' \in [Requests -> Job \cup {None}]
      /\ job[r] # None /\ PVOf(r) \in PVs
      BY <1>1, <1>2, VolumeAssumption DEF TypeOK, PVOf, Job
<1>6. PVIsPosted'
  <2>1. SUFFICES ASSUME NEW n \in PVs, pv'[n] # None
                 PROVE  (/\ PastPost(pv[n]) /\ PVOf(pv[n]) = n
                         /\ \/ pv[n] \in lost
                            \/ pv[n] \in volumes /\ job[pv[n]].work # "undo")'
        BY DEF PVIsPosted
  <2>2. CASE pv'[n] = pv[n]
    <3> PICK q \in Requests : q = pv[n]
        BY <2>1, <2>2, <1>5
    <3>1. /\ PastPost(q) /\ PVOf(q) = n
          /\ q \in lost \/ (q \in volumes /\ job[q].work # "undo")
          BY <2>1, <2>2 DEF IInv, PVIsPosted
    <3>2. ASSUME q \notin lost PROVE q \in volumes' /\ job'[q].work # "undo"
      <4>1. ~WorkAt(q, "postPV")
            BY <3>1 DEF PastPost, WorkAt
      <4>2. job'[q].work # "undo"
            BY <1>2, <1>3, <3>1, <3>2, <4>1 DEF JobEffect, WorkAt
      <4>3. WorkAt(r, "deleteVolume") => q # job[r].vol
            BY <2>1, <2>2 DEF IInv, DeleterTookPV
      <4> QED BY <1>3, <3>1, <3>2, <4>2, <4>3 DEF VolumesEffect, WorkAt
    <3>3. PastPost(q)' /\ PVOf(q)' = n /\ (q \in lost => q \in lost')
          BY <1>3, <1>4, <3>1 DEF VolumesEffect
    <3> QED BY <2>2, <3>2, <3>3 DEF PastPost, PVOf
  <2>3. CASE pv'[n] # pv[n]
    <3>1. /\ WorkAt(r, "postPV") /\ pv'[n] = r /\ n = PVOf(r)
          /\ r \in lost' \/ (r \in volumes' /\ job'[r].work # "undo")
          /\ job'[r].work \in {"undo", "getClaim"} /\ job'[r].main = job[r].main
          BY <1>3, <2>1, <2>3 DEF PVEffect
    <3>2. job[r].main \in {"postClaim", "done"}
          BY <1>5, <3>1 DEF IInv, WorkIsStarted, WorkAt
    <3> QED BY <1>2, <1>5, <3>1, <3>2, VolumeAssumption DEF PastPost, PVOf
  <2> QED BY <2>2, <2>3
<1>7. ReadIsPosted'
  <2>1. SUFFICES ASSUME NEW s \in Requests, job'[s] # None, job'[s].vol # None
                 PROVE  (PastPost(job[s].vol) /\ PVOf(job[s].vol) = PVOf(s))'
        BY DEF ReadIsPosted
  <2>2. job[s] # None /\ PVOf(s)' = PVOf(s)
        BY <1>2, <1>5, <2>1
  <2>3. job'[s].vol = job[s].vol \/ (s = r /\ job'[s].vol = pv[PVOf(s)])
        BY <1>2, <1>3, <2>1 DEF JobEffect
  <2>4. PastPost(job'[s].vol) /\ PVOf(job'[s].vol) = PVOf(s)
        BY <1>5, <2>1, <2>2, <2>3 DEF IInv, ReadIsPosted, PVIsPosted
  <2> PICK q \in Requests : q = job'[s].vol
      BY <2>4 DEF PastPost
  <2>5. PastPost(q)' /\ PVOf(q)' = PVOf(s)'
        BY <1>4, <2>2, <2>4
  <2> QED BY <2>5 DEF PastPost, PVOf
<1>8. PosterHasVolume'
  <2>1. SUFFICES ASSUME NEW s \in Requests, job'[s] # None, job'[s].work = "postPV"
                 PROVE  s \in volumes'
        BY DEF PosterHasVolume, WorkAt, Received
  <2>2. CASE s = r
        BY <1>3, <2>1, <2>2 DEF VolumesEffect
  <2>3. CASE s # r
    <3>1. job[s] # None /\ job[s].work = "postPV" /\ s \in volumes
          BY <1>2, <2>1, <2>3 DEF IInv, PosterHasVolume, WorkAt, Received
    <3>2. job[r].vol # s
          BY <1>5, <3>1, VolumeAssumption DEF IInv, ReadIsPosted, PastPost
    <3> QED BY <1>3, <2>3, <3>1, <3>2 DEF VolumesEffect
  <2> QED BY <2>2, <2>3
<1>9. WorkIsStarted'
      BY <1>2, <1>3 DEF IInv, WorkIsStarted, JobEffect
<1>10. DeleterHasRead'
      BY <1>2, <1>3 DEF IInv, DeleterHasRead, JobEffect, WorkAt, Received
<1>11. DeleterTookPV'
  <2>1. SUFFICES ASSUME NEW s \in Requests, NEW n \in PVs, job'[s] # None,
                        job'[s].work = "deleteVolume", pv'[n] = job'[s].vol
                 PROVE  FALSE
        BY DEF DeleterTookPV, WorkAt, Received
  <2>2. job[s] # None /\ job'[s].vol = job[s].vol /\ job'[s].vol # None
    <3>1. CASE s = r
          BY <1>3, <1>5, <2>1, <3>1 DEF JobEffect
    <3>2. CASE s # r
          BY <1>2, <2>1, <3>2 DEF IInv, DeleterHasRead, WorkAt, Received
    <3> QED BY <3>1, <3>2
  <2>3. PastPost(job[s].vol) /\ PVOf(job[s].vol) = PVOf(s)
        BY <2>2 DEF IInv, ReadIsPosted
  <2>4. pv'[n] = pv[n]
    <3>1. job[s].vol = r => ~WorkAt(r, "postPV")
          BY <2>3 DEF PastPost, WorkAt
    <3> QED BY <1>3, <2>1, <2>2, <3>1 DEF PVEffect
  <2>5. n = PVOf(s)
        BY <1>5, <2>1, <2>2, <2>3, <2>4 DEF IInv, PVIsPosted
  <2>6. CASE WorkAt(s, "deleteVolume")
        BY <2>1, <2>2, <2>4, <2>6 DEF IInv, DeleterTookPV
  <2>7. CASE ~WorkAt(s, "deleteVolume")
    <3>1. s = r
          BY <1>2, <2>1, <2>2, <2>7 DEF WorkAt, Received
    <3>2. pv' = [pv EXCEPT ![PVOf(r)] = None]
          BY <1>3, <2>1, <2>7, <3>1 DEF JobEffect
    <3> QED BY <1>5, <2>1, <2>2, <2>5, <3>1, <3>2
  <2> QED BY <2>6, <2>7
<1> QED BY <1>1, <1>6, <1>7, <1>8, <1>9, <1>10, <1>11 DEF IInv
-----------------------------------------------------------------------------
\* The invariant is inductive.
LEMMA NextIInv == IInv /\ [Next]_vars => IInv'
<1> SUFFICES ASSUME IInv, [Next]_vars PROVE IInv'
    OBVIOUS
<1>1. TypeOK /\ TypeOK'
      BY TypeStep DEF IInv
<1>2. \A q \in Requests : PastPost(q) => PastPost(q)' /\ PVOf(q)' = PVOf(q)
      BY <1>1, PastPostStays
<1>3. ASSUME NEW r \in Requests, ReceiveCreate(r) \/ ReceiveDelete(r)
      PROVE  IInv'
  <2>1. PICK c \in Claims, first \in Mains : Receive(r, c, first)
        BY <1>3 DEF ReceiveCreate, ReceiveDelete, Mains
  <2>2. /\ job[r] = None /\ job'[r].work = "none" /\ job'[r].vol = None
        /\ \A s \in Requests : s # r => job'[s] = job[s]
        /\ UNCHANGED <<volumes, pv, lost>>
        BY <1>1, <2>1 DEF Receive, Received, TypeOK
  <2>3. \A q \in Requests : PastPost(q) => q # r
        BY <2>2 DEF PastPost
  <2>4. \A s \in Requests : job'[s] # None /\ (job'[s].vol # None \/ job'[s].work # "none")
                               => s # r /\ job'[s] = job[s]
        BY <2>2
  <2>5. PVIsPosted'
        BY <1>1, <1>2, <2>2, <2>3 DEF IInv, PVIsPosted, PastPost, PVOf
  <2>6. ReadIsPosted'
        BY <1>1, <1>2, <2>4, <2>3, <2>2 DEF IInv, ReadIsPosted, PastPost, PVOf
  <2>7. PosterHasVolume' /\ WorkIsStarted' /\ DeleterHasRead' /\ DeleterTookPV'
        BY <2>2, <2>4 DEF IInv, PosterHasVolume, WorkIsStarted, DeleterHasRead,
           DeleterTookPV, WorkAt, Received
  <2> QED BY <1>1, <2>5, <2>6, <2>7 DEF IInv
<1>4. ASSUME NEW r \in Requests, Step(r) PROVE IInv'
      BY <1>4, StepIInv
<1>5. ASSUME UNCHANGED <<volumes, pv, job, lost>> PROVE IInv'
      BY <1>1, <1>5 DEF IInv, PVIsPosted, ReadIsPosted, PosterHasVolume, WorkIsStarted,
         DeleterHasRead, DeleterTookPV, WorkAt, Received, PastPost, PVOf
<1>6. CASE Restart
  <2>1. UNCHANGED <<volumes, pv, lost>>
        BY <1>6 DEF Restart
  <2>2. \A s \in Requests :
            /\ job'[s] = None <=> job[s] = None
            /\ job'[s] # None => job'[s].work = "none" /\ job'[s].vol = None
    <3>1. ASSUME NEW s \in Requests, Received(s)
          PROVE  [Ended(job[s]) EXCEPT !.main = "done"] \in Job
          BY <1>1, <3>1, JobRecord DEF Ended, Job, Mains, Works
    <3> QED BY <1>1, <1>6, <3>1, JobRecord, VolumeAssumption
            DEF Restart, Received, Ended, Job
  <2>3. PVIsPosted'
        BY <1>1, <1>2, <2>1, <2>2 DEF IInv, PVIsPosted, PastPost, PVOf
  <2>4. ReadIsPosted' /\ WorkIsStarted'
        BY <2>2 DEF ReadIsPosted, WorkIsStarted
  <2>5. \A s \in Requests, call \in {"postPV", "deletePV", "deleteVolume"} : ~WorkAt(s, call)'
        BY <2>2 DEF WorkAt, Received
  <2>6. PosterHasVolume' /\ DeleterHasRead' /\ DeleterTookPV'
        BY <2>5 DEF PosterHasVolume, DeleterHasRead, DeleterTookPV
  <2> QED BY <1>1, <2>3, <2>4, <2>6 DEF IInv
<1>7. ASSUME NEW c \in Claims, Bind(c) PROVE IInv'
      BY <1>5, <1>7 DEF Bind
<1>8. CASE UNCHANGED vars
      BY <1>5, <1>8 DEF vars
<1> QED BY <1>3, <1>4, <1>6, <1>7, <1>8 DEF Next

\* In every state the variables have their types, ...
THEOREM TypeCorrect == Spec => []TypeOK
<1>1. Init => TypeOK
      BY InitIInv DEF IInv
<1> QED BY <1>1, TypeStep, PTL DEF Spec

\* ... and no PV points to a volume that was deleted, but for those whose
\* posting took effect though its answer was lost: however deletions,
\* re-creations, undone creations, failed calls and process deaths interleave.
THEOREM VolumesKept == Spec => []PVHasVolume
<1>1. IInv => PVHasVolume
      BY DEF IInv, PVIsPosted, PVHasVolume
<1> QED BY <1>1, InitIInv, NextIInv, PTL DEF Spec
-----------------------------------------------------------------------------
(***************************************************************************)
(* Nothing leaks.  While the requests about a claim come one at a time, a  *)
(* claim, its PV and its volumes differ only as far as the one unfinished  *)
(* request has got, and no further when it ends.                           *)
(***************************************************************************)
About(r, c) == Received(r) /\ ClaimOf(r) = c
Unfinished(r, c) == About(r, c) /\ ~Finished(r)
InTurn(c) == \A q, r \in Requests : Unfinished(q, c) /\ Unfinished(r, c) => q = r
PVNow(c) == pv[PvcName2PvName[c]]

\* No other claim has the PV name of c.
Sole(c) == \A d \in Claims : PvcName2PvName[d] = PvcName2PvName[c] => d = c

VolumesReceived == \A x \in volumes : Received(x)
Turns == \A c \in Claims : PvcName2PvName[c] \notin raced => InTurn(c)
TurnInv == IInv /\ VolumesReceived /\ Turns

\* The volumes of c: the one its PV points to, and the one r is making,
\* unmaking or about to delete.
Stocks(r, c) ==
    LET v == PVNow(c)
        j == job[r]
    IN  /\ j.work = "undo" => v # r
        /\ j.work = "deletePV" => j.vol = v
        /\ \A x \in Requests :
              x \in volumes /\ About(x, c) <=>
                 \/ x = v
                 \/ x = r /\ j.work \in {"postPV", "undo"}
                 \/ x = j.vol /\ j.work = "deleteVolume"
StockAtRest(c) ==
    \A x \in Requests : x \in volumes /\ About(x, c) <=> x = PVNow(c)
Stocked(c) ==
    /\ \A r \in Requests : Unfinished(r, c) => Stocks(r, c)
    /\ (\A r \in Requests : ~Unfinished(r, c)) => StockAtRest(c)

\* The PV of c is ahead of its claim, or due, or left by a deletion; else both
\* are there or neither.
PVAhead(r) == job[r].main = "postClaim" /\ job[r].work \in {"none", "getClaim"}
PVDue(r)   == job[r].main = "done" /\ job[r].work \in {"createVolume", "postPV"}
PVLeft(r)  == job[r].work \in {"getPV", "deletePV"}
MatchAtRest(c) ==
    /\ pvc[c] = None <=> PVNow(c) = None
    /\ pvc[c] # None => pvc[c].vol \in {PVNow(c), None}
Matches(r, c) ==
    LET v == PVNow(c)
    IN  /\ PVAhead(r) => v # None
        /\ PVDue(r) => pvc[c] # None
        /\ PVLeft(r) => v # None /\ pvc[c] = None
        /\ PVAhead(r) \/ PVDue(r) \/ PVLeft(r) \/ (pvc[c] = None <=> v = None)
        /\ pvc[c] # None => pvc[c].vol \in {v, None}
        /\ job[r].work = "undo" => v # None
        /\ job[r].work \in {"getClaim", "putClaim"} => v = r
        /\ job[r].work \in {"getPV", "deletePV", "deleteVolume"} =>
               job[r].main = "done"
Matched(c) ==
    /\ \A r \in Requests : Unfinished(r, c) => Matches(r, c)
    /\ (\A r \in Requests : ~Unfinished(r, c)) => MatchAtRest(c)
-----------------------------------------------------------------------------
\* What the ways to go on do to a job.
Becomes(r, main, work, vol) ==
    job'[r].main = main /\ job'[r].work = work /\ job'[r].vol = vol

LEMMA JobMoves ==
    ASSUME TypeOK, NEW r \in Requests, Received(r)
    PROVE  /\ \A call : Main(r, call) => Becomes(r, call, job[r].work, job[r].vol)
           /\ \A call : Work(r, call) => Becomes(r, job[r].main, call, job[r].vol)
           /\ Stop(r) => Becomes(r, job[r].main, "none", None)
           /\ \A main, work :
                  job' = [job EXCEPT ![r].main = main, ![r].work = work] =>
                  Becomes(r, main, work, job[r].vol)
           /\ \A copy :
                  job' = [job EXCEPT ![r].work = "putClaim", ![r].copy = copy] =>
                  Becomes(r, job[r].main, "putClaim", job[r].vol)
           /\ \A vol :
                  job' = [job EXCEPT ![r].work = "deletePV", ![r].vol = vol] =>
                  Becomes(r, job[r].main, "deletePV", vol)
<1> PICK j \in Job : j = job[r]
    BY JobRecord
<1>0. job \in [Requests -> Job \cup {None}]
      BY DEF TypeOK
<1>1. ASSUME NEW call, Main(r, call) PROVE Becomes(r, call, j.work, j.vol)
  <2>1. job'[r] = [j EXCEPT !.main = call]
        BY <1>0, <1>1 DEF Main
  <2> QED BY <2>1 DEF Job, Becomes
<1>2. ASSUME NEW call, Work(r, call) PROVE Becomes(r, j.main, call, j.vol)
  <2>1. job'[r] = [j EXCEPT !.work = call]
        BY <1>0, <1>2 DEF Work
  <2> QED BY <2>1 DEF Job, Becomes
<1>3. ASSUME Stop(r) PROVE Becomes(r, j.main, "none", None)
  <2>1. job'[r] = Ended(j)
        BY <1>0, <1>3 DEF Stop
  <2> QED BY <2>1 DEF Job, Ended, Becomes
<1>4. ASSUME NEW main, NEW work,
             job' = [job EXCEPT ![r].main = main, ![r].work = work]
      PROVE  Becomes(r, main, work, j.vol)
  <2>1. job'[r] = [j EXCEPT !.main = main, !.work = work]
        BY <1>0, <1>4
  <2> QED BY <2>1 DEF Job, Becomes
<1>5. ASSUME NEW copy, job' = [job EXCEPT ![r].work = "putClaim", ![r].copy = copy]
      PROVE  Becomes(r, j.main, "putClaim", j.vol)
  <2>1. job'[r] = [j EXCEPT !.work = "putClaim", !.copy = copy]
        BY <1>0, <1>5
  <2> QED BY <2>1 DEF Job, Becomes
<1>6. ASSUME NEW vol, job' = [job EXCEPT ![r].work = "deletePV", ![r].vol = vol]
      PROVE  Becomes(r, j.main, "deletePV", vol)
  <2>1. job'[r] = [j EXCEPT !.work = "deletePV", !.vol = vol]
        BY <1>0, <1>6
  <2> QED BY <2>1 DEF Job, Becomes
<1> QED BY <1>1, <1>2, <1>3, <1>4, <1>5, <1>6

\* A step of a request leaves alone what the others are about.
LEMMA AboutStays ==
    ASSUME TypeOK, NEW r \in Requests, Step(r)
    PROVE  /\ Received(r) /\ ~Finished(r)
           /\ \A x \in Requests : Received(x)' <=> Received(x)
           /\ \A x \in Requests : Received(x) => ClaimOf(x)' = ClaimOf(x)
           /\ \A x \in Requests : x # r => (Finished(x)' <=> Finished(x))
<1>1. Received(r) /\ ~Finished(r)
      BY DEF Step, ClusterList, PostClaim, DeleteClaim, CreateVolume, PostPV, Undo, GetClaim,
         PutClaim, GetPV, DeletePV, DeleteVolume, MainAt, WorkAt, Finished
<1>2. /\ \A x \in Requests : x # r => job'[x] = job[x]
      /\ job'[r] \in Job /\ job'[r].claim = job[r].claim
      BY OneJob
<1> QED BY <1>1, <1>2, VolumeAssumption DEF Received, ClaimOf, Finished

\* A call that took effect, or failed without any: what a step of r does
\* while no call has failed that was sent.
Clean(r) ==
    \/ NoFault
    \/ /\ ~CreateVolume(r) /\ ~Undo(r) /\ ~DeleteVolume(r)
       /\ UNCHANGED <<pv, pvc>>

\* A step of r keeps the volumes of its claim accounted for.
LEMMA StocksStep ==
    ASSUME TurnInv, NEW r \in Requests, Step(r), Clean(r), NEW c \in Claims,
           About(r, c), Stocks(r, c)
    PROVE  Stocks(r, c)'
<1>1. TypeOK /\ job[r] \in Job /\ Received(r)
      BY AboutStays, JobRecord DEF TurnInv, IInv
<1> PICK n \in PVs : n = PvcName2PvName[c] /\ n = PVOf(r)
    BY VolumeAssumption DEF About, PVOf, ClaimOf
<1> DEFINE v == pv[n]
           Kept == \A x \in Requests : (x \in volumes /\ About(x, c))' <=>
                                        \/ x = pv'[n]
                                        \/ x = r /\ job'[r].work \in {"postPV", "undo"}
                                        \/ x = job'[r].vol /\ job'[r].work = "deleteVolume"
<1>0. NoFault => ~Fault
      BY <1>1, VolumeAssumption DEF TypeOK, NoFault, Fault
<1>2. \A x \in Requests : About(x, c)' <=> About(x, c)
      BY <1>1, AboutStays DEF About
<1>3. /\ job[r].work = "undo" => v # r
      /\ job[r].work = "deletePV" => job[r].vol = v
      /\ \A x \in Requests :
            x \in volumes /\ About(x, c) <=>
               \/ x = v
               \/ x = r /\ job[r].work \in {"postPV", "undo"}
               \/ x = job[r].vol /\ job[r].work = "deleteVolume"
      BY DEF Stocks, PVNow
<1>4. job[r].main \in {"clusterList", "deleteClaim"} => job[r].work = "none"
      BY <1>1 DEF TurnInv, IInv, WorkIsStarted, Received
<1>5. SUFFICES /\ job'[r].work = "undo" => pv'[n] # r
               /\ job'[r].work = "deletePV" => job'[r].vol = pv'[n]
               /\ Kept
      BY DEF Stocks, PVNow
<1>s. ASSUME UNCHANGED <<volumes, pv>>,
             job[r].work \notin {"postPV", "undo", "deleteVolume"},
             job'[r].work \notin {"postPV", "undo", "deleteVolume"}
      PROVE  Kept
      BY <1>2, <1>3, <1>s
<1>6. CASE ClusterList(r)
  <2>1. job[r].work = "none" /\ UNCHANGED <<volumes, pv>>
        BY <1>4, <1>6 DEF ClusterList, MainAt
  <2>2. \/ job' = [job EXCEPT ![r].main = "postClaim", ![r].work = "createVolume"]
        \/ Main(r, "done")
        BY <1>6 DEF ClusterList
  <2>3. job'[r].work \in {"createVolume", "none"}
    <3>1. \/ Becomes(r, "postClaim", "createVolume", job[r].vol)
          \/ Becomes(r, "done", job[r].work, job[r].vol)
          BY <1>1, <2>2, JobMoves
    <3> QED BY <2>1, <3>1 DEF Becomes
  <2>4. Kept
        BY <1>s, <2>1, <2>3
  <2> QED BY <2>3, <2>4
<1>7. CASE PostClaim(r)
  <2>1. job'[r].work = job[r].work /\ job'[r].vol = job[r].vol
        BY <1>1, <1>7, JobMoves DEF PostClaim, Becomes
  <2>2. UNCHANGED <<volumes, pv>>
        BY <1>7 DEF PostClaim
  <2> QED BY <1>2, <1>3, <2>1, <2>2
<1>8. CASE DeleteClaim(r)
  <2>1. job[r].work = "none" /\ UNCHANGED <<volumes, pv>>
        BY <1>4, <1>8 DEF DeleteClaim, MainAt
  <2>2. \/ job' = [job EXCEPT ![r].main = "done", ![r].work = "getPV"]
        \/ Main(r, "done")
        BY <1>8 DEF DeleteClaim
  <2>3. job'[r].work \in {"getPV", "none"}
    <3>1. \/ Becomes(r, "done", "getPV", job[r].vol)
          \/ Becomes(r, "done", job[r].work, job[r].vol)
          BY <1>1, <2>2, JobMoves
    <3> QED BY <2>1, <3>1 DEF Becomes
  <2>4. Kept
        BY <1>s, <2>1, <2>3
  <2> QED BY <2>3, <2>4
<1>9. CASE CreateVolume(r)
  <2>1. /\ job[r].work = "createVolume" /\ volumes' = volumes \cup {r} /\ pv' = pv
        /\ Work(r, "postPV")
        BY <1>0, <1>9 DEF CreateVolume, WorkAt, Clean
  <2>2. job'[r].work = "postPV"
        BY <1>1, <2>1, JobMoves DEF Becomes
  <2> QED BY <1>2, <1>3, <2>1, <2>2
<1>10. CASE PostPV(r)
  <2>1. job[r].work = "postPV" /\ volumes' = volumes /\ v # r
    <3>1. job[r].work = "postPV" /\ volumes' = volumes
          BY <1>10 DEF PostPV, WorkAt
    <3> QED BY <3>1, VolumeAssumption DEF TurnInv, IInv, PVIsPosted, PastPost
  <2>2. CASE v = None /\ pv' = [pv EXCEPT ![n] = r] /\ Work(r, "getClaim")
    <3>0. Becomes(r, job[r].main, "getClaim", job[r].vol)
          BY <1>1, <2>2, JobMoves
    <3>1. job'[r].work = "getClaim" /\ pv'[n] = r
          BY <1>1, <2>2, <3>0 DEF Becomes, TypeOK
    <3> QED BY <1>2, <1>3, <2>1, <2>2, <3>1, VolumeAssumption
  <2>3. CASE pv' = pv /\ Work(r, "undo")
    <3>0. Becomes(r, job[r].main, "undo", job[r].vol)
          BY <1>1, <2>3, JobMoves
    <3>1. job'[r].work = "undo"
          BY <3>0 DEF Becomes
    <3> QED BY <1>2, <1>3, <2>1, <2>3, <3>1
  <2>4. ~(pv[n] = None /\ pv' = [pv EXCEPT ![n] = r] /\ Work(r, "undo") /\ Fault)
    <3>1. pv[n] = None /\ pv' = [pv EXCEPT ![n] = r] => pv' # pv
          BY <1>1, VolumeAssumption DEF TypeOK
    <3> QED BY <1>0, <3>1 DEF Clean
  <2>5. \/ pv[n] = None /\ pv' = [pv EXCEPT ![n] = r] /\ Work(r, "getClaim")
        \/ pv' = pv /\ Work(r, "undo")
        BY <1>10, <2>4 DEF PostPV
  <2> QED BY <2>2, <2>3, <2>5
<1>11. CASE Undo(r)
  <2>1. /\ job[r].work = "undo" /\ volumes' = volumes \ {r} /\ pv' = pv
        /\ Stop(r)
        BY <1>0, <1>11 DEF Undo, WorkAt, Clean
  <2>2. job'[r].work = "none"
        BY <1>1, <2>1, JobMoves DEF Becomes
  <2> QED BY <1>2, <1>3, <2>1, <2>2
<1>12. CASE GetClaim(r) \/ PutClaim(r)
  <2>1. /\ job[r].work \in {"getClaim", "putClaim"} /\ job'[r].work \in {"putClaim", "none"}
        BY <1>1, <1>12, JobMoves DEF GetClaim, PutClaim, WorkAt, Becomes
  <2>2. UNCHANGED <<volumes, pv>>
        BY <1>12 DEF GetClaim, PutClaim
  <2> QED BY <1>2, <1>3, <2>1, <2>2
<1>13. CASE GetPV(r)
  <2>1. job[r].work = "getPV" /\ UNCHANGED <<volumes, pv>>
        BY <1>13 DEF GetPV, WorkAt
  <2>2. \/ job' = [job EXCEPT ![r].work = "deletePV", ![r].vol = v]
        \/ Stop(r)
        BY <1>13 DEF GetPV
  <2>3. \/ job'[r].work = "deletePV" /\ job'[r].vol = v
        \/ job'[r].work = "none"
    <3>1. \/ Becomes(r, job[r].main, "deletePV", v)
          \/ Becomes(r, job[r].main, "none", None)
          BY <1>1, <2>2, JobMoves
    <3> QED BY <3>1 DEF Becomes
  <2>4. Kept
        BY <1>s, <2>1, <2>3
  <2> QED BY <2>1, <2>3, <2>4
<1>14. CASE DeletePV(r)
  <2>1. job[r].work = "deletePV" /\ volumes' = volumes
        BY <1>14 DEF DeletePV, WorkAt
  <2>2. CASE pv' = [pv EXCEPT ![n] = None] /\ Work(r, "deleteVolume")
    <3>0. Becomes(r, job[r].main, "deleteVolume", job[r].vol)
          BY <1>1, <2>2, JobMoves
    <3>1. job'[r].work = "deleteVolume" /\ job'[r].vol = job[r].vol /\ pv'[n] = None
          BY <1>1, <2>2, <3>0 DEF Becomes, TypeOK
    <3> QED BY <1>2, <1>3, <2>1, <3>1, VolumeAssumption
  <2>3. CASE pv' = pv /\ Stop(r)
    <3>0. Becomes(r, job[r].main, "none", None)
          BY <1>1, <2>3, JobMoves
    <3>1. job'[r].work = "none"
          BY <3>0 DEF Becomes
    <3> QED BY <1>2, <1>3, <2>1, <2>3, <3>1
  <2> QED BY <1>0, <1>14, <2>2, <2>3 DEF DeletePV, Clean
<1>15. CASE DeleteVolume(r)
  <2>1. /\ job[r].work = "deleteVolume" /\ volumes' = volumes \ {job[r].vol} /\ pv' = pv
        /\ Stop(r)
        BY <1>0, <1>15 DEF DeleteVolume, WorkAt, Clean
  <2>2. job'[r].work = "none"
        BY <1>1, <2>1, JobMoves DEF Becomes
  <2>3. v # job[r].vol
        BY <1>15 DEF DeleteVolume, TurnInv, IInv, DeleterTookPV
  <2> QED BY <1>2, <1>3, <2>1, <2>2, <2>3
<1> QED BY <1>6, <1>7, <1>8, <1>9, <1>10, <1>11, <1>12, <1>13, <1>14, <1>15 DEF Step

\* A step of r whose call did not fail keeps the claim in step with its PV.
LEMMA MatchesStep ==
    ASSUME TurnInv, NEW r \in Requests, Step(r), NoFault, NEW c \in Claims,
           About(r, c), Matches(r, c)
    PROVE  Matches(r, c)'
<1>1. TypeOK /\ job[r] \in Job /\ Received(r)
      BY AboutStays, JobRecord DEF TurnInv, IInv
<1> PICK n \in PVs : n = PvcName2PvName[c] /\ n = PVOf(r)
    BY VolumeAssumption DEF About, PVOf, ClaimOf
<1> DEFINE v == pv[n]
           k == pvc[c]
<1>0. ~Fault
      BY <1>1, VolumeAssumption DEF TypeOK, NoFault, Fault
<1>2. /\ c = ClaimOf(r) /\ PVNow(c) = v /\ PVNow(c)' = pv'[n]
      /\ v \in Requests \cup {None} /\ k \in Claim \cup {None}
      BY <1>1 DEF About, PVNow, TypeOK
<1>4. /\ job[r].main \in {"clusterList", "deleteClaim"} => job[r].work = "none"
      /\ job[r].main \in Mains
      BY <1>1 DEF TurnInv, IInv, WorkIsStarted, Received, Job, Mains
<1> USE DEF PVAhead, PVDue, PVLeft, Mains
<1>6. CASE ClusterList(r)
  <2>1. job[r].work = "none" /\ UNCHANGED <<pv, pvc>> /\ job[r].main = "clusterList"
        BY <1>4, <1>6 DEF ClusterList, MainAt
  <2>2. job' = [job EXCEPT ![r].main = "postClaim", ![r].work = "createVolume"]
        BY <1>0, <1>6 DEF ClusterList
  <2>3. Becomes(r, "postClaim", "createVolume", job[r].vol)
        BY <1>1, <2>2, JobMoves
  <2> QED BY <1>2, <2>1, <2>3 DEF Becomes, Matches
<1>7. CASE PostClaim(r)
  <2>1. job[r].main = "postClaim" /\ pv' = pv /\ Main(r, "done")
        BY <1>7 DEF PostClaim, MainAt
  <2>2. pvc' = [pvc EXCEPT ![c] = IF @ = None THEN NewClaim(r) ELSE @]
        BY <1>0, <1>2, <1>7 DEF PostClaim
  <2>3. pvc'[c] # None /\ pvc'[c].vol \in {k.vol, None} /\ (k # None => pvc'[c] = k)
    <3>1. NewClaim(r) \in Claim /\ NewClaim(r).vol = None
          BY DEF NewClaim, Claim
    <3> QED BY <1>1, <2>2, <3>1, VolumeAssumption DEF TypeOK
  <2>4. k = None => pvc'[c].vol = None
        BY <1>1, <2>2 DEF TypeOK, NewClaim
  <2>5. Becomes(r, "done", job[r].work, job[r].vol)
        BY <1>1, <2>1, JobMoves
  <2>6. job[r].work \in Works
        BY <1>1 DEF Job
  <2>7. /\ job[r].work \in {"none", "getClaim"} => v # None
        /\ job[r].work \notin {"none", "getClaim"} => (k = None <=> v = None)
        /\ job[r].work \in {"undo", "getClaim", "putClaim"} => v # None
        /\ job[r].work \in {"getClaim", "putClaim"} => v = r
        /\ job[r].work \notin {"getPV", "deletePV", "deleteVolume"}
        /\ k # None => k.vol \in {v, None}
        BY <1>1, <1>2, <2>1, VolumeAssumption DEF Matches
  <2>8. pvc'[c].vol \in {v, None}
        BY <2>3, <2>4, <2>7
  <2>9. job'[r].main = "done" /\ job'[r].work = job[r].work /\ pv'[n] = v
        BY <2>1, <2>5 DEF Becomes
  <2> QED BY <1>2, <2>3, <2>6, <2>7, <2>8, <2>9 DEF Matches, Works
<1>8. CASE DeleteClaim(r)
  <2>1. job[r].work = "none" /\ pv' = pv /\ job[r].main = "deleteClaim"
        BY <1>4, <1>8 DEF DeleteClaim, MainAt
  <2>2. CASE k # None
    <3>1. /\ pvc' = [pvc EXCEPT ![c] = None]
          /\ job' = [job EXCEPT ![r].main = "done", ![r].work = "getPV"]
          BY <1>0, <1>2, <1>8, <2>2 DEF DeleteClaim
    <3>2. Becomes(r, "done", "getPV", job[r].vol) /\ pvc'[c] = None
          BY <1>1, <3>1, JobMoves DEF TypeOK
    <3> QED BY <1>2, <2>1, <2>2, <3>2 DEF Becomes, Matches
  <2>3. CASE k = None
    <3>1. pvc' = pvc /\ Main(r, "done")
          BY <1>0, <1>2, <1>8, <2>3 DEF DeleteClaim
    <3>2. Becomes(r, "done", job[r].work, job[r].vol)
          BY <1>1, <3>1, JobMoves
    <3> QED BY <1>2, <2>1, <2>3, <3>1, <3>2 DEF Becomes, Matches
  <2> QED BY <2>2, <2>3
<1>9. CASE CreateVolume(r)
  <2>1. job[r].work = "createVolume" /\ UNCHANGED <<pv, pvc>> /\ Work(r, "postPV")
        BY <1>0, <1>9 DEF CreateVolume, WorkAt
  <2>2. Becomes(r, job[r].main, "postPV", job[r].vol)
        BY <1>1, <2>1, JobMoves
  <2> QED BY <1>2, <2>1, <2>2 DEF Becomes, Matches
<1>10. CASE PostPV(r)
  <2>1. /\ job[r].work = "postPV" /\ pvc' = pvc
        /\ job[r].main \in {"postClaim", "done"}
        BY <1>4, <1>10 DEF PostPV, WorkAt
  <2>2. \/ v = None /\ pv' = [pv EXCEPT ![n] = r] /\ Work(r, "getClaim")
        \/ v # None /\ pv' = pv /\ Work(r, "undo")
        BY <1>0, <1>10 DEF PostPV
  <2>3. CASE v = None /\ pv' = [pv EXCEPT ![n] = r] /\ Work(r, "getClaim")
    <3>1. Becomes(r, job[r].main, "getClaim", job[r].vol)
          BY <1>1, <2>3, JobMoves
    <3>2. pv'[n] = r /\ r # None
          BY <1>1, <2>3, VolumeAssumption DEF TypeOK
    <3> QED BY <1>2, <2>1, <2>3, <3>1, <3>2 DEF Becomes, Matches
  <2>4. CASE v # None /\ pv' = pv /\ Work(r, "undo")
    <3>1. Becomes(r, job[r].main, "undo", job[r].vol)
          BY <1>1, <2>4, JobMoves
    <3> QED BY <1>2, <2>1, <2>4, <3>1 DEF Becomes, Matches
  <2> QED BY <2>2, <2>3, <2>4
<1>11. CASE Undo(r)
  <2>1. job[r].work = "undo" /\ UNCHANGED <<pv, pvc>> /\ Stop(r)
        BY <1>11 DEF Undo, WorkAt
  <2>2. Becomes(r, job[r].main, "none", None)
        BY <1>1, <2>1, JobMoves
  <2> QED BY <1>2, <2>1, <2>2 DEF Becomes, Matches
<1>12. CASE GetClaim(r)
  <2>1. job[r].work = "getClaim" /\ UNCHANGED <<pv, pvc>> /\ r # None
        BY <1>12, VolumeAssumption DEF GetClaim, WorkAt
  <2>2. \/ k # None /\ job' = [job EXCEPT ![r].work = "putClaim", ![r].copy = pvc[c]]
        \/ k = None /\ Stop(r)
        BY <1>0, <1>2, <1>12 DEF GetClaim
  <2>3. \/ k # None /\ Becomes(r, job[r].main, "putClaim", job[r].vol)
        \/ k = None /\ Becomes(r, job[r].main, "none", None)
        BY <1>1, <2>2, JobMoves
  <2> QED BY <1>2, <2>1, <2>3 DEF Becomes, Matches
<1>13. CASE PutClaim(r)
  <2>1. job[r].work = "putClaim" /\ pv' = pv /\ Stop(r) /\ r # None
        BY <1>13, VolumeAssumption DEF PutClaim, WorkAt
  <2>2. pvc' = [pvc EXCEPT ![c] = IF @ \in {job[r].copy} \ {None}
                                  THEN Annotated(@, r) ELSE @]
        BY <1>0, <1>2, <1>13 DEF PutClaim
  <2>3. \/ pvc'[c] = k
        \/ k # None /\ pvc'[c] = Annotated(k, r)
        BY <1>1, <2>2 DEF TypeOK
  <2>4. k # None => /\ Annotated(k, r) \in Claim
                    /\ Annotated(k, r).vol \in {k.vol, r}
        BY <1>2 DEF Annotated, Claim
  <2>5. (pvc'[c] = None <=> k = None) /\ (k # None => pvc'[c].vol \in {k.vol, r})
        BY <2>3, <2>4, VolumeAssumption
  <2>6. Becomes(r, job[r].main, "none", None)
        BY <1>1, <2>1, JobMoves
  <2> QED BY <1>2, <2>1, <2>5, <2>6 DEF Becomes, Matches
<1>14. CASE GetPV(r)
  <2>1. job[r].work = "getPV" /\ UNCHANGED <<pv, pvc>>
        BY <1>14 DEF GetPV, WorkAt
  <2>2. job' = [job EXCEPT ![r].work = "deletePV", ![r].vol = v]
    <3>1. v # None
          BY <1>2, <2>1 DEF Matches
    <3> QED BY <1>0, <1>14, <3>1 DEF GetPV
  <2>3. Becomes(r, job[r].main, "deletePV", v)
        BY <1>1, <2>2, JobMoves
  <2> QED BY <1>2, <2>1, <2>3 DEF Becomes, Matches
<1>15. CASE DeletePV(r)
  <2>1. job[r].work = "deletePV" /\ pvc' = pvc
        BY <1>15 DEF DeletePV, WorkAt
  <2>2. pv' = [pv EXCEPT ![n] = None] /\ Work(r, "deleteVolume")
    <3>1. v # None
          BY <1>2, <2>1 DEF Matches
    <3> QED BY <1>0, <1>15, <3>1 DEF DeletePV
  <2>3. Becomes(r, job[r].main, "deleteVolume", job[r].vol) /\ pv'[n] = None
        BY <1>1, <2>2, JobMoves DEF TypeOK
  <2> QED BY <1>2, <2>1, <2>3 DEF Becomes, Matches
<1>16. CASE DeleteVolume(r)
  <2>1. job[r].work = "deleteVolume" /\ UNCHANGED <<pv, pvc>> /\ Stop(r)
        BY <1>16 DEF DeleteVolume, WorkAt
  <2>2. Becomes(r, job[r].main, "none", None)
        BY <1>1, <2>1, JobMoves
  <2> QED BY <1>2, <2>1, <2>2 DEF Becomes, Matches
<1> QED BY <1>6, <1>7, <1>8, <1>9, <1>10, <1>11, <1>12, <1>13, <1>14, <1>15, <1>16 DEF Step
-----------------------------------------------------------------------------
\* A goroutine that has moved on was there before, unless its request came in.
LEMMA Elders ==
    ASSUME TypeOK, [Next]_vars, NEW c \in Claims,
           \A r \in Requests : ~ReceiveCreate(r) /\ ~ReceiveDelete(r)
    PROVE  \A x \in Requests : /\ About(x, c)' <=> About(x, c)
                               /\ Received(x)' <=> Received(x)
                               /\ Unfinished(x, c)' => Unfinished(x, c)
<1>1. ASSUME NEW r \in Requests, Step(r), NEW x \in Requests
      PROVE  /\ About(x, c)' <=> About(x, c)
             /\ Received(x)' <=> Received(x)
             /\ Unfinished(x, c)' => Unfinished(x, c)
      BY <1>1, AboutStays DEF About, Unfinished
<1>2. ASSUME job' = job, NEW x \in Requests
      PROVE  /\ About(x, c)' <=> About(x, c)
             /\ Received(x)' <=> Received(x)
             /\ Unfinished(x, c)' => Unfinished(x, c)
      BY <1>2 DEF About, Unfinished, Received, ClaimOf, Finished
<1>3. ASSUME Restart, NEW x \in Requests
      PROVE  /\ About(x, c)' <=> About(x, c)
             /\ Received(x)' <=> Received(x)
             /\ Unfinished(x, c)' => Unfinished(x, c)
  <2>1. CASE Received(x)
    <3> PICK j \in Job : j = job[x]
        BY <2>1, JobRecord
    <3>1. job'[x] = [Ended(j) EXCEPT !.main = "done"]
          BY <1>3, <2>1 DEF Restart
    <3>2. job'[x] \in Job /\ job'[x].claim = j.claim /\ Finished(x)'
          BY <3>1 DEF Ended, Job, Mains, Works, Finished
    <3> QED BY <2>1, <3>2, VolumeAssumption DEF About, Unfinished, Received, ClaimOf
  <2>2. CASE ~Received(x)
    <3>1. job'[x] = None
          BY <1>3, <2>2 DEF Restart
    <3> QED BY <2>2, <3>1 DEF About, Unfinished, Received
  <2> QED BY <2>1, <2>2
<1>4. Restart \/ job' = job \/ \E r \in Requests : Step(r)
      BY DEF Next, Bind, vars
<1> QED BY <1>1, <1>2, <1>3, <1>4

\* A request that comes in is the only new one, and raced tells whether
\* another about the same PV name is unfinished.
LEMMA Newcomer ==
    ASSUME TypeOK, NEW r \in Requests, ReceiveCreate(r) \/ ReceiveDelete(r)
    PROVE  \E d \in Claims :
              /\ ~Received(r) /\ Unfinished(r, d)'
              /\ job'[r].work = "none" /\ job'[r].vol = None
              /\ job'[r].main \in {"clusterList", "deleteClaim"}
              /\ \A x \in Requests : x # r => job'[x] = job[x]
              /\ PvcName2PvName[d] \notin raced' =>
                     \A x \in Requests : ~Unfinished(x, d)
              /\ raced \subseteq raced' /\ UNCHANGED <<volumes, pv, pvc, faults>>
<1>1. PICK d \in Claims, first \in {"clusterList", "deleteClaim"} : Receive(r, d, first)
      BY DEF ReceiveCreate, ReceiveDelete
<1> DEFINE new == [claim |-> d, main |-> first, work |-> "none",
                   vol |-> None, copy |-> None]
<1>2. /\ ~Received(r) /\ UNCHANGED <<volumes, pv, pvc, faults>> /\ raced \subseteq raced'
      /\ job' = [job EXCEPT ![r] = new]
      BY <1>1 DEF Receive
<1>3. job'[r] = new /\ \A x \in Requests : x # r => job'[x] = job[x]
      BY <1>2 DEF TypeOK
<1>4. new \in Job
      BY DEF Job, Mains, Works
<1>5. Unfinished(r, d)'
      BY <1>3, <1>4, VolumeAssumption DEF Unfinished, About, Received, ClaimOf, Finished
<1>6. PvcName2PvName[d] \notin raced' => \A x \in Requests : ~Unfinished(x, d)
      BY <1>1 DEF Receive, Unfinished, About, PVOf, ClaimOf
<1> QED BY <1>2, <1>3, <1>5, <1>6

\* Requests about a claim stay in turn, as long as none raced.
LEMMA TurnStep == TurnInv /\ [Next]_vars => TurnInv'
<1> SUFFICES ASSUME TurnInv, [Next]_vars PROVE TurnInv'
    OBVIOUS
<1>1. TypeOK /\ IInv'
      BY NextIInv DEF TurnInv, IInv
<1>2. ASSUME NEW r \in Requests, ReceiveCreate(r) \/ ReceiveDelete(r)
      PROVE  VolumesReceived' /\ Turns'
  <2> PICK d \in Claims :
              /\ ~Received(r) /\ Unfinished(r, d)'
              /\ job'[r].work = "none" /\ job'[r].vol = None
              /\ job'[r].main \in {"clusterList", "deleteClaim"}
              /\ \A x \in Requests : x # r => job'[x] = job[x]
              /\ PvcName2PvName[d] \notin raced' =>
                     \A x \in Requests : ~Unfinished(x, d)
              /\ raced \subseteq raced' /\ UNCHANGED <<volumes, pv, pvc, faults>>
      BY <1>1, <1>2, Newcomer
  <2>1. VolumesReceived'
        BY <1>1 DEF TurnInv, TypeOK, VolumesReceived, Received
  <2>2. ASSUME NEW c \in Claims, PvcName2PvName[c] \notin raced' PROVE InTurn(c)'
    <3>1. \A x \in Requests : x # r => (Unfinished(x, c)' <=> Unfinished(x, c))
          BY DEF Unfinished, About, Received, ClaimOf, Finished
    <3>2. CASE c = d
          BY <2>2, <3>1, <3>2 DEF InTurn
    <3>3. CASE c # d
      <4>1. ~Unfinished(r, c)'
            BY <3>3 DEF Unfinished, About
      <4>2. InTurn(c)
            BY <2>2 DEF TurnInv, Turns
      <4> QED BY <3>1, <4>1, <4>2 DEF InTurn
    <3> QED BY <3>2, <3>3
  <2> QED BY <2>1, <2>2 DEF Turns
<1>3. ASSUME \A r \in Requests : ~ReceiveCreate(r) /\ ~ReceiveDelete(r)
      PROVE  VolumesReceived' /\ Turns'
  <2>1. ASSUME NEW c \in Claims PROVE InTurn(c) => InTurn(c)'
        BY <1>1, <1>3, Elders DEF InTurn
  <2>2. raced' = raced
        BY <1>3 DEF Next, Step, ClusterList, PostClaim, DeleteClaim, CreateVolume, PostPV,
           Undo, GetClaim, PutClaim, GetPV, DeletePV, DeleteVolume, Bind, Restart, vars
  <2>3. \A x \in volumes' : x \in Requests /\ Received(x)
    <3>1. ASSUME NEW r \in Requests, Step(r) PROVE volumes' \subseteq volumes \cup {r}
          BY <3>1 DEF Step, ClusterList, PostClaim, DeleteClaim, CreateVolume, PostPV,
             Undo, GetClaim, PutClaim, GetPV, DeletePV, DeleteVolume
    <3>2. volumes' = volumes \/ \E r \in Requests : Step(r)
          BY <1>3 DEF Next, Bind, Restart, vars
    <3>3. \A r \in Requests : Step(r) => Received(r)
          BY <1>1, AboutStays
    <3> QED BY <1>1, <3>1, <3>2, <3>3 DEF TurnInv, VolumesReceived, TypeOK
  <2>4. \A c \in Claims : \A x \in Requests : Received(x)' <=> Received(x)
        BY <1>1, <1>3, Elders
  <2>5. VolumesReceived'
    <3>1. ASSUME NEW x \in volumes' PROVE Received(x)'
      <4>1. x \in Requests /\ Received(x) /\ ClaimOf(x) \in Claims
            BY <1>1, <2>3, JobRecord DEF ClaimOf, Job
      <4> QED BY <2>4, <4>1
    <3> QED BY <3>1 DEF VolumesReceived
  <2> QED BY <2>1, <2>2, <2>5 DEF Turns, TurnInv
<1> QED BY <1>1, <1>2, <1>3 DEF TurnInv
-----------------------------------------------------------------------------
\* What does not touch a claim's PV, its volumes and its requests keeps both
\* accounts of it.
LEMMA SameStock ==
    ASSUME NEW c \in Claims, Stocked(c), PVNow(c)' = PVNow(c),
           \A x \in Requests : (x \in volumes /\ About(x, c))' <=>
                                x \in volumes /\ About(x, c),
           \A x \in Requests : Unfinished(x, c)' <=> Unfinished(x, c),
           \A x \in Requests : Unfinished(x, c) => job'[x] = job[x]
    PROVE  Stocked(c)'
BY DEF Stocked, Stocks, StockAtRest

LEMMA SameMatch ==
    ASSUME NEW c \in Claims, Matched(c), PVNow(c)' = PVNow(c),
           pvc'[c] = None <=> pvc[c] = None,
           pvc[c] # None => pvc'[c].vol = pvc[c].vol,
           \A x \in Requests : Unfinished(x, c)' <=> Unfinished(x, c),
           \A x \in Requests : Unfinished(x, c) => job'[x] = job[x]
    PROVE  Matched(c)'
BY DEF Matched, Matches, MatchAtRest, PVAhead, PVDue, PVLeft

\* A step about another claim touches neither, as no other claim has the PV
\* name of c.
LEMMA Elsewhere ==
    ASSUME IInv, NEW r \in Requests, Step(r), NEW c \in Claims, Sole(c), ~About(r, c)
    PROVE  /\ PVNow(c)' = PVNow(c) /\ pvc'[c] = pvc[c]
           /\ \A x \in Requests : (x \in volumes /\ About(x, c))' <=>
                                   x \in volumes /\ About(x, c)
           /\ \A x \in Requests : Unfinished(x, c)' <=> Unfinished(x, c)
           /\ \A x \in Requests : Unfinished(x, c) => job'[x] = job[x]
<1>1. TypeOK /\ job[r] \in Job /\ Received(r)
      BY AboutStays, JobRecord DEF IInv
<1>2. /\ \A x \in Requests : x # r => job'[x] = job[x]
      /\ \A x \in Requests : About(x, c)' <=> About(x, c)
      /\ \A x \in Requests : x # r => (Unfinished(x, c)' <=> Unfinished(x, c))
      BY <1>1, OneJob, AboutStays DEF About, Unfinished
<1>3. /\ ClaimOf(r) \in Claims /\ ClaimOf(r) # c
      /\ PVOf(r) \in PVs /\ PVOf(r) # PvcName2PvName[c]
      BY <1>1, VolumeAssumption DEF About, ClaimOf, PVOf, Sole, Job
<1>4. PVNow(c)' = PVNow(c)
  <2> PICK n \in PVs : n = PvcName2PvName[c]
      BY VolumeAssumption
  <2>1. pv' = pv \/ \E y : pv' = [pv EXCEPT ![PVOf(r)] = y]
        BY DEF Step, ClusterList, PostClaim, DeleteClaim, CreateVolume, PostPV, Undo,
           GetClaim, PutClaim, GetPV, DeletePV, DeleteVolume
  <2>2. pv \in [PVs -> Requests \cup {None}] /\ n # PVOf(r)
        BY <1>1, <1>3 DEF TypeOK
  <2>3. pv'[n] = pv[n]
        BY <2>1, <2>2
  <2> QED BY <2>3 DEF PVNow
<1>5. pvc'[c] = pvc[c]
  <2>1. pvc' = pvc \/ \E y : pvc' = [pvc EXCEPT ![ClaimOf(r)] = y]
        BY DEF Step, ClusterList, PostClaim, DeleteClaim, CreateVolume, PostPV, Undo,
           GetClaim, PutClaim, GetPV, DeletePV, DeleteVolume
  <2> QED BY <1>1, <1>3, <2>1 DEF TypeOK
<1>6. \A x \in Requests : About(x, c) => (x \in volumes' <=> x \in volumes)
  <2>1. ASSUME NEW x \in Requests, x # r, x \in volumes', x \notin volumes
        PROVE  FALSE
        BY <2>1 DEF Step, ClusterList, PostClaim, DeleteClaim, CreateVolume, PostPV, Undo,
           GetClaim, PutClaim, GetPV, DeletePV, DeleteVolume
  <2>2. ASSUME NEW x \in Requests, About(x, c), x \in volumes, x \notin volumes'
        PROVE  FALSE
    <3>1. x # r
          BY <2>2
    <3>2. x = job[r].vol
          BY <2>2, <3>1, Effects DEF VolumesEffect
    <3>3. PVOf(x) = PVOf(r)
          BY <1>1, <3>2, VolumeAssumption DEF IInv, ReadIsPosted, Received
    <3> QED BY <1>3, <2>2, <3>3 DEF About, PVOf, ClaimOf
  <2> QED BY <2>1, <2>2
<1>7. ~Unfinished(r, c) /\ ~Unfinished(r, c)'
      BY <1>2 DEF Unfinished
<1> QED BY <1>2, <1>4, <1>5, <1>6, <1>7

\* A request that comes in finds the claim of another name as it was, ...
LEMMA ElsewhereComes ==
    ASSUME TypeOK, NEW r \in Requests, ReceiveCreate(r) \/ ReceiveDelete(r),
           NEW d \in Claims, Unfinished(r, d)', ~Received(r),
           NEW c \in Claims, c # d
    PROVE  /\ PVNow(c)' = PVNow(c) /\ pvc'[c] = pvc[c]
           /\ \A x \in Requests : (x \in volumes /\ About(x, c))' <=>
                                   x \in volumes /\ About(x, c)
           /\ \A x \in Requests : Unfinished(x, c)' <=> Unfinished(x, c)
           /\ \A x \in Requests : Unfinished(x, c) => job'[x] = job[x]
<1>1. /\ \A x \in Requests : x # r => job'[x] = job[x]
      /\ UNCHANGED <<volumes, pv, pvc>>
      BY Newcomer
<1>2. ~About(r, c) /\ ~About(r, c)'
      BY DEF Unfinished, About
<1>3. \A x \in Requests : /\ About(x, c)' <=> About(x, c)
                          /\ Unfinished(x, c)' <=> Unfinished(x, c)
      BY <1>1, <1>2 DEF Unfinished, About, Received, ClaimOf, Finished
<1> QED BY <1>1, <1>2, <1>3 DEF PVNow, Unfinished

\* What is no step of a goroutine keeps the volumes of a claim accounted for,
\* if none raced and no process died, ...
LEMMA StockedBeside ==
    ASSUME TurnInv, TurnInv', NEW c \in Claims,
           PvcName2PvName[c] \notin raced', Stocked(c),
           \/ \E r \in Requests : ReceiveCreate(r) \/ ReceiveDelete(r)
           \/ UNCHANGED <<volumes, pv, job>>
    PROVE  Stocked(c)'
<1>1. ASSUME NEW r \in Requests, ReceiveCreate(r) \/ ReceiveDelete(r) PROVE Stocked(c)'
  <2>0. TypeOK /\ InTurn(c)'
        BY DEF TurnInv, IInv, Turns
  <2> PICK d \in Claims :
              /\ ~Received(r) /\ Unfinished(r, d)'
              /\ job'[r].work = "none" /\ job'[r].vol = None
              /\ job'[r].main \in {"clusterList", "deleteClaim"}
              /\ \A x \in Requests : x # r => job'[x] = job[x]
              /\ PvcName2PvName[d] \notin raced' =>
                     \A x \in Requests : ~Unfinished(x, d)
              /\ raced \subseteq raced' /\ UNCHANGED <<volumes, pv, pvc, faults>>
      BY <1>1, <2>0, Newcomer
  <2>1. CASE c # d
        BY <1>1, <2>0, <2>1, ElsewhereComes, SameStock
  <2>2. CASE c = d
    <3>1. StockAtRest(c)
          BY <2>2 DEF Stocked
    <3>2. \A x \in Requests : (x \in volumes /\ About(x, c))' <=>
                               x \in volumes /\ About(x, c)
      <4>1. r \notin volumes
            BY DEF TurnInv, VolumesReceived
      <4> QED BY <4>1 DEF About, Received, ClaimOf
    <3>3. Stocks(r, c)'
          BY <3>1, <3>2 DEF Stocks, StockAtRest, PVNow
    <3> QED BY <2>0, <2>2, <3>3 DEF Stocked, InTurn
  <2> QED BY <2>1, <2>2
<1>2. ASSUME UNCHANGED <<volumes, pv, job>> PROVE Stocked(c)'
      BY <1>2 DEF Stocked, Stocks, StockAtRest, PVNow, Unfinished, About, Received, ClaimOf,
         Finished
<1> QED BY <1>1, <1>2

\* ... and a step keeps the claim in turn, and leaves it to its one request.
LEMMA StepInTurn ==
    ASSUME TurnInv, NEW r \in Requests, Step(r), NEW c \in Claims,
           PvcName2PvName[c] \notin raced', About(r, c)
    PROVE  /\ Unfinished(r, c) /\ About(r, c)'
           /\ \A x \in Requests : Unfinished(x, c)' => x = r
           /\ ~Unfinished(r, c)' => job'[r].main = "done" /\ job'[r].work = "none"
<1>1. TypeOK
      BY DEF TurnInv, IInv
<1>2. Unfinished(r, c) /\ About(r, c)'
      BY <1>1, AboutStays DEF Unfinished, About
<1>3. InTurn(c)
  <2>1. raced' = raced
        BY DEF Step, ClusterList, PostClaim, DeleteClaim, CreateVolume, PostPV,
           Undo, GetClaim, PutClaim, GetPV, DeletePV, DeleteVolume
  <2> QED BY <2>1 DEF TurnInv, Turns
<1>4. ASSUME NEW x \in Requests, Unfinished(x, c)' PROVE x = r
  <2>1. Unfinished(x, c) \/ x = r
        BY <1>1, <1>4, AboutStays DEF Unfinished, About
  <2> QED BY <1>2, <1>3, <2>1 DEF InTurn
<1>5. ~Unfinished(r, c)' => job'[r].main = "done" /\ job'[r].work = "none"
      BY <1>2 DEF Unfinished, About, Finished, Received
<1> QED BY <1>2, <1>4, <1>5

\* A step that did what it was sent to do, or nothing, keeps the volumes of a
\* claim accounted for.
LEMMA StockedStep ==
    ASSUME TurnInv, NEW r \in Requests, Step(r), NEW c \in Claims, Sole(c),
           PvcName2PvName[c] \notin raced', Stocked(c), About(r, c) => Clean(r)
    PROVE  Stocked(c)'
<1>1. CASE ~About(r, c)
      BY <1>1, Elsewhere, SameStock DEF TurnInv
<1>2. CASE About(r, c)
  <2>1. /\ Unfinished(r, c)
        /\ \A x \in Requests : Unfinished(x, c)' => x = r
        /\ ~Unfinished(r, c)' => job'[r].work = "none"
        BY <1>2, StepInTurn
  <2>2. Stocks(r, c)
        BY <2>1 DEF Stocked
  <2>3. Stocks(r, c)'
        BY <1>2, <2>2, StocksStep
  <2>4. ~Unfinished(r, c)' => StockAtRest(c)'
        BY <2>1, <2>3 DEF Stocks, StockAtRest
  <2> QED BY <2>1, <2>3, <2>4 DEF Stocked
<1> QED BY <1>1, <1>2

\* What is no step of a goroutine keeps a claim in step with its PV, ...
LEMMA MatchedBeside ==
    ASSUME TurnInv, TurnInv', NEW c \in Claims,
           PvcName2PvName[c] \notin raced', Matched(c),
           \/ \E r \in Requests : ReceiveCreate(r) \/ ReceiveDelete(r)
           \/ \E d \in Claims : Bind(d)
           \/ UNCHANGED <<pv, pvc, job>>
    PROVE  Matched(c)'
<1>0. TypeOK /\ InTurn(c)'
      BY DEF TurnInv, IInv, Turns
<1>1. ASSUME NEW r \in Requests, ReceiveCreate(r) \/ ReceiveDelete(r) PROVE Matched(c)'
  <2> PICK d \in Claims :
              /\ ~Received(r) /\ Unfinished(r, d)'
              /\ job'[r].work = "none" /\ job'[r].vol = None
              /\ job'[r].main \in {"clusterList", "deleteClaim"}
              /\ \A x \in Requests : x # r => job'[x] = job[x]
              /\ PvcName2PvName[d] \notin raced' =>
                     \A x \in Requests : ~Unfinished(x, d)
              /\ raced \subseteq raced' /\ UNCHANGED <<volumes, pv, pvc, faults>>
      BY <1>0, <1>1, Newcomer
  <2>1. CASE c # d
        BY <1>0, <1>1, <2>1, ElsewhereComes, SameMatch
  <2>2. CASE c = d
    <3>1. MatchAtRest(c)
          BY <2>2 DEF Matched
    <3>2. Matches(r, c)'
          BY <3>1 DEF Matches, MatchAtRest, PVNow, PVAhead, PVDue, PVLeft
    <3> QED BY <1>0, <2>2, <3>2 DEF Matched, InTurn
  <2> QED BY <2>1, <2>2
<1>2. ASSUME NEW d \in Claims, Bind(d) PROVE Matched(c)'
  <2>1. UNCHANGED <<pv, job>> /\ pvc[d] # None
        BY <1>2 DEF Bind
  <2>2. \A x \in Requests : Unfinished(x, c)' <=> Unfinished(x, c)
        BY <2>1 DEF Unfinished, About, Received, ClaimOf, Finished
  <2>3. /\ pvc'[c] = None <=> pvc[c] = None
        /\ pvc[c] # None => pvc'[c].vol = pvc[c].vol
    <3> PICK k \in Claim : k = pvc[d]
        BY <1>0, <2>1 DEF TypeOK
    <3>1. pvc'[d] = [k EXCEPT !.bound = TRUE] /\ (c # d => pvc'[c] = pvc[c])
          BY <1>0, <1>2 DEF Bind, TypeOK
    <3>2. pvc'[d] \in Claim /\ pvc'[d].vol = k.vol
          BY <3>1 DEF Claim
    <3> QED BY <2>1, <3>1, <3>2, VolumeAssumption
  <2> QED BY <2>1, <2>2, <2>3, SameMatch DEF PVNow
<1>3. ASSUME UNCHANGED <<pv, pvc, job>> PROVE Matched(c)'
      BY <1>3 DEF Matched, Matches, MatchAtRest, PVNow, PVAhead, PVDue, PVLeft,
         Unfinished, About, Received, ClaimOf, Finished
<1> QED BY <1>1, <1>2, <1>3

\* ... and so does a step whose call did not fail.
LEMMA MatchedStep ==
    ASSUME TurnInv, NEW r \in Requests, Step(r), NEW c \in Claims, Sole(c),
           PvcName2PvName[c] \notin raced', Matched(c), About(r, c) => NoFault
    PROVE  Matched(c)'
<1>1. CASE ~About(r, c)
      BY <1>1, Elsewhere, SameMatch DEF TurnInv
<1>2. CASE About(r, c)
  <2>1. /\ Unfinished(r, c)
        /\ \A x \in Requests : Unfinished(x, c)' => x = r
        /\ ~Unfinished(r, c)' => job'[r].main = "done" /\ job'[r].work = "none"
        BY <1>2, StepInTurn
  <2>2. Matches(r, c)
        BY <2>1 DEF Matched
  <2>3. Matches(r, c)'
        BY <1>2, <2>2, MatchesStep
  <2>4. ~Unfinished(r, c)' => MatchAtRest(c)'
        BY <2>1, <2>3 DEF Matches, MatchAtRest, PVAhead, PVDue, PVLeft
  <2> QED BY <2>1, <2>3, <2>4 DEF Matched
<1> QED BY <1>1, <1>2
-----------------------------------------------------------------------------
\* Both accounts hold of every claim whose requests were orderly.
Accounted == \A c \in Claims : Orderly(c) => Stocked(c) /\ Matched(c)
LeakInv == TurnInv /\ Accounted

\* At rest, the volumes of a claim are the one its PV points to.
LEMMA VolumesOf ==
    ASSUME TurnInv, NEW c \in Claims, StockAtRest(c)
    PROVE  Volumes(c) = {PVNow(c)} \ {None}
<1>1. \A x \in volumes : x \in Requests /\ (About(x, c) <=> ClaimOf(x) = c)
      BY DEF TurnInv, VolumesReceived, IInv, TypeOK, About
<1>2. PVNow(c) \in Requests \cup {None}
      BY VolumeAssumption DEF TurnInv, IInv, TypeOK, PVNow
<1>3. \A x : x \in Volumes(c) <=> x \in {PVNow(c)} \ {None}
      BY <1>1, <1>2, VolumeAssumption DEF StockAtRest, Volumes
<1> QED BY <1>3

LEMMA InitLeakInv == Init => LeakInv
<1> SUFFICES ASSUME Init PROVE LeakInv
    OBVIOUS
<1>1. /\ volumes = {} /\ \A c \in Claims : PVNow(c) = None /\ pvc[c] = None
      /\ \A r \in Requests : ~Received(r)
      BY VolumeAssumption DEF Init, PVNow, Received
<1>2. \A c \in Claims, r \in Requests : ~Unfinished(r, c)
      BY <1>1 DEF Unfinished, About
<1>3. TurnInv
      BY <1>1, <1>2, InitIInv DEF TurnInv, VolumesReceived, Turns, InTurn
<1>4. \A c \in Claims : Stocked(c) /\ Matched(c)
      BY <1>1, <1>2, VolumeAssumption DEF Stocked, StockAtRest, Matched, MatchAtRest
<1> QED BY <1>3, <1>4 DEF LeakInv, Accounted

LEMMA NextLeakInv == LeakInv /\ [Next]_vars => LeakInv'
<1> SUFFICES ASSUME LeakInv, [Next]_vars PROVE LeakInv'
    OBVIOUS
<1>1. TurnInv /\ TurnInv' /\ TypeOK
      BY TurnStep DEF LeakInv, TurnInv, IInv
<1>2. faults \in Nat /\ (faults' = 0 => faults = 0 /\ NoFault /\ ~Restart)
  <2>1. faults \in Nat
        BY <1>1, VolumeAssumption DEF TypeOK
  <2>2. NoFault \/ faults' = faults + 1
        BY DEF Next, ReceiveCreate, ReceiveDelete, Receive, Step, ClusterList, PostClaim,
           DeleteClaim, CreateVolume, PostPV, Undo, GetClaim, PutClaim, GetPV, DeletePV,
           DeleteVolume, Bind, Restart, vars, NoFault, Fault
  <2>3. Restart => faults' = faults + 1
        BY DEF Restart, Fault
  <2> QED BY <2>1, <2>2, <2>3 DEF NoFault
<1>3. raced \subseteq raced'
      BY DEF Next, ReceiveCreate, ReceiveDelete, Receive, Step, ClusterList, PostClaim,
         DeleteClaim, CreateVolume, PostPV, Undo, GetClaim, PutClaim, GetPV, DeletePV,
         DeleteVolume, Bind, Restart, vars
<1>4. ASSUME NEW c \in Claims, Orderly(c)' PROVE Stocked(c)' /\ Matched(c)'
  <2>1. /\ NoFault /\ ~Restart /\ Orderly(c) /\ Sole(c)
        /\ PvcName2PvName[c] \notin raced'
        BY <1>2, <1>3, <1>4 DEF Orderly, Sole
  <2>2. Stocked(c) /\ Matched(c)
        BY <2>1 DEF LeakInv, Accounted
  <2>3. ASSUME NEW r \in Requests, Step(r) PROVE Stocked(c)' /\ Matched(c)'
        BY <1>1, <2>1, <2>2, <2>3, StockedStep, MatchedStep DEF Clean
  <2>4. ASSUME ~\E r \in Requests : Step(r) PROVE Stocked(c)' /\ Matched(c)'
    <3>1. \/ \E r \in Requests : ReceiveCreate(r) \/ ReceiveDelete(r)
          \/ \E d \in Claims : Bind(d)
          \/ UNCHANGED vars
          BY <2>1, <2>4 DEF Next
    <3>2. \/ \E r \in Requests : ReceiveCreate(r) \/ ReceiveDelete(r)
          \/ UNCHANGED <<volumes, pv, job>>
          BY <3>1 DEF Bind, vars
    <3>3. \/ \E r \in Requests : ReceiveCreate(r) \/ ReceiveDelete(r)
          \/ \E d \in Claims : Bind(d)
          \/ UNCHANGED <<pv, pvc, job>>
          BY <3>1 DEF vars
    <3> QED BY <1>1, <2>1, <2>2, <3>2, <3>3, StockedBeside, MatchedBeside
  <2> QED BY <2>3, <2>4
<1> QED BY <1>1, <1>4 DEF LeakInv, Accounted

\* When no call failed and the requests about a claim came one at a time, a
\* claim whose requests are done has its PV, the PV the one volume made for
\* it, and nothing is left without a claim: whatever creations and deletions
\* of the claim, repeated and refused ones among them, went before, and
\* whatever requests about other claims ran beside them.
THEOREM LeakFree == Spec => []NothingLeaks
<1>1. LeakInv => NothingLeaks
  <2> SUFFICES ASSUME LeakInv, NEW c \in Claims, Orderly(c), Settled(c)
               PROVE  LET v == pv[PvcName2PvName[c]]
                      IN  /\ pvc[c] = None <=> v = None
                          /\ Volumes(c) = {v} \ {None}
                          /\ pvc[c] # None => pvc[c].vol \in {v, None}
      BY DEF NothingLeaks
  <2>1. StockAtRest(c) /\ MatchAtRest(c)
        BY DEF LeakInv, Accounted, Stocked, Matched, Settled, Unfinished, About
  <2>2. Volumes(c) = {PVNow(c)} \ {None}
        BY <2>1, VolumesOf DEF LeakInv
  <2> QED BY <2>1, <2>2 DEF MatchAtRest, PVNow
<1> QED BY <1>1, InitLeakInv, NextLeakInv, PTL DEF Spec
=============================================================================
