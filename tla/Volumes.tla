------------------------------ MODULE Volumes -------------------------------
(***************************************************************************)
(* The volume API of datafoundry_proxy (volume.go): CreateVolume and       *)
(* DeleteVolume, over OpenShift (claims and persistent volumes) and heketi *)
(* (gluster volumes).                                                      *)
(*                                                                         *)
(* A creation posts the claim in the request's own goroutine, and makes    *)
(* the gluster volume and the persistent volume (PV) in a background one;  *)
(* a deletion deletes the claim, answers, and takes PV and volume away in  *)
(* the background.  Nothing orders the goroutines of different requests.   *)
(* A PV is found by its name alone, computed from namespace and claim.     *)
(*                                                                         *)
(* heketi gives every creation a volume id of its own, so the volume of    *)
(* request r is called r.  Each request is used once.                      *)
(***************************************************************************)
EXTENDS Integers, FiniteSets

CONSTANTS
    Claims,       \* <namespace, claim name> pairs
    PVs,          \* names of persistent volumes
    PvcName2PvName,  \* "<namespace>-<name>": two claims may share a PV name
    Requests,
    MaxFaults,    \* bound: failed calls, lost answers and process deaths
    None

\* A PersistentVolumeClaim: the request that posted it, whether OpenShift's
\* controller has bound (and so annotated) it, and the volume annotation.
Claim == [by : Requests, bound : BOOLEAN, vol : Requests \cup {None}]

Mains == {"clusterList", "postClaim", "deleteClaim", "done"}
Works == {"none", "createVolume", "postPV", "undo", "getClaim", "putClaim",
          "getPV", "deletePV", "deleteVolume"}

\* One request: the next call of its handler (main) and of its background
\* goroutine (work), the volume id a deletion has read, and the claim a
\* creation has read.
Job == [claim : Claims, main : Mains, work : Works,
        vol : Requests \cup {None}, copy : Claim \cup {None}]

ASSUME VolumeAssumption ==
    /\ PvcName2PvName \in [Claims -> PVs]
    /\ MaxFaults \in Nat
    /\ None \notin Requests
    /\ None \notin Claim
    /\ None \notin Job

VARIABLES
    volumes,    \* heketi: the volumes that exist
    pv,         \* OpenShift: the volume each persistent volume points to
    pvc,        \* OpenShift: the claims
    job,        \* the goroutines of each request, and what they hold
    faults,
    \* History; no goroutine reads these.
    lost,       \* volumes whose PV was created though the answer was lost
    raced       \* PV names two unfinished requests were about at a time

vars == <<volumes, pv, pvc, job, faults, lost, raced>>

TypeOK ==
    /\ volumes \subseteq Requests
    /\ pv \in [PVs -> Requests \cup {None}]
    /\ pvc \in [Claims -> Claim \cup {None}]
    /\ job \in [Requests -> Job \cup {None}]
    /\ faults \in 0 .. MaxFaults
    /\ lost \subseteq Requests
    /\ raced \subseteq PVs

Init ==
    /\ volumes = {}
    /\ pv = [n \in PVs |-> None]
    /\ pvc = [c \in Claims |-> None]
    /\ job = [r \in Requests |-> None]
    /\ faults = 0 /\ lost = {} /\ raced = {}
-----------------------------------------------------------------------------
Received(r) == job[r] # None
Finished(r) == Received(r) => job[r].main = "done" /\ job[r].work = "none"
ClaimOf(r)  == job[r].claim
PVOf(r)     == PvcName2PvName[job[r].claim]
MainAt(r, call) == Received(r) /\ job[r].main = call
WorkAt(r, call) == Received(r) /\ job[r].work = call

Main(r, call) == job' = [job EXCEPT ![r].main = call]
Work(r, call) == job' = [job EXCEPT ![r].work = call]
Ended(j)      == [j EXCEPT !.work = "none", !.vol = None, !.copy = None]
Stop(r)       == job' = [job EXCEPT ![r] = Ended(@)]

NoFault == UNCHANGED faults
Fault   == faults < MaxFaults /\ faults' = faults + 1

Receive(r, c, first) ==
    /\ ~Received(r)
    /\ job' = [job EXCEPT ![r] = [claim |-> c, main |-> first, work |-> "none",
                                  vol |-> None, copy |-> None]]
    /\ raced' = IF \A q \in Requests : Received(q) /\ PVOf(q) = PvcName2PvName[c]
                                           => Finished(q)
                THEN raced ELSE raced \cup {PvcName2PvName[c]}
    /\ UNCHANGED <<volumes, pv, pvc, faults, lost>>

ReceiveCreate(r) == \E c \in Claims : Receive(r, c, "clusterList")
ReceiveDelete(r) == \E c \in Claims : Receive(r, c, "deleteClaim")
-----------------------------------------------------------------------------
\* CreateVolume, the handler: ClusterList starts the background goroutine ...
ClusterList(r) ==
    /\ MainAt(r, "clusterList")
    /\ \/ job' = [job EXCEPT ![r].main = "postClaim", ![r].work = "createVolume"]
          /\ NoFault
       \/ Main(r, "done") /\ Fault
    /\ UNCHANGED <<volumes, pv, pvc, lost, raced>>

NewClaim(r) == [by |-> r, bound |-> FALSE, vol |-> None]

\* ... and the claim is posted beside it.  The handler ends either way, and
\* the goroutine is not told when the claim was refused.
PostClaim(r) ==
    LET posted == [pvc EXCEPT ![ClaimOf(r)] = IF @ = None THEN NewClaim(r) ELSE @]
    IN  /\ MainAt(r, "postClaim")
        /\ \/ pvc' = posted /\ NoFault
           \/ pvc' \in {pvc, posted} /\ Fault
        /\ Main(r, "done")
        /\ UNCHANGED <<volumes, pv, lost, raced>>

\* (mutant: the goroutine ends with the volume)
CreateVolumeOnly(r) ==
    /\ WorkAt(r, "createVolume")
    /\ volumes' = volumes \cup {r} /\ Stop(r) /\ NoFault
    /\ UNCHANGED <<pv, pvc, lost, raced>>

\* The background goroutine: the gluster volume, ...
CreateVolume(r) ==
    /\ WorkAt(r, "createVolume")
    /\ \/ volumes' = volumes \cup {r} /\ Work(r, "postPV") /\ NoFault
       \/ volumes' \in {volumes, volumes \cup {r}} /\ Stop(r) /\ Fault
    /\ UNCHANGED <<pv, pvc, lost, raced>>

\* (mutant: the deferred deletion is missing)
PostPVKept(r) ==
    /\ WorkAt(r, "postPV")
    /\ pv' = [pv EXCEPT ![PVOf(r)] = IF @ = None THEN r ELSE @]
    /\ Work(r, "getClaim") /\ NoFault
    /\ UNCHANGED <<volumes, pvc, lost, raced>>

\* ... the PV that points to it; when that is refused, or its answer is lost,
\* the deferred function deletes the volume again, ...
PostPV(r) ==
    LET n == PVOf(r)
        posted == [pv EXCEPT ![n] = r]
    IN  /\ WorkAt(r, "postPV")
        /\ \/ pv[n] = None /\ pv' = posted /\ Work(r, "getClaim")
              /\ NoFault /\ UNCHANGED lost
           \/ pv[n] # None /\ Work(r, "undo")
              /\ NoFault /\ UNCHANGED <<pv, lost>>
           \/ Work(r, "undo") /\ Fault /\ UNCHANGED <<pv, lost>>
           \/ pv[n] = None /\ pv' = posted /\ lost' = lost \cup {r}
              /\ Work(r, "undo") /\ Fault
        /\ UNCHANGED <<volumes, pvc, raced>>

Undo(r) ==
    /\ WorkAt(r, "undo")
    /\ \/ volumes' = volumes \ {r} /\ NoFault
       \/ volumes' \in {volumes, volumes \ {r}} /\ Fault
    /\ Stop(r)
    /\ UNCHANGED <<pv, pvc, lost, raced>>

\* ... and the annotation of the claim, if it is there by now and carries no
\* annotation yet.  OpenShift refuses the claim when it changed in between.
GetClaim(r) ==
    /\ WorkAt(r, "getClaim")
    /\ \/ pvc[ClaimOf(r)] # None /\ NoFault
          /\ job' = [job EXCEPT ![r].work = "putClaim", ![r].copy = pvc[ClaimOf(r)]]
       \/ pvc[ClaimOf(r)] = None /\ Stop(r) /\ NoFault
       \/ Stop(r) /\ Fault
    /\ UNCHANGED <<volumes, pv, pvc, lost, raced>>

Annotated(claim, r) ==
    IF claim.bound \/ claim.vol # None THEN claim ELSE [claim EXCEPT !.vol = r]

PutClaim(r) ==
    LET c == ClaimOf(r)
        put == [pvc EXCEPT ![c] = IF @ \in {job[r].copy} \ {None}
                                  THEN Annotated(@, r) ELSE @]
    IN  /\ WorkAt(r, "putClaim")
        /\ \/ pvc' = put /\ NoFault
           \/ pvc' \in {pvc, put} /\ Fault
        /\ Stop(r)
        /\ UNCHANGED <<volumes, pv, lost, raced>>
-----------------------------------------------------------------------------
\* DeleteVolume, the handler: without the claim, an error; otherwise OK, and
\* the background goroutine starts.
DeleteClaim(r) ==
    LET c == ClaimOf(r)
        deleted == [pvc EXCEPT ![c] = None]
    IN  /\ MainAt(r, "deleteClaim")
        /\ \/ pvc[c] # None /\ pvc' = deleted /\ NoFault
              /\ job' = [job EXCEPT ![r].main = "done", ![r].work = "getPV"]
           \/ pvc[c] = None /\ UNCHANGED pvc /\ Main(r, "done") /\ NoFault
           \/ pvc' \in {pvc, deleted} /\ Main(r, "done") /\ Fault
        /\ UNCHANGED <<volumes, pv, lost, raced>>

\* (mutant: the PV's name is taken for the volume's)
GetPVName(r) ==
    /\ WorkAt(r, "getPV") /\ pv[PVOf(r)] # None
    /\ job' = [job EXCEPT ![r].work = "deletePV", ![r].vol = PVOf(r)]
    /\ UNCHANGED <<volumes, pv, pvc, faults, lost, raced>>

\* The PV tells which volume to delete; each step needs the one before it.
GetPV(r) ==
    /\ WorkAt(r, "getPV")
    /\ \/ pv[PVOf(r)] # None /\ NoFault
          /\ job' = [job EXCEPT ![r].work = "deletePV", ![r].vol = pv[PVOf(r)]]
       \/ pv[PVOf(r)] = None /\ Stop(r) /\ NoFault
       \/ Stop(r) /\ Fault
    /\ UNCHANGED <<volumes, pv, pvc, lost, raced>>

\* (mutant: the volume goes although the PV may still be there)
DeletePVUnchecked(r) ==
    /\ WorkAt(r, "deletePV")
    /\ \/ pv' = [pv EXCEPT ![PVOf(r)] = None] /\ NoFault
       \/ UNCHANGED pv /\ Fault
    /\ Work(r, "deleteVolume")
    /\ UNCHANGED <<volumes, pvc, lost, raced>>

DeletePV(r) ==
    LET n == PVOf(r)
        deleted == [pv EXCEPT ![n] = None]
    IN  /\ WorkAt(r, "deletePV")
        /\ \/ pv[n] # None /\ pv' = deleted /\ Work(r, "deleteVolume") /\ NoFault
           \/ pv[n] = None /\ UNCHANGED pv /\ Stop(r) /\ NoFault
           \/ pv' \in {pv, deleted} /\ Stop(r) /\ Fault
        /\ UNCHANGED <<volumes, pvc, lost, raced>>

DeleteVolume(r) ==
    /\ WorkAt(r, "deleteVolume")
    /\ \/ volumes' = volumes \ {job[r].vol} /\ NoFault
       \/ volumes' \in {volumes, volumes \ {job[r].vol}} /\ Fault
    /\ Stop(r)
    /\ UNCHANGED <<pv, pvc, lost, raced>>
-----------------------------------------------------------------------------
\* OpenShift's controller binds a claim to a PV, and annotates it.
Bind(c) ==
    /\ pvc[c] # None /\ ~pvc[c].bound /\ pv[PvcName2PvName[c]] # None
    /\ pvc' = [pvc EXCEPT ![c].bound = TRUE]
    /\ UNCHANGED <<volumes, pv, job, faults, lost, raced>>

\* The process dies, and every goroutine with it.
Restart ==
    /\ Fault
    /\ job' = [r \in Requests |->
                  IF Received(r) THEN [Ended(job[r]) EXCEPT !.main = "done"]
                                 ELSE None]
    /\ job' # job
    /\ UNCHANGED <<volumes, pv, pvc, lost, raced>>

Step(r) ==
    \/ ClusterList(r) \/ PostClaim(r) \/ DeleteClaim(r)
    \/ CreateVolume(r) \/ PostPV(r) \/ Undo(r) \/ GetClaim(r) \/ PutClaim(r)
    \/ GetPV(r) \/ DeletePV(r) \/ DeleteVolume(r)

Next ==
    \/ \E r \in Requests : ReceiveCreate(r) \/ ReceiveDelete(r) \/ Step(r)
    \/ \E c \in Claims : Bind(c)
    \/ Restart

Spec == Init /\ [][Next]_vars
-----------------------------------------------------------------------------
\* No PV points to a volume that is gone, whatever deletions, re-creations
\* and undone creations interleave: an undo and a deletion each take away
\* only a volume no PV points to any more.  The exception is a PV whose
\* creation took effect though its answer was lost (volume.go:182 and 219).
PVHasVolume == \A n \in PVs : pv[n] # None => pv[n] \in volumes \cup lost

\* What the requests about one PV name did, when no two of them overlapped,
\* no call failed and only one claim computes that name.
Orderly(c) ==
    LET n == PvcName2PvName[c]
    IN  /\ faults = 0 /\ n \notin raced
        /\ \A d \in Claims : PvcName2PvName[d] = n => d = c
Settled(c) == \A r \in Requests : Received(r) /\ ClaimOf(r) = c => Finished(r)
Volumes(c) == {r \in volumes : ClaimOf(r) = c}

\* Then, once the goroutines are done, a claim has its PV and the PV the one
\* volume made for it, and nothing remains without a claim: repeated, refused
\* and deleting requests clean up what they or others made.
NothingLeaks ==
    \A c \in Claims : Orderly(c) /\ Settled(c) =>
        LET v == pv[PvcName2PvName[c]]
        IN  /\ pvc[c] = None <=> v = None
            /\ Volumes(c) = {v} \ {None}
            /\ pvc[c] # None => pvc[c].vol \in {v, None}

\* "get pv (will delete it at the end, for it stores the volumn id info)"
\* (volume.go:342): when everything is quiet and no call ever failed, the PV
\* and the volume of a claim that is gone are gone as well.
GoneWithClaim ==
    faults = 0 /\ (\A r \in Requests : Finished(r)) =>
        \A c \in Claims : pvc[c] = None => pv[PvcName2PvName[c]] = None
=============================================================================
