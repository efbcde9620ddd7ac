---------------------------- MODULE VolumesClient ----------------------------
(***************************************************************************)
(* The volume API together with the client its calls go through: Volumes   *)
(* and OpenshiftClient composed.  Persistent volumes are made, read and    *)
(* deleted by the admin client; claims with the token of the user, but by  *)
(* a client that NewOpenshiftClient makes out of the admin one.            *)
(*                                                                         *)
(* A call that the client does not send is a failed call of Volumes that   *)
(* had no effect.  A handler that panics is recovered by net/http; a       *)
(* goroutine that panics runs its deferred functions and ends the process. *)
(***************************************************************************)
EXTENDS Volumes, OpenshiftClient

CONSTANT MaxFailures   \* bound: calls that fail though sent, and other deaths

ASSUME ClientAssumption == MaxFailures \in Nat

VARIABLES
    panicking,  \* requests whose background goroutine is panicking
    failures,
    \* History; no goroutine reads these.
    unsent,     \* requests that had a call the client did not send
    died        \* the process died of a panic

rest == <<panicking, failures, unsent, died>>
allVars == <<vars, client, rest>>

ClientVolumesTypeOK ==
    /\ TypeOK /\ ClientTypeOK
    /\ panicking \subseteq unsent /\ unsent \subseteq Requests
    /\ failures \in 0 .. MaxFailures
    /\ died \in BOOLEAN

ClientInit ==
    /\ Init /\ NoClient
    /\ panicking = {} /\ failures = 0 /\ unsent = {} /\ died = FALSE
-----------------------------------------------------------------------------
AdminCall(r)  == PostPV(r) \/ GetPV(r) \/ DeletePV(r)
UserCall(r)   == PostClaim(r) \/ DeleteClaim(r) \/ GetClaim(r) \/ PutClaim(r)
HeketiCall(r) == ClusterList(r) \/ CreateVolume(r) \/ Undo(r) \/ DeleteVolume(r)

\* What fails though it was sent counts as a failure.
Counted == failures' = failures + (faults' - faults) /\ failures' <= MaxFailures

\* (mutant: the clients of users are made without the admin client)
SentWithoutClient(r) ==
    /\ (AdminCall(r) /\ Sends) \/ UserCall(r) \/ HeketiCall(r)
    /\ Counted
    /\ UNCHANGED <<client, panicking, unsent, died>>

Sent(r) ==
    /\ (AdminCall(r) /\ Sends) \/ (UserCall(r) /\ theOC) \/ HeketiCall(r)
    /\ Counted
    /\ UNCHANGED <<client, panicking, unsent, died>>

Unsent(r) ==
    /\ faults' = faults + 1 /\ UNCHANGED <<pv, pvc, lost>>
    /\ unsent' = unsent \cup {r}
    /\ UNCHANGED <<client, failures, died>>

\* (mutant: an unsent request for the PV is taken for a success)
TokenIsBlankIgnored(r) ==
    /\ Blank /\ WorkAt(r, "postPV") /\ Work(r, "getClaim")
    /\ unsent' = unsent \cup {r}
    /\ UNCHANGED <<volumes, pv, pvc, faults, lost, raced, client, panicking,
                   failures, died>>

\* "token is blank": the goroutine goes on as after any failed call.
TokenIsBlank(r) == Blank /\ AdminCall(r) /\ Unsent(r) /\ UNCHANGED panicking

HandlerPanics(r) ==
    /\ ~theOC /\ (PostClaim(r) \/ DeleteClaim(r))
    /\ Unsent(r) /\ UNCHANGED panicking

GoroutinePanics(r) ==
    /\ Panics /\ AdminCall(r) /\ Unsent(r)
    /\ panicking' = panicking \cup {r}

\* All goroutines are gone, the client with them, and main starts anew.
Reborn ==
    /\ Restart \/ ((\A r \in Requests : Finished(r)) /\ UNCHANGED vars)
    /\ theOC' = FALSE /\ bearerToken' = "blank" /\ updater' = "none"
    /\ panicking' = {}
    /\ UNCHANGED unsent

\* The process dies once the deferred functions of a panic have run; at once
\* when the half stored token is only read in a goroutine of net/http.
Die ==
    /\ \/ \E r \in panicking : ~WorkAt(r, "undo")
       \/ /\ bearerToken = "half"
          /\ \E r \in Requests, call \in {"postPV", "getPV", "deletePV"} : WorkAt(r, call)
    /\ Reborn /\ died' = TRUE /\ UNCHANGED failures

Kill ==
    /\ failures < MaxFailures /\ failures' = failures + 1
    /\ Reborn /\ UNCHANGED died

ProxyStep(r) == Sent(r) \/ TokenIsBlank(r) \/ HandlerPanics(r) \/ GoroutinePanics(r)

ClientNext ==
    \/ \E r \in Requests : ProxyStep(r)
    \/ /\ \/ \E r \in Requests : ReceiveCreate(r) \/ ReceiveDelete(r)
          \/ \E c \in Claims : Bind(c)
       /\ UNCHANGED <<client, rest>>
    \/ ClientStep /\ UNCHANGED <<vars, rest>>
    \/ Die \/ Kill

ClientSpec == ClientInit /\ [][ClientNext]_allVars

FairClientSpec ==
    /\ ClientSpec /\ ClientFairness /\ WF_allVars(Die)
    /\ \A r \in Requests : WF_allVars(ProxyStep(r))
-----------------------------------------------------------------------------
\* What the requests about a claim did when no call failed that was sent, no
\* two of them overlapped and no other claim has its PV name.
Undisturbed(c) ==
    LET n == PvcName2PvName[c]
    IN  /\ failures = 0 /\ ~died /\ n \notin raced
        /\ \A d \in Claims : PvcName2PvName[d] = n => d = c
AllSent(c) == \A r \in unsent : ClaimOf(r) # c

\* Without a token creations and deletions end half way; still, every volume
\* of a claim has its PV and the PV its volume: the deferred deletion needs no
\* token, and a deletion that could not read the PV has left both.  Claim and
\* PV part only when a call was not sent (openshift.go:130).
BlankTokenLeaksNoVolume ==
    \A c \in Claims : Undisturbed(c) /\ Settled(c) =>
        LET v == pv[PvcName2PvName[c]]
        IN  /\ Volumes(c) = {v} \ {None}
            /\ AllSent(c) => (pvc[c] = None <=> v = None)

\* A goroutine that reads or annotates the claim, or deletes what a deletion
\* leaves, never finds the client missing (NewOpenshiftClient at
\* volume.go:245 would end the process): a call made before it needed the
\* client as well, and it does not go away while the process lives.
LateCalls == {"getClaim", "putClaim", "getPV", "deletePV", "deleteVolume"}
LateCallsHaveClient ==
    \A r \in Requests, call \in LateCalls : WorkAt(r, call) => theOC

\* A claim the client was told about gets its PV or is deleted again, unless
\* a call of its requests was not sent.
ClaimGetsPVOnceSent ==
    \A c \in Claims :
        pvc[c] # None ~> \/ pv[PvcName2PvName[c]] # None
                         \/ pvc[c] = None
                         \/ ~Undisturbed(c) \/ ~AllSent(c)

\* However often the process dies at a token that is not there, in the end
\* there is one for good: whoever comes then is served.
AdminGetsToken == <>[]Sends
=============================================================================
