--------------------------- MODULE OpenshiftClient ---------------------------
(***************************************************************************)
(* The admin client of datafoundry_proxy (openshift/openshift.go): one for *)
(* the process, made by a goroutine that main starts before it listens,    *)
(* with a bearer token that another goroutine requests and renews.         *)
(* Nothing synchronises either with the requests that use the client.      *)
(*                                                                         *)
(* The bearer token is a string of two words, its length and its data,     *)
(* which are stored and read one after the other.  Tokens are all of one   *)
(* length, so that only the first store can be seen half done.             *)
(***************************************************************************)

VARIABLES
    theOC,        \* whether adminClient() is there
    bearerToken,  \* "blank", "half" stored, or "token"
    updater       \* where updateBearerToken is

client == <<theOC, bearerToken, updater>>

ClientTypeOK ==
    /\ theOC \in BOOLEAN
    /\ bearerToken \in {"blank", "half", "token"}
    /\ updater \in {"none", "request", "store", "sleep15s", "sleep3h"}

NoClient == theOC = FALSE /\ bearerToken = "blank" /\ updater = "none"

\* Init(ocEnv): the goroutine is started ...
newOpenshiftClient ==
    /\ updater = "none" /\ updater' = "request"
    /\ UNCHANGED <<theOC, bearerToken>>

\* ... and then the client published; the handlers have theirs made of it.
Publish ==
    /\ ~theOC /\ updater # "none" /\ theOC' = TRUE
    /\ UNCHANGED <<bearerToken, updater>>

TokenGranted ==
    /\ updater = "request" /\ updater' = "store"
    /\ UNCHANGED <<theOC, bearerToken>>

TokenRefused ==
    /\ updater = "request" /\ updater' = "sleep15s"
    /\ UNCHANGED <<theOC, bearerToken>>

\* (mutant: the token is stored as it was granted, without "Bearer ")
StoreBareToken ==
    /\ updater = "store" /\ updater' = "sleep3h"
    /\ bearerToken' = "bare" /\ UNCHANGED theOC

\* The first store passes through "half", later ones replace token by token.
StoreToken ==
    /\ updater = "store"
    /\ \/ bearerToken = "blank" /\ bearerToken' = "half" /\ UNCHANGED updater
       \/ bearerToken # "blank" /\ bearerToken' = "token" /\ updater' = "sleep3h"
    /\ UNCHANGED theOC

\* (mutant: an error ends the goroutine)
AwakeOnlyToRenew ==
    /\ updater = "sleep3h" /\ updater' = "request"
    /\ UNCHANGED <<theOC, bearerToken>>

Awake ==
    /\ updater \in {"sleep15s", "sleep3h"} /\ updater' = "request"
    /\ UNCHANGED <<theOC, bearerToken>>

ClientStep ==
    newOpenshiftClient \/ Publish \/ TokenGranted \/ TokenRefused \/ StoreToken \/ Awake

\* The goroutines go on, and OpenShift does not refuse for ever.
ClientFairness ==
    /\ WF_client(newOpenshiftClient) /\ WF_client(Publish)
    /\ WF_client(StoreToken) /\ WF_client(Awake) /\ SF_client(TokenGranted)

\* What request() makes of a call of the admin client: it is sent, or fails
\* with "token is blank", or panics (no client, or a string without data).
Sends  == theOC /\ bearerToken = "token"
Blank  == theOC /\ bearerToken \in {"blank", "half"}
Panics == ~theOC \/ bearerToken = "half"
=============================================================================
