------------------------------- MODULE SignIn --------------------------------
(***************************************************************************)
(* GET /signin of datafoundry_proxy (signin.go, token_proxy of login.go):  *)
(* two goroutines each ask the OpenShift of one region for a token, ask it *)
(* for the user's project, and append the token to one slice; the handler  *)
(* waits for both and answers with the slice.                              *)
(*                                                                         *)
(* Nothing orders the two appends.  An append loads the three words of the *)
(* slice, makes a larger array if the capacity is reached, and stores      *)
(* words and element; which load and which store comes first is up to the  *)
(* compiler, and each is a step here.  The element is a record of strings, *)
(* of which two are kept: the token and the region's name.  The empty      *)
(* slice points to the runtime's "zero" base, whose bytes are no token.    *)
(*                                                                         *)
(* One request is modelled: requests share no slice.                       *)
(***************************************************************************)
EXTENDS Integers, Sequences, FiniteSets

CONSTANT None

Regions  == {"jd", "aws"}
Other(g) == CHOOSE h \in Regions : h # g

Words  == {"ptr", "len", "cap"}
Fields == {"access", "region"}
Text   == Regions \cup {"blank", "garbage"}
Token  == [Fields -> Text]
All(t) == [f \in Fields |-> t]

Header == [ptr : Regions \cup {"zero"}, len : 0 .. 2, cap : 0 .. 2]

VARIABLES
    at,        \* where each goroutine is
    tokens,    \* the slice: the words all goroutines share
    array,     \* the array each goroutine has made, two places long
    seen,      \* the words it has loaded, then those it stores
    todo,      \* what it has still to store
    answer,    \* None, or the tokens answered; none of them is a 401
    redirected, \* regions that answered with a redirect
    granted,   \* those of them whose redirect carries a token
    asked,     \* regions asked for the project
    dead,      \* the process has died
    wild,      \* bytes at the zero base were written over
    overlapped \* history: the two appends ran at a time

vars == <<at, tokens, array, seen, todo, answer, redirected, granted, asked, dead,
          wild, overlapped>>

TypeOK ==
    /\ at \in [Regions -> {"getToken", "project", "load", "store", "send", "done"}]
    /\ tokens \in Header
    /\ array \in [Regions -> [1 .. 2 -> Token]]
    /\ seen \in [Regions -> [ptr : Regions \cup {"zero", None},
                            len : 0 .. 2 \cup {None}, cap : 0 .. 2 \cup {None}]]
    /\ \A g \in Regions : at[g] = "store" => seen[g] \in Header /\ seen[g].len > 0
    /\ todo \in [Regions -> SUBSET (Words \cup Fields)]
    /\ answer \in {None} \cup UNION {[1 .. n -> Token] : n \in 0 .. 2}
    /\ granted \subseteq redirected /\ redirected \subseteq Regions
    /\ asked \subseteq Regions
    /\ dead \in BOOLEAN /\ wild \in BOOLEAN /\ overlapped \in BOOLEAN

\* (mutant: the slice is made as long as the answer may be)
InitSized ==
    /\ at = [g \in Regions |-> "getToken"]
    /\ tokens = [ptr |-> "zero", len |-> 2, cap |-> 2]
    /\ array = [g \in Regions |-> [i \in 1 .. 2 |-> All("garbage")]]
    /\ seen = [g \in Regions |-> [w \in Words |-> None]]
    /\ todo = [g \in Regions |-> {}]
    /\ answer = None /\ redirected = {} /\ granted = {} /\ asked = {}
    /\ dead = FALSE /\ wild = FALSE /\ overlapped = FALSE

Init ==
    /\ at = [g \in Regions |-> "getToken"]
    /\ tokens = [ptr |-> "zero", len |-> 0, cap |-> 0]
    /\ array = [g \in Regions |-> [i \in 1 .. 2 |-> All("garbage")]]
    /\ seen = [g \in Regions |-> [w \in Words |-> None]]
    /\ todo = [g \in Regions |-> {}]
    /\ answer = None /\ redirected = {} /\ granted = {} /\ asked = {}
    /\ dead = FALSE /\ wild = FALSE /\ overlapped = FALSE
-----------------------------------------------------------------------------
Go(g, from, to) == ~dead /\ at[g] = from /\ at' = [at EXCEPT ![g] = to]
sliceVars == <<tokens, array, seen, todo, wild, overlapped>>

\* (mutant: the project is asked for beside the append)
GetTokenOnly(g) ==
    /\ Go(g, "getToken", "load")
    /\ redirected' = redirected \cup {g} /\ granted' = granted \cup {g}
    /\ UNCHANGED <<sliceVars, answer, asked, dead>>

\* token_proxy: a redirect's fragment is taken for a token, its text for
\* access_token blank if the fragment names an error; anything else is none.
\* proc panics on a fragment that is not a list of pairs, and nobody recovers.
GetToken(g) ==
    /\ \/ /\ Go(g, "getToken", "project") /\ redirected' = redirected \cup {g}
          /\ granted' \in {granted, granted \cup {g}}
          /\ UNCHANGED dead
       \/ Go(g, "getToken", "send") /\ UNCHANGED <<redirected, granted, dead>>
       \/ Go(g, "getToken", "done") /\ dead' = TRUE /\ UNCHANGED <<redirected, granted>>
    /\ UNCHANGED <<sliceVars, answer, asked>>

\* What the region's goroutine appends.
TokenOf(g) == [All(g) EXCEPT !["access"] = IF g \in granted THEN g ELSE "blank"]

\* The deferred call of GetToken; what the region says to it is not looked at.
TryCreatProject(g) ==
    /\ Go(g, "project", "load")
    /\ asked' = asked \cup {g}
    /\ UNCHANGED <<sliceVars, answer, redirected, granted, dead>>
-----------------------------------------------------------------------------
(* tokens = append(tokens, token)                                          *)

Appending(g) ==
    at[g] = "store" \/ (at[g] = "load" /\ \E w \in Words : seen[g][w] # None)

Load(g) ==
    /\ ~dead /\ at[g] = "load"
    /\ \E w \in Words : /\ seen[g][w] = None
                        /\ seen' = [seen EXCEPT ![g][w] = tokens[w]]
    /\ overlapped' = (overlapped \/ Appending(Other(g)))
    /\ UNCHANGED <<at, tokens, array, todo, wild, answer, redirected, granted, asked, dead>>

Place(ptr, i) == IF ptr = "zero" THEN All("garbage") ELSE array[ptr][i]

\* The least capacity that is enough, which is what growslice makes of 0 and 1.
GrownCap(len) == len + 1

\* growslice: the old elements are copied, the rest is zeroed.
GrowSlice(g) ==
    LET s    == seen[g]
        cap1 == GrownCap(s.len)
        made == [i \in 1 .. 2 |-> IF i <= s.len THEN Place(s.ptr, i)
                                  ELSE All(IF i <= cap1 THEN "blank" ELSE "garbage")]
    IN  /\ s.len + 1 > s.cap
        /\ array' = [array EXCEPT ![g] = made]
        /\ seen' = [seen EXCEPT ![g] = [ptr |-> g, len |-> s.len + 1, cap |-> cap1]]
        /\ todo' = [todo EXCEPT ![g] = Words \cup Fields]

\* There is room: the length is stored, or the whole slice.
KeepSlice(g) ==
    /\ seen[g].len + 1 <= seen[g].cap
    /\ seen' = [seen EXCEPT ![g].len = @ + 1]
    /\ \E kept \in {{"len"}, Words} : todo' = [todo EXCEPT ![g] = kept \cup Fields]
    /\ UNCHANGED array

Append1(g) ==
    /\ \A w \in Words : seen[g][w] # None
    /\ Go(g, "load", "store")
    /\ GrowSlice(g) \/ KeepSlice(g)
    /\ UNCHANGED <<tokens, wild, overlapped, answer, redirected, granted, asked, dead>>

StoreWord(g, w) ==
    /\ w \in Words /\ tokens' = [tokens EXCEPT ![w] = seen[g][w]]
    /\ UNCHANGED <<array, wild>>

\* (mutant: both goroutines give their token the first region's name)
StoreFieldOfFirst(g, f) ==
    /\ f \in Fields /\ seen[g].ptr # "zero"
    /\ array' = [array EXCEPT ![seen[g].ptr][seen[g].len][f] =
                    IF f = "region" THEN "jd" ELSE TokenOf(g)[f]]
    /\ UNCHANGED <<tokens, wild>>

StoreField(g, f) ==
    /\ f \in Fields
    /\ IF seen[g].ptr = "zero"
       THEN wild' = TRUE /\ UNCHANGED array
       ELSE /\ array' = [array EXCEPT ![seen[g].ptr][seen[g].len][f] = TokenOf(g)[f]]
            /\ UNCHANGED wild
    /\ UNCHANGED tokens

Store(g) ==
    /\ ~dead /\ at[g] = "store"
    /\ \E w \in todo[g] : /\ StoreWord(g, w) \/ StoreField(g, w)
                          /\ todo' = [todo EXCEPT ![g] = @ \ {w}]
    /\ at' = IF todo'[g] = {} THEN [at EXCEPT ![g] = "send"] ELSE at
    /\ UNCHANGED <<seen, overlapped, answer, redirected, granted, asked, dead>>
-----------------------------------------------------------------------------
\* (mutant: nothing is sent when there was no token)
SendIfGranted(g) ==
    /\ g \in granted /\ Go(g, "send", "done")
    /\ UNCHANGED <<sliceVars, answer, redirected, granted, asked, dead>>

\* c <- true; the channel has room for both.
Send(g) ==
    /\ Go(g, "send", "done")
    /\ UNCHANGED <<sliceVars, answer, redirected, granted, asked, dead>>

Tokens == [i \in 1 .. tokens.len |-> Place(tokens.ptr, i)]

\* (mutant: the handler waits for one goroutine only)
AnswerFirst ==
    /\ ~dead /\ answer = None /\ \E g \in Regions : at[g] = "done"
    /\ answer' = Tokens
    /\ UNCHANGED <<at, sliceVars, redirected, granted, asked, dead>>

Answer ==
    /\ ~dead /\ answer = None /\ \A g \in Regions : at[g] = "done"
    /\ answer' = Tokens
    /\ UNCHANGED <<at, sliceVars, redirected, granted, asked, dead>>

Step(g) == GetToken(g) \/ TryCreatProject(g) \/ Load(g) \/ Append1(g) \/ Store(g) \/ Send(g)

Next == Answer \/ \E g \in Regions : Step(g)

Spec == Init /\ [][Next]_vars

\* Go schedules the goroutines, and a region answers or the connection fails:
\* token_proxy sets no timeout of its own.
FairSpec == Spec /\ WF_vars(Answer) /\ \A g \in Regions : WF_vars(Step(g))
-----------------------------------------------------------------------------
Answered == answer # None

\* However the appends interleave, who got a token of any region is signed
\* in, so is who a region redirected with an error only, nobody else is, and
\* there are no more tokens than redirects: an append may write over the
\* other's, but none makes the slice empty again.
AnswerCounts ==
    Answered => /\ answer = <<>> <=> redirected = {}
                /\ granted # {} => answer # <<>>
                /\ Len(answer) <= Cardinality(redirected)

\* When the appends do not overlap, all tokens are there, each with the name
\* of its own region, the one of an error blank.  When they do one may be lost
\* or carry the other's name.
TokensComplete ==
    Answered /\ ~overlapped =>
        /\ ~wild /\ Len(answer) = Cardinality(redirected)
        /\ \A g \in redirected : \E i \in DOMAIN answer : answer[i] = TokenOf(g)

\* No token is answered, whole or in part, before its region was asked for
\* the user's project.
ProjectAskedFirst ==
    Answered => \A i \in DOMAIN answer, f \in Fields, g \in Regions :
                    answer[i][f] = g => g \in asked

\* The handler answers, or the process dies.
SignInAnswers == <>(Answered \/ dead)
=============================================================================
