---------------------------- MODULE SignInProofs ----------------------------
(***************************************************************************)
(* Proofs about SignIn: what the answer holds, in whatever order the two   *)
(* goroutines load and store the words of the slice they share.            *)
(*                                                                         *)
(* The stored length is the key (Lengths): it is positive once anybody has *)
(* stored one, because an append stores one more than it loaded, and two   *)
(* only after both have, because the one was loaded from the other.  When  *)
(* the appends do not overlap, what one loads is what the other left       *)
(* (InTurn).                                                               *)
(***************************************************************************)
EXTENDS SignIn, TLAPS, FiniteSetTheorems

\* g has appended its token.
Finished(g) == g \in redirected /\ at[g] \in {"send", "done"}

\* g has stored the length, as a word of its own or with the others.
StoredLen(g) == Finished(g) \/ (at[g] = "store" /\ "len" \notin todo[g])

Progress ==
    \A g \in Regions :
        /\ at[g] = "getToken" => g \notin redirected
        /\ at[g] \in {"project", "load", "store"} => g \in redirected
        /\ at[g] \in {"load", "store"} => g \in asked
        /\ at[g] \in {"getToken", "project"} => \A w \in Words : seen[g][w] = None

Lengths ==
    /\ tokens.len = 0 <=> \A g \in Regions : ~StoredLen(g)
    /\ tokens.len = 2 => \A g \in Regions : StoredLen(g)
    /\ \A g \in Regions :
          /\ at[g] = "load" /\ seen[g].len # None =>
                seen[g].len = 0 \/ (seen[g].len = 1 /\ StoredLen(Other(g)))
          /\ at[g] = "store" =>
                seen[g].len = 1 \/ (seen[g].len = 2 /\ StoredLen(Other(g)))

\* Only a region that was asked for the project has its name or token in an
\* array.
Asked == \A g \in Regions, i \in 1 .. 2, f \in Fields, h \in Regions :
             array[g][i][f] = h => h \in asked

\* The answer is the slice as it stays.
Final == Answered => answer = Tokens /\ \A g \in Regions : at[g] = "done"

SafeInv == TypeOK /\ Progress /\ Lengths /\ Asked /\ Final

LEMMA OtherIs ==
    /\ Other("jd") = "aws" /\ Other("aws") = "jd"
    /\ \A g \in Regions : /\ Other(g) \in Regions /\ Other(g) # g
                          /\ Other(Other(g)) = g
                          /\ \A h \in Regions : h = g \/ h = Other(g)
BY DEF Other, Regions

\* What a goroutine appends is settled once its region has answered.
LEMMA TokenIs ==
    ASSUME NEW g \in Regions
    PROVE  /\ TokenOf(g) \in Token
           /\ \A f \in Fields : TokenOf(g)[f] \in {g, "blank"}
<1>1. All(g) \in Token /\ \A f \in Fields : All(g)[f] = g
  BY DEF All, Token, Text
<1>2. g \in Text /\ "blank" \in Text
  BY DEF Text
<1>3. ASSUME NEW x \in {g, "blank"}
      PROVE  /\ [All(g) EXCEPT !["access"] = x] \in Token
             /\ \A f \in Fields : [All(g) EXCEPT !["access"] = x][f] \in {g, "blank"}
  BY <1>1, <1>2 DEF Token
<1> QED  BY <1>3 DEF TokenOf

\* The steps that leave the slice and the arrays alone.
Talks(g) == GetToken(g) \/ TryCreatProject(g) \/ Send(g)

LEMMA InitSafe == Init => SafeInv
<1> SUFFICES ASSUME Init PROVE SafeInv
    OBVIOUS
<1> USE DEF Init
<1>1. TypeOK
  <2>1. All("garbage") \in Token
    BY DEF All, Token, Text
  <2>2. array \in [Regions -> [1 .. 2 -> Token]]
    BY <2>1
  <2>3. seen \in [Regions -> [ptr : Regions \cup {"zero", None},
                            len : 0 .. 2 \cup {None}, cap : 0 .. 2 \cup {None}]]
    BY DEF Words
  <2>4. tokens \in Header
    BY DEF Header
  <2> QED  BY <2>2, <2>3, <2>4 DEF TypeOK
<1>2. Progress /\ Lengths
  BY DEF Progress, Lengths, StoredLen, Finished, Regions, Words
<1>3. Asked
  BY DEF Asked, All, Regions, Fields
<1> QED  BY <1>1, <1>2, <1>3 DEF SafeInv, Final, Answered
-----------------------------------------------------------------------------
\* The types, which rest on Lengths: who loads finds no more than one token.

LEMMA LoadTypes ==
    ASSUME TypeOK, NEW g \in Regions, Load(g)
    PROVE  TypeOK'
<1> USE DEF Load
<1>1. PICK w \in Words : seen' = [seen EXCEPT ![g][w] = tokens[w]]
  OBVIOUS
<1>2. seen' \in [Regions -> [ptr : Regions \cup {"zero", None},
                            len : 0 .. 2 \cup {None}, cap : 0 .. 2 \cup {None}]]
  BY <1>1 DEF TypeOK, Header, Words
<1>3. \A h \in Regions : at'[h] = "store" => seen'[h] = seen[h]
  BY <1>1 DEF TypeOK
<1>4. overlapped' \in BOOLEAN
  BY Zenon
<1> QED  BY <1>2, <1>3, <1>4 DEF TypeOK

LEMMA PlaceIsToken ==
    ASSUME TypeOK, NEW i \in 1 .. 2, NEW ptr \in Regions \cup {"zero"}
    PROVE  Place(ptr, i) \in Token
BY DEF TypeOK, Place, All, Token, Text

LEMMA GrowSliceTypes ==
    ASSUME TypeOK, Lengths, NEW g \in Regions, at[g] = "load",
           \A w \in Words : seen[g][w] # None, GrowSlice(g)
    PROVE  /\ array' \in [Regions -> [1 .. 2 -> Token]]
           /\ seen[g].len \in {0, 1} /\ todo' = [todo EXCEPT ![g] = Words \cup Fields]
           /\ seen' = [seen EXCEPT ![g] = [ptr |-> g, len |-> seen[g].len + 1,
                                           cap |-> seen[g].len + 1]]
<1>1. seen[g] \in Header
  BY DEF TypeOK, Header, Words
<1>2. seen[g].len \in {0, 1}
  BY DEF Lengths, Words
<1> DEFINE made == [i \in 1 .. 2 |-> IF i <= seen[g].len THEN Place(seen[g].ptr, i)
                    ELSE All(IF i <= seen[g].len + 1 THEN "blank" ELSE "garbage")]
<1>3. made \in [1 .. 2 -> Token]
  <2>1. All("blank") \in Token /\ All("garbage") \in Token
    BY DEF All, Token, Text
  <2>2. \A i \in 1 .. 2 : Place(seen[g].ptr, i) \in Token
    BY <1>1, PlaceIsToken DEF Header
  <2> QED  BY <2>1, <2>2
<1>4. array' = [array EXCEPT ![g] = made]
  BY DEF GrowSlice, GrownCap
<1> QED  BY <1>2, <1>3, <1>4 DEF GrowSlice, GrownCap, TypeOK

LEMMA KeepSliceTypes ==
    ASSUME TypeOK, Lengths, NEW g \in Regions, at[g] = "load",
           \A w \in Words : seen[g][w] # None, KeepSlice(g)
    PROVE  /\ seen[g].len \in {0, 1} /\ array' = array
           /\ todo' \in [Regions -> SUBSET (Words \cup Fields)]
           /\ "len" \in todo'[g] /\ \A h \in Regions \ {g} : todo'[h] = todo[h]
           /\ seen' = [seen EXCEPT ![g].len = seen[g].len + 1]
           /\ seen[g] \in Header
<1>1. seen[g] \in Header
  BY DEF TypeOK, Header, Words
<1>2. seen[g].len \in {0, 1}
  BY DEF Lengths, Words
<1>3. PICK kept \in {{"len"}, Words} : todo' = [todo EXCEPT ![g] = kept \cup Fields]
  BY DEF KeepSlice
<1>4. kept \subseteq Words /\ "len" \in kept
  BY DEF Words
<1> QED  BY <1>1, <1>2, <1>3, <1>4 DEF KeepSlice, TypeOK

\* What an append decides on.
LEMMA Append1Shape ==
    ASSUME TypeOK, Lengths, NEW g \in Regions, Append1(g)
    PROVE  /\ at' = [at EXCEPT ![g] = "store"] /\ seen[g].len \in {0, 1}
           /\ seen'[g] \in Header /\ seen'[g].len = seen[g].len + 1
           /\ "len" \in todo'[g]
           /\ \A h \in Regions \ {g} : seen'[h] = seen[h] /\ todo'[h] = todo[h]
<1>1. at[g] = "load" /\ at' = [at EXCEPT ![g] = "store"]
  BY DEF Append1, Go
<1>2. CASE GrowSlice(g)
  <2>1. [ptr |-> g, len |-> seen[g].len + 1, cap |-> seen[g].len + 1] \in Header
    BY <1>1, <1>2, GrowSliceTypes DEF Append1, Header
  <2> QED  BY <1>1, <1>2, <2>1, GrowSliceTypes DEF Append1, TypeOK, Words
<1>3. CASE KeepSlice(g)
  <2>1. /\ seen[g].len \in {0, 1} /\ seen[g] \in Header
        /\ "len" \in todo'[g] /\ \A h \in Regions \ {g} : todo'[h] = todo[h]
        /\ seen' = [seen EXCEPT ![g].len = seen[g].len + 1]
    BY <1>1, <1>3, KeepSliceTypes DEF Append1
  <2>2. /\ seen'[g] = [seen[g] EXCEPT !.len = seen[g].len + 1]
        /\ \A h \in Regions \ {g} : seen'[h] = seen[h]
    BY <2>1 DEF TypeOK
  <2>3. seen'[g] \in Header /\ seen'[g].len = seen[g].len + 1
    BY <2>1, <2>2 DEF Header
  <2> QED  BY <1>1, <2>1, <2>2, <2>3
<1> QED  BY <1>2, <1>3 DEF Append1

LEMMA Append1Types ==
    ASSUME TypeOK, Lengths, NEW g \in Regions, Append1(g)
    PROVE  TypeOK'
<1>1. at[g] = "load" /\ at' = [at EXCEPT ![g] = "store"]
  BY DEF Append1, Go
<1>2. /\ seen' \in [Regions -> [ptr : Regions \cup {"zero", None},
                            len : 0 .. 2 \cup {None}, cap : 0 .. 2 \cup {None}]]
      /\ array' \in [Regions -> [1 .. 2 -> Token]]
      /\ todo' \in [Regions -> SUBSET (Words \cup Fields)]
  <2>1. CASE GrowSlice(g)
    <3>1. /\ array' \in [Regions -> [1 .. 2 -> Token]] /\ seen[g].len \in {0, 1}
          /\ todo' = [todo EXCEPT ![g] = Words \cup Fields]
          /\ seen' = [seen EXCEPT ![g] = [ptr |-> g, len |-> seen[g].len + 1,
                                          cap |-> seen[g].len + 1]]
      BY <1>1, <2>1, GrowSliceTypes DEF Append1
    <3>2. seen[g].len + 1 \in 0 .. 2
      BY <3>1
    <3> QED  BY <3>1, <3>2 DEF TypeOK
  <2>2. CASE KeepSlice(g)
    <3>1. /\ array' = array /\ todo' \in [Regions -> SUBSET (Words \cup Fields)]
          /\ seen[g].len \in {0, 1} /\ seen' = [seen EXCEPT ![g].len = seen[g].len + 1]
      BY <1>1, <2>2, KeepSliceTypes DEF Append1
    <3>2. seen[g].len + 1 \in 0 .. 2
      BY <3>1
    <3> QED  BY <3>1, <3>2 DEF TypeOK
  <2> QED  BY <2>1, <2>2 DEF Append1
<1>3. \A h \in Regions : at'[h] = "store" => seen'[h] \in Header /\ seen'[h].len > 0
  BY <1>1, Append1Shape DEF TypeOK
<1>4. UNCHANGED <<tokens, wild, overlapped, answer, redirected, granted, asked, dead>>
  BY DEF Append1
<1> QED  BY <1>1, <1>2, <1>3, <1>4 DEF TypeOK

\* A store writes a word, or a field of the token at the end.
LEMMA StoreShape ==
    ASSUME TypeOK, NEW g \in Regions, Store(g)
    PROVE  /\ at[g] = "store" /\ seen[g] \in Header /\ seen[g].len \in {1, 2}
           /\ UNCHANGED <<seen, overlapped, answer, redirected, granted, asked, dead>>
           /\ at' = IF todo'[g] = {} THEN [at EXCEPT ![g] = "send"] ELSE at
           /\ \E w \in todo[g] :
                 /\ w \in Words \cup Fields
                 /\ StoreWord(g, w) \/ StoreField(g, w)
                 /\ todo' = [todo EXCEPT ![g] = todo[g] \ {w}]
<1>1. at[g] = "store" /\ seen[g] \in Header /\ seen[g].len > 0
  BY DEF Store, TypeOK
<1>2. seen[g].len \in {1, 2}
  BY <1>1 DEF Header
<1>3. todo[g] \subseteq Words \cup Fields
  BY DEF TypeOK
<1> QED  BY <1>1, <1>2, <1>3 DEF Store

LEMMA StoreTypes ==
    ASSUME TypeOK, NEW g \in Regions, Store(g)
    PROVE  TypeOK'
<1>1. PICK w \in todo[g] : /\ w \in Words \cup Fields
                           /\ StoreWord(g, w) \/ StoreField(g, w)
                           /\ todo' = [todo EXCEPT ![g] = todo[g] \ {w}]
  BY StoreShape
<1>2. todo' \in [Regions -> SUBSET (Words \cup Fields)]
  BY <1>1 DEF TypeOK
<1>3. tokens' \in Header /\ array' \in [Regions -> [1 .. 2 -> Token]] /\ wild' \in BOOLEAN
  <2>1. CASE StoreWord(g, w)
    BY <2>1, StoreShape DEF StoreWord, TypeOK, Header, Words
  <2>2. CASE StoreField(g, w) /\ seen[g].ptr = "zero"
    BY <2>2 DEF StoreField, TypeOK
  <2>3. CASE StoreField(g, w) /\ seen[g].ptr # "zero"
    <3>1. /\ seen[g].ptr \in Regions /\ seen[g].len \in 1 .. 2 /\ w \in Fields
          /\ array[seen[g].ptr][seen[g].len] \in Token
      <4>1. seen[g].ptr \in Regions /\ seen[g].len \in 1 .. 2
        BY <2>3, StoreShape DEF Header
      <4> QED  BY <2>3, <4>1 DEF TypeOK, StoreField
    <3>2. array' = [array EXCEPT ![seen[g].ptr][seen[g].len][w] = TokenOf(g)[w]]
      BY <2>3 DEF StoreField
    <3>3. [array[seen[g].ptr][seen[g].len] EXCEPT ![w] = TokenOf(g)[w]] \in Token
      <4>1. TokenOf(g)[w] \in Text
        BY <3>1, TokenIs DEF Token
      <4> QED  BY <3>1, <4>1 DEF Token
    <3>4. array' \in [Regions -> [1 .. 2 -> Token]]
      BY <3>1, <3>2, <3>3 DEF TypeOK
    <3> QED  BY <2>3, <3>4 DEF StoreField, TypeOK
  <2> QED  BY <1>1, <2>1, <2>2, <2>3
<1>4. /\ at' = [at EXCEPT ![g] = "send"] \/ at' = at
      /\ UNCHANGED <<seen, overlapped, answer, redirected, granted, asked, dead>>
  BY StoreShape
<1>5. at' \in [Regions -> {"getToken", "project", "load", "store", "send", "done"}]
  BY <1>4 DEF TypeOK
<1>6. \A h \in Regions : at'[h] = "store" => at[h] = "store"
  BY <1>4 DEF TypeOK
<1> QED  BY <1>2, <1>3, <1>5, <1>6, <1>4 DEF TypeOK

LEMMA TalksShape ==
    ASSUME TypeOK, NEW g \in Regions, Talks(g)
    PROVE  /\ UNCHANGED <<sliceVars, answer>> /\ ~dead
           /\ \E next \in {"project", "load", "send", "done"} :
                 at' = [at EXCEPT ![g] = next]
           /\ redirected' \in SUBSET Regions /\ granted' \in SUBSET redirected'
           /\ asked' \in SUBSET Regions /\ dead' \in BOOLEAN
           /\ asked \subseteq asked'
           /\ at[g] \in {"getToken", "project", "send"}
BY DEF Talks, GetToken, TryCreatProject, Send, Go, TypeOK

LEMMA AnswerTypes == TypeOK /\ Answer => TypeOK'
<1> SUFFICES ASSUME TypeOK, Answer PROVE TypeOK'
    OBVIOUS
<1>1. answer' = [i \in 1 .. tokens.len |-> Place(tokens.ptr, i)]
  BY DEF Answer, Tokens
<1>2. tokens.len \in 0 .. 2 /\ tokens.ptr \in Regions \cup {"zero"}
  BY DEF TypeOK, Header
<1>3. answer' \in [1 .. tokens.len -> Token]
  BY <1>1, <1>2, PlaceIsToken
<1>4. answer' \in UNION {[1 .. n -> Token] : n \in 0 .. 2}
  BY <1>2, <1>3
<1> QED  BY <1>4 DEF TypeOK, Answer, sliceVars

LEMMA TypeStep == TypeOK /\ Lengths /\ [Next]_vars => TypeOK'
<1> SUFFICES ASSUME TypeOK, Lengths, [Next]_vars PROVE TypeOK'
    OBVIOUS
<1>1. ASSUME NEW g \in Regions, Talks(g) PROVE TypeOK'
  BY <1>1, TalksShape DEF TypeOK, sliceVars
<1>2. ASSUME NEW g \in Regions, Step(g) PROVE TypeOK'
  BY <1>1, <1>2, LoadTypes, Append1Types, StoreTypes DEF Step, Talks
<1>3. CASE UNCHANGED vars
  BY <1>3 DEF vars, TypeOK
<1> QED  BY <1>2, <1>3, AnswerTypes DEF Next
-----------------------------------------------------------------------------
\* Who has got how far, and the stored length.

LEMMA ProgressStep == TypeOK /\ Lengths /\ Progress /\ [Next]_vars => Progress'
<1> SUFFICES ASSUME TypeOK, Lengths, Progress, [Next]_vars PROVE Progress'
    OBVIOUS
<1> USE DEF Progress
<1>1. ASSUME NEW g \in Regions, GetToken(g) PROVE Progress'
  BY <1>1 DEF GetToken, Go, sliceVars, TypeOK
<1>2. ASSUME NEW g \in Regions, TryCreatProject(g) PROVE Progress'
  BY <1>2 DEF TryCreatProject, Go, sliceVars, TypeOK
<1>3. ASSUME NEW g \in Regions, Load(g) PROVE Progress'
  BY <1>3 DEF Load, TypeOK
<1>4. ASSUME NEW g \in Regions, Append1(g) PROVE Progress'
  <2>1. at[g] = "load" /\ UNCHANGED <<redirected, asked>>
    BY <1>4 DEF Append1, Go
  <2>2. /\ at'[g] = "store"
        /\ \A h \in Regions \ {g} : at'[h] = at[h] /\ seen'[h] = seen[h]
    BY <1>4, Append1Shape DEF TypeOK
  <2> QED  BY <2>1, <2>2
<1>5. ASSUME NEW g \in Regions, Store(g) PROVE Progress'
  <2>1. /\ at[g] = "store" /\ UNCHANGED <<seen, redirected, asked>>
        /\ at' = [at EXCEPT ![g] = "send"] \/ at' = at
    BY <1>5, StoreShape
  <2> QED  BY <2>1 DEF TypeOK
<1>6. ASSUME NEW g \in Regions, Send(g) PROVE Progress'
  BY <1>6 DEF Send, Go, sliceVars, TypeOK
<1>7. CASE Answer
  BY <1>7 DEF Answer, sliceVars
<1>8. CASE UNCHANGED vars
  BY <1>8 DEF vars
<1> QED  BY <1>1, <1>2, <1>3, <1>4, <1>5, <1>6, <1>7, <1>8 DEF Next, Step

\* Only a store of the length, or of the last word, adds to who stored it.
LEMMA TalksLengths ==
    ASSUME TypeOK, Progress, Lengths, NEW g \in Regions, Talks(g)
    PROVE  Lengths'
<1>1. \A h \in Regions : StoredLen(h)' <=> StoredLen(h)
  BY DEF Talks, GetToken, TryCreatProject, Send, Go, sliceVars, TypeOK, Progress,
         StoredLen, Finished
<1>2. /\ UNCHANGED <<tokens, seen, todo>>
      /\ \A h \in Regions : /\ at'[h] = "store" => at[h] = "store"
                            /\ at'[h] = "load" => at[h] \in {"load", "project"}
  BY DEF Talks, GetToken, TryCreatProject, Send, Go, sliceVars, TypeOK
<1>3. \A h \in Regions : at[h] = "project" => seen[h].len = None
  BY DEF Progress, Words
<1> QED  BY <1>1, <1>2, <1>3, OtherIs DEF Lengths

LEMMA LoadLengths ==
    ASSUME TypeOK, Lengths, NEW g \in Regions, Load(g)
    PROVE  Lengths'
<1>1. PICK w \in Words : seen' = [seen EXCEPT ![g][w] = tokens[w]]
  BY DEF Load
<1>2. \A h \in Regions : StoredLen(h)' <=> StoredLen(h)
  BY DEF Load, StoredLen, Finished
<1>3. at[g] = "load" /\ ~StoredLen(g) /\ UNCHANGED <<at, tokens, todo>>
  BY DEF Load, StoredLen, Finished
<1>4. tokens.len = 0 \/ (tokens.len = 1 /\ StoredLen(Other(g)))
  <2>1. tokens.len \in {0, 1, 2} /\ tokens.len # 2
    BY <1>3 DEF TypeOK, Header, Lengths
  <2>2. tokens.len = 1 => StoredLen(Other(g))
    BY <1>3, OtherIs DEF Lengths
  <2> QED  BY <2>1, <2>2
<1>5. seen'[g].len \in {seen[g].len, tokens.len}
  BY <1>1 DEF TypeOK, Words
<1>6. \A h \in Regions \ {g} : seen'[h] = seen[h]
  BY <1>1 DEF TypeOK
<1> QED  BY <1>2, <1>3, <1>4, <1>5, <1>6, OtherIs DEF Lengths

LEMMA Append1Lengths ==
    ASSUME TypeOK, Lengths, NEW g \in Regions, Append1(g)
    PROVE  Lengths'
<1>1. /\ at[g] = "load" /\ seen[g].len # None
      /\ UNCHANGED <<tokens, redirected>>
  BY DEF Append1, Go, Words
<1>2. /\ at'[g] = "store" /\ "len" \in todo'[g] /\ seen'[g].len = seen[g].len + 1
      /\ \A h \in Regions \ {g} : /\ at'[h] = at[h] /\ seen'[h] = seen[h]
                                  /\ todo'[h] = todo[h]
  BY Append1Shape DEF TypeOK
<1>3. \A h \in Regions : StoredLen(h)' <=> StoredLen(h)
  BY <1>1, <1>2 DEF StoredLen, Finished
<1>4. seen[g].len = 0 \/ (seen[g].len = 1 /\ StoredLen(Other(g)))
  BY <1>1 DEF Lengths
<1>5. seen'[g].len = 1 \/ (seen'[g].len = 2 /\ StoredLen(Other(g))')
  BY <1>2, <1>3, <1>4, OtherIs
<1> QED  BY <1>1, <1>2, <1>3, <1>5, OtherIs DEF Lengths

LEMMA StoreLengths ==
    ASSUME TypeOK, Progress, Lengths, NEW g \in Regions, Store(g)
    PROVE  Lengths'
<1>1. PICK w \in todo[g] : /\ w \in Words \cup Fields
                           /\ StoreWord(g, w) \/ StoreField(g, w)
                           /\ todo' = [todo EXCEPT ![g] = todo[g] \ {w}]
  BY StoreShape
<1>2. /\ at[g] = "store" /\ UNCHANGED <<seen, redirected>> /\ g \in redirected
      /\ at' = IF todo'[g] = {} THEN [at EXCEPT ![g] = "send"] ELSE at
  BY StoreShape DEF Progress
<1>3. /\ todo'[g] = todo[g] \ {w}
      /\ \A h \in Regions \ {g} : todo'[h] = todo[h] /\ at'[h] = at[h]
      /\ at'[g] = IF todo'[g] = {} THEN "send" ELSE "store"
  BY <1>1, <1>2 DEF TypeOK
<1>4. \A h \in Regions \ {g} : StoredLen(h)' <=> StoredLen(h)
  BY <1>2, <1>3 DEF StoredLen, Finished
<1>5. StoredLen(g)' <=> StoredLen(g) \/ w = "len"
  BY <1>2, <1>3 DEF StoredLen, Finished
<1>6. tokens'.len = IF w = "len" THEN seen[g].len ELSE tokens.len
  BY <1>1 DEF StoreWord, StoreField, TypeOK, Header, Words, Fields
<1>7. seen[g].len = 1 \/ (seen[g].len = 2 /\ StoredLen(Other(g)))
  BY <1>2 DEF Lengths
<1>8. \A h \in Regions : at'[h] \in {"load", "store"} => at'[h] = at[h]
  BY <1>2, <1>3
<1>9. /\ tokens'.len = 0 <=> \A h \in Regions : ~StoredLen(h)'
      /\ tokens'.len = 2 => \A h \in Regions : StoredLen(h)'
  BY <1>4, <1>5, <1>6, <1>7, OtherIs DEF Lengths
<1> QED  BY <1>2, <1>4, <1>5, <1>8, <1>9, OtherIs DEF Lengths

LEMMA LengthsStep == TypeOK /\ Progress /\ Lengths /\ [Next]_vars => Lengths'
<1> SUFFICES ASSUME TypeOK, Progress, Lengths, [Next]_vars PROVE Lengths'
    OBVIOUS
<1>1. CASE Answer
  BY <1>1 DEF Answer, sliceVars, Lengths, StoredLen, Finished
<1>2. CASE UNCHANGED vars
  BY <1>2 DEF vars, Lengths, StoredLen, Finished
<1> QED  BY <1>1, <1>2, TalksLengths, LoadLengths, Append1Lengths, StoreLengths
         DEF Next, Step, Talks
-----------------------------------------------------------------------------
\* The texts in the arrays, and the answer.

LEMMA PlaceAsked ==
    ASSUME Asked, NEW i \in 1 .. 2, NEW ptr \in Regions \cup {"zero"}, NEW f \in Fields,
           NEW h \in Regions, Place(ptr, i)[f] = h
    PROVE  h \in asked
<1>1. All("garbage")[f] # h
  BY DEF All, Regions
<1> QED  BY <1>1 DEF Asked, Place

LEMMA Append1Asked ==
    ASSUME TypeOK, Lengths, Asked, NEW g \in Regions, Append1(g)
    PROVE  Asked'
<1>1. seen[g] \in Header /\ asked' = asked
  BY DEF Append1, TypeOK, Header, Words
<1>2. CASE KeepSlice(g)
  BY <1>1, <1>2 DEF KeepSlice, Asked
<1>3. CASE GrowSlice(g)
  <2> DEFINE cap1 == GrownCap(seen[g].len)
             made == [i \in 1 .. 2 |-> IF i <= seen[g].len THEN Place(seen[g].ptr, i)
                      ELSE All(IF i <= cap1 THEN "blank" ELSE "garbage")]
  <2>1. array' = [array EXCEPT ![g] = made]
    BY <1>3 DEF GrowSlice
  <2>2. ASSUME NEW i \in 1 .. 2, NEW f \in Fields, NEW h \in Regions, made[i][f] = h
        PROVE  h \in asked
    <3>1. CASE i <= seen[g].len
      BY <1>1, <2>2, <3>1, PlaceAsked DEF Header
    <3>2. All("blank")[f] # h /\ All("garbage")[f] # h
      BY DEF All, Regions
    <3> QED  BY <2>2, <3>1, <3>2
  <2> HIDE DEF made
  <2>3. array'[g] = made /\ \A h \in Regions \ {g} : array'[h] = array[h]
    BY <2>1 DEF TypeOK
  <2> QED  BY <1>1, <2>2, <2>3 DEF Asked
<1> QED  BY <1>2, <1>3 DEF Append1

LEMMA StoreAsked ==
    ASSUME TypeOK, Progress, Asked, NEW g \in Regions, Store(g)
    PROVE  Asked'
<1>1. PICK w \in todo[g] : StoreWord(g, w) \/ StoreField(g, w)
  BY StoreShape
<1>2. asked' = asked /\ g \in asked
  BY StoreShape DEF Progress
<1>3. CASE array' = array
  BY <1>2, <1>3 DEF Asked
<1>4. CASE StoreField(g, w) /\ array' # array
  <2>0. w \in Fields /\ array' = [array EXCEPT ![seen[g].ptr][seen[g].len][w] = TokenOf(g)[w]]
    BY <1>4 DEF StoreField
  <2>1. \A h \in Regions, i \in 1 .. 2, f \in Fields :
            array'[h][i][f] \in {array[h][i][f], TokenOf(g)[w]}
    BY <2>0 DEF TypeOK, Token
  <2>2. TokenOf(g)[w] \in {g, "blank"} /\ \A h \in Regions : h # "blank"
    BY <2>0, TokenIs DEF Regions
  <2> QED  BY <1>2, <2>1, <2>2 DEF Asked
<1> QED  BY <1>1, <1>3, <1>4 DEF StoreWord, StoreField

LEMMA AskedStep == TypeOK /\ Lengths /\ Progress /\ Asked /\ [Next]_vars => Asked'
<1> SUFFICES ASSUME TypeOK, Lengths, Progress, Asked, [Next]_vars PROVE Asked'
    OBVIOUS
<1>1. ASSUME NEW g \in Regions, Talks(g) PROVE Asked'
  BY <1>1, TalksShape DEF Asked, sliceVars
<1>2. ASSUME NEW g \in Regions, Load(g) PROVE Asked'
  BY <1>2 DEF Asked, Load
<1>3. CASE Answer \/ UNCHANGED vars
  BY <1>3 DEF Answer, sliceVars, vars, Asked
<1> QED  BY <1>1, <1>2, <1>3, Append1Asked, StoreAsked DEF Next, Step, Talks

LEMMA FinalStep == TypeOK /\ Final /\ [Next]_vars => Final'
<1> SUFFICES ASSUME TypeOK, Final, [Next]_vars PROVE Final'
    OBVIOUS
<1>1. ASSUME NEW g \in Regions, Step(g) PROVE Final'
  <2>1. at[g] # "done" /\ answer' = answer
    BY <1>1 DEF Step, GetToken, TryCreatProject, Load, Append1, Store, Send, Go
  <2> QED  BY <2>1 DEF Final, Answered
<1>2. CASE Answer
  BY <1>2 DEF Answer, sliceVars, Final, Tokens, Place
<1>3. CASE UNCHANGED vars
  BY <1>3 DEF vars, Final, Answered, Tokens, Place
<1> QED  BY <1>1, <1>2, <1>3 DEF Next

LEMMA SafeInductive == Spec => []SafeInv
<1>1. SafeInv /\ [Next]_vars => SafeInv'
  BY TypeStep, ProgressStep, LengthsStep, AskedStep, FinalStep DEF SafeInv
<1> QED  BY <1>1, InitSafe, PTL DEF Spec

\* Whatever words the goroutines load and store, and whoever's come last, the
\* shared slice has a length, a base and an array as the runtime knows them.
THEOREM TypeCorrect == Spec => []TypeOK
<1>1. SafeInv => TypeOK
  BY DEF SafeInv
<1> QED  BY <1>1, SafeInductive, PTL

LEMMA HowMany ==
    ASSUME NEW S \in SUBSET Regions
    PROVE  /\ Cardinality(S) \in 0 .. 2
           /\ Cardinality(S) = 0 <=> S = {}
           /\ Cardinality(S) = 2 <=> S = Regions
<1>1. Cardinality({}) = 0 /\ \A g \in Regions : Cardinality({g}) = 1
  BY FS_EmptySet, FS_Singleton
<1>2. Cardinality(Regions) = 2
  <2>1. IsFiniteSet({"jd"}) /\ Cardinality({"jd"}) = 1 /\ "aws" \notin {"jd"}
    BY FS_Singleton
  <2>2. Regions = {"jd"} \cup {"aws"}
    BY DEF Regions
  <2> QED  BY <2>1, <2>2, FS_AddElement
<1>3. S = {} \/ S = Regions \/ S = {"jd"} \/ S = {"aws"}
  BY DEF Regions
<1>4. /\ "jd" \in Regions /\ "aws" \in Regions /\ Regions # {}
      /\ \A g \in Regions : {g} # {} /\ {g} # Regions
  BY DEF Regions
<1>5. CASE S = {}
  BY <1>1, <1>4, <1>5
<1>6. CASE S = Regions
  BY <1>2, <1>4, <1>6
<1>7. ASSUME NEW g \in Regions, S = {g}
      PROVE  Cardinality(S) = 1 /\ S # {} /\ S # Regions
  BY <1>1, <1>4, <1>7
<1>8. CASE \E g \in Regions : S = {g}
  BY <1>7, <1>8
<1> QED  BY <1>3, <1>4, <1>5, <1>6, <1>8

\* An answer holds a token exactly if a region answered with a redirect, and no
\* more than redirected: no overlap of the appends in SignIn makes the slice
\* empty again.
THEOREM AnswersCounted == Spec => []AnswerCounts
<1>1. ASSUME SafeInv PROVE AnswerCounts
  <2> SUFFICES ASSUME Answered
               PROVE  /\ answer = <<>> <=> redirected = {}
                      /\ granted # {} => answer # <<>>
                      /\ Len(answer) <= Cardinality(redirected)
    BY DEF AnswerCounts
  <2>1. /\ answer = Tokens /\ tokens.len \in 0 .. 2 /\ redirected \in SUBSET Regions
        /\ \A g \in Regions : StoredLen(g) <=> g \in redirected
    <3>1. answer = Tokens /\ \A g \in Regions : at[g] = "done"
      BY <1>1 DEF SafeInv, Final
    <3>2. \A g \in Regions : StoredLen(g) <=> g \in redirected
      BY <3>1 DEF StoredLen, Finished
    <3>3. tokens \in Header /\ redirected \in SUBSET Regions
      BY <1>1 DEF SafeInv, TypeOK
    <3> QED  BY <3>1, <3>2, <3>3 DEF Header
  <2>2. answer = <<>> <=> tokens.len = 0
    BY <2>1 DEF Tokens
  <2>3. Len(answer) = tokens.len
    BY <2>1 DEF Tokens
  <2>4. /\ tokens.len = 0 <=> redirected = {}
        /\ tokens.len = 2 => redirected = Regions
    BY <1>1, <2>1 DEF SafeInv, Lengths
  <2>5. granted # {} => redirected # {}
    BY <1>1 DEF SafeInv, TypeOK
  <2> QED  BY <2>1, <2>2, <2>3, <2>4, <2>5, HowMany
<1> QED  BY <1>1, SafeInductive, PTL

\* No text of a token is answered before its region was asked for the user's
\* project: the deferred call of token_proxy comes before the append.
THEOREM ProjectIsAskedFirst == Spec => []ProjectAskedFirst
<1>1. ASSUME SafeInv PROVE ProjectAskedFirst
  <2> SUFFICES ASSUME Answered, NEW i \in DOMAIN answer, NEW f \in Fields,
                      NEW g \in Regions, answer[i][f] = g
               PROVE  g \in asked
    BY DEF ProjectAskedFirst
  <2>1. answer = Tokens /\ tokens.len \in 0 .. 2 /\ tokens.ptr \in Regions \cup {"zero"}
    BY <1>1 DEF SafeInv, Final, TypeOK, Header
  <2>2. i \in 1 .. 2 /\ answer[i] = Place(tokens.ptr, i)
    BY <2>1 DEF Tokens
  <2> QED  BY <1>1, <2>1, <2>2, PlaceAsked DEF SafeInv
<1> QED  BY <1>1, SafeInductive, PTL
-----------------------------------------------------------------------------
\* Appends in turn: the slice holds the tokens appended so far, each once, the
\* latest in the latest array; ...
Complete ==
    /\ tokens.cap = tokens.len
    /\ (\A g \in Regions : ~Finished(g)) => tokens.ptr = "zero" /\ tokens.len = 0
    /\ \A g \in Regions : Finished(g) /\ ~Finished(Other(g)) =>
          tokens.ptr = g /\ tokens.len = 1 /\ array[g][1] = TokenOf(g)
    /\ (\A g \in Regions : Finished(g)) =>
          \E g \in Regions : /\ tokens.ptr = g /\ tokens.len = 2
                             /\ array[g][1] = TokenOf(Other(g)) /\ array[g][2] = TokenOf(g)

\* ... and who stores puts its own token after the other's, if there is one.
Before(g) == IF Finished(Other(g)) THEN 1 ELSE 0
Writing(g) ==
    /\ seen[g] = [ptr |-> g, len |-> Before(g) + 1, cap |-> Before(g) + 1]
    /\ \A w \in Words \ todo[g] : tokens[w] = seen[g][w]
    /\ \A f \in Fields \ todo[g] : array[g][Before(g) + 1][f] = TokenOf(g)[f]
    /\ Finished(Other(g)) => array[g][1] = TokenOf(Other(g))

Loaded(g) == \A w \in Words : seen[g][w] \in {None, tokens[w]}

InTurn ==
    /\ ~wild
    /\ \A g \in Regions : Appending(g) => ~Appending(Other(g))
    /\ (\A g \in Regions : at[g] # "store") => Complete
    /\ \A g \in Regions : /\ at[g] = "load" => Loaded(g)
                          /\ at[g] = "store" => Writing(g)

TurnInv == ~overlapped => InTurn

LEMMA InitTurn == Init => TurnInv
<1> SUFFICES ASSUME Init PROVE InTurn
    BY DEF TurnInv
<1>1. \A g \in Regions : ~Finished(g) /\ ~Appending(g) /\ at[g] = "getToken"
  BY OtherIs DEF Init, Finished, Appending, Words
<1>2. Complete
  BY <1>1, OtherIs DEF Init, Complete, Regions
<1> QED  BY <1>1, <1>2 DEF InTurn, Init

LEMMA StoresAlone ==
    ASSUME InTurn, NEW g \in Regions, at[g] = "store"
    PROVE  /\ Writing(g) /\ ~Appending(Other(g)) /\ at[Other(g)] # "store"
           /\ at[Other(g)] = "load" => \A w \in Words : seen[Other(g)][w] = None
<1>1. Appending(g)
  BY DEF Appending
<1> QED  BY <1>1, OtherIs DEF InTurn, Appending

LEMMA TokensSame ==
    ASSUME granted' = granted
    PROVE  \A h : TokenOf(h)' = TokenOf(h)
BY DEF TokenOf, All

LEMMA TokensSettled ==
    ASSUME NEW g \in Regions, Step(g), NEW h \in Regions, at[h] # "getToken"
    PROVE  TokenOf(h)' = TokenOf(h)
<1>1. h \in granted' <=> h \in granted
  BY DEF Step, GetToken, TryCreatProject, Load, Append1, Store, Send, Go
<1> QED  BY <1>1 DEF TokenOf, All

LEMMA TalksTurn ==
    ASSUME TypeOK, Progress, TurnInv, NEW g \in Regions, Talks(g)
    PROVE  TurnInv'
<1> SUFFICES ASSUME InTurn, ~overlapped PROVE InTurn'
    BY TalksShape DEF TurnInv, sliceVars
<1>1. /\ UNCHANGED <<tokens, array, seen, todo, wild>>
      /\ \A h \in Regions : /\ at'[h] = "store" <=> at[h] = "store"
                            /\ at'[h] = "load" => at[h] \in {"load", "project"}
  BY DEF Talks, GetToken, TryCreatProject, Send, Go, sliceVars, TypeOK
<1>2. \A h \in Regions : Finished(h)' <=> Finished(h)
  BY DEF Talks, GetToken, TryCreatProject, Send, Go, TypeOK, Progress, Finished
<1>3. \A h \in Regions : at[h] = "project" => \A w \in Words : seen[h][w] = None
  BY DEF Progress
<1>4. \A h \in Regions : Appending(h)' => Appending(h)
  BY <1>1, <1>3 DEF Appending
<1>8. \A h \in Regions : Finished(h) \/ at[h] = "store" => TokenOf(h)' = TokenOf(h)
  <2>1. \A h \in Regions : Finished(h) \/ at[h] = "store" => at[h] # "getToken"
    BY DEF Finished
  <2> QED  BY <2>1, TokensSettled DEF Talks, Step
<1>5. Complete => Complete'
  BY <1>1, <1>2, <1>8, OtherIs DEF Complete
<1>6. \A h \in Regions : at[h] = "store" /\ Writing(h) => Writing(h)'
  BY <1>1, <1>2, <1>8, OtherIs DEF Writing, Before
<1>7. \A h \in Regions : at'[h] = "load" => Loaded(h)'
  BY <1>1, <1>3 DEF InTurn, Loaded
<1> QED  BY <1>1, <1>4, <1>5, <1>6, <1>7, OtherIs DEF InTurn

LEMMA LoadTurn ==
    ASSUME TypeOK, TurnInv, NEW g \in Regions, Load(g)
    PROVE  TurnInv'
<1> SUFFICES ASSUME InTurn, ~overlapped, ~Appending(Other(g)) PROVE InTurn'
    BY DEF TurnInv, Load
<1>1. PICK w \in Words : seen' = [seen EXCEPT ![g][w] = tokens[w]]
  BY DEF Load
<1>2. /\ at[g] = "load" /\ UNCHANGED <<at, tokens, array, todo, wild, redirected>>
      /\ \A h : TokenOf(h)' = TokenOf(h)
  BY TokensSame DEF Load
<1>3. \A h \in Regions \ {g} : seen'[h] = seen[h]
  BY <1>1 DEF TypeOK
<1>4. \A x \in Words : seen'[g][x] \in {seen[g][x], tokens[x]}
  BY <1>1 DEF TypeOK, Words
<1>5. Complete' <=> Complete
  BY <1>2 DEF Complete, Finished
<1>6. \A h \in Regions \ {g} :
          /\ Appending(h)' => Appending(h)
          /\ Loaded(h)' <=> Loaded(h)
          /\ Writing(h)' <=> Writing(h)
  BY <1>2, <1>3 DEF Appending, Loaded, Writing, Before, Finished
<1>7. Loaded(g)'
  BY <1>2, <1>4 DEF InTurn, Loaded
<1>8. ~Appending(Other(g))'
  BY <1>6, OtherIs
<1> QED  BY <1>2, <1>5, <1>6, <1>7, <1>8, OtherIs DEF InTurn

LEMMA Append1Turn ==
    ASSUME TypeOK, Lengths, TurnInv, NEW g \in Regions, Append1(g)
    PROVE  TurnInv'
<1> SUFFICES ASSUME InTurn, ~overlapped PROVE InTurn'
    BY DEF TurnInv, Append1
<1>1. /\ at[g] = "load" /\ at' = [at EXCEPT ![g] = "store"]
      /\ \A w \in Words : seen[g][w] # None
      /\ UNCHANGED <<tokens, wild, redirected>>
      /\ \A h : TokenOf(h)' = TokenOf(h)
  BY TokensSame DEF Append1, Go
<1>2. Appending(g)
  BY <1>1 DEF Appending, Words
<1>3. ~Appending(Other(g)) /\ Complete
  BY <1>1, <1>2, OtherIs DEF InTurn, Appending
<1>4. /\ seen[g].ptr = tokens.ptr /\ seen[g].len = tokens.len
      /\ seen[g].cap = tokens.cap
  BY <1>1 DEF InTurn, Loaded, Words
<1>5. ~Finished(g)
  BY <1>1 DEF Finished
<1>6. /\ tokens.len = Before(g) /\ tokens.cap = tokens.len
      /\ Finished(Other(g)) => /\ tokens.ptr = Other(g)
                               /\ array[Other(g)][1] = TokenOf(Other(g))
  BY <1>3, <1>5, OtherIs DEF Complete, Before
<1>7. GrowSlice(g)
  BY <1>4, <1>6 DEF Append1, KeepSlice, Before
<1>8. /\ todo' = [todo EXCEPT ![g] = Words \cup Fields]
      /\ seen' = [seen EXCEPT ![g] = [ptr |-> g, len |-> Before(g) + 1,
                                      cap |-> Before(g) + 1]]
  BY <1>1, <1>4, <1>6, <1>7, GrowSliceTypes
<1>9. /\ todo'[g] = Words \cup Fields
      /\ seen'[g] = [ptr |-> g, len |-> Before(g) + 1, cap |-> Before(g) + 1]
      /\ at'[g] = "store"
      /\ \A h \in Regions \ {g} : /\ todo'[h] = todo[h] /\ seen'[h] = seen[h]
                                  /\ at'[h] = at[h]
  BY <1>1, <1>8 DEF TypeOK
<1>10. \A h \in Regions : Finished(h)' <=> Finished(h)
  BY <1>1, <1>9 DEF Finished
<1>11. Finished(Other(g)) => array'[g][1] = TokenOf(Other(g))
  <2>1. array'[g][1] = IF 1 <= seen[g].len THEN Place(seen[g].ptr, 1)
                       ELSE All(IF 1 <= GrownCap(seen[g].len) THEN "blank" ELSE "garbage")
    BY <1>7 DEF GrowSlice, TypeOK
  <2>2. Finished(Other(g)) => seen[g].len = 1 /\ seen[g].ptr = Other(g)
    BY <1>4, <1>6 DEF Before
  <2>3. Other(g) # "zero"
    BY OtherIs DEF Regions
  <2> QED  BY <1>6, <2>1, <2>2, <2>3 DEF Place
<1>12. Writing(g)'
  BY <1>1, <1>9, <1>10, <1>11, OtherIs DEF Writing, Before
<1>13. ~Appending(Other(g))' /\ at'[Other(g)] # "store"
  BY <1>3, <1>9, OtherIs DEF Appending
<1>14. at'[Other(g)] = "load" => Loaded(Other(g))'
  BY <1>1, <1>9, OtherIs DEF InTurn, Loaded
<1> QED  BY <1>1, <1>9, <1>12, <1>13, <1>14, OtherIs DEF InTurn

\* A store alone leaves Writing, and the last one Complete.
LEMMA StoreWrites ==
    ASSUME TypeOK, InTurn, NEW g \in Regions, Store(g)
    PROVE  /\ wild' = wild
           /\ \A w \in Words \ todo'[g] : tokens'[w] = seen[g][w]
           /\ \A f \in Fields \ todo'[g] : array'[g][Before(g) + 1][f] = TokenOf(g)[f]
           /\ Finished(Other(g)) => array'[g][1] = TokenOf(Other(g))
<1>1. PICK w \in todo[g] : /\ w \in Words \cup Fields
                           /\ StoreWord(g, w) \/ StoreField(g, w)
                           /\ todo' = [todo EXCEPT ![g] = todo[g] \ {w}]
  BY StoreShape
<1>2. Writing(g) /\ todo'[g] = todo[g] \ {w}
  BY <1>1, StoreShape, StoresAlone DEF TypeOK
<1>3. seen[g].ptr = g /\ seen[g].len = Before(g) + 1 /\ g # "zero"
  BY <1>2 DEF Writing, Regions
<1>4. CASE StoreWord(g, w)
  <2>1. /\ UNCHANGED <<array, wild>> /\ tokens'[w] = seen[g][w] /\ w \in Words
        /\ \A x \in Words \ {w} : tokens'[x] = tokens[x]
    BY <1>4 DEF StoreWord, TypeOK, Header, Words
  <2>2. w \notin Fields
    BY <2>1 DEF Words, Fields
  <2> QED  BY <1>2, <2>1, <2>2 DEF Writing
<1>5. CASE StoreField(g, w)
  <2>1. /\ UNCHANGED <<tokens, wild>> /\ w \in Fields
        /\ array' = [array EXCEPT ![g][Before(g) + 1][w] = TokenOf(g)[w]]
    BY <1>3, <1>5 DEF StoreField
  <2>2. w \notin Words /\ Before(g) \in {0, 1} /\ (Finished(Other(g)) => Before(g) = 1)
    BY <2>1 DEF Words, Fields, Before
  <2>3. /\ array'[g][Before(g) + 1][w] = TokenOf(g)[w]
        /\ \A f \in Fields \ {w} : array'[g][Before(g) + 1][f] = array[g][Before(g) + 1][f]
        /\ \A i \in 1 .. 2 \ {Before(g) + 1} : array'[g][i] = array[g][i]
    BY <2>1, <2>2 DEF TypeOK, Token
  <2> QED  BY <1>2, <2>1, <2>2, <2>3 DEF Writing
<1> QED  BY <1>1, <1>4, <1>5

LEMMA StoreTurn ==
    ASSUME TypeOK, Progress, TurnInv, NEW g \in Regions, Store(g)
    PROVE  TurnInv'
<1> SUFFICES ASSUME InTurn PROVE InTurn'
    BY StoreShape DEF TurnInv
<1>1. /\ at[g] = "store" /\ UNCHANGED <<seen, redirected>> /\ g \in redirected
      /\ at' = IF todo'[g] = {} THEN [at EXCEPT ![g] = "send"] ELSE at
      /\ Writing(g) /\ \A h : TokenOf(h)' = TokenOf(h)
  BY StoreShape, StoresAlone, TokensSame DEF Progress
<1>2. /\ at'[Other(g)] = at[Other(g)] /\ at[Other(g)] # "store"
      /\ at'[g] = IF todo'[g] = {} THEN "send" ELSE "store"
  BY <1>1, StoresAlone, OtherIs DEF TypeOK
<1>3. /\ ~Appending(Other(g))'
      /\ at'[Other(g)] = "load" => Loaded(Other(g))'
  BY <1>1, <1>2, StoresAlone, OtherIs DEF Appending, Loaded
<1>4. Finished(Other(g))' <=> Finished(Other(g))
  BY <1>1, <1>2 DEF Finished
<1>5. seen'[g] = [ptr |-> g, len |-> Before(g) + 1, cap |-> Before(g) + 1]
  BY <1>1 DEF Writing
<1>6. CASE todo'[g] # {}
  <2>1. Writing(g)'
    BY <1>1, <1>4, <1>5, StoreWrites DEF Writing, Before
  <2> QED  BY <1>2, <1>3, <1>6, <2>1, OtherIs, StoreWrites DEF InTurn
<1>7. CASE todo'[g] = {}
  <2>1. at'[g] = "send" /\ Finished(g)'
    BY <1>1, <1>2, <1>7 DEF Finished
  <2>2. /\ tokens'.ptr = g /\ tokens'.len = Before(g) + 1
        /\ tokens'.cap = Before(g) + 1
    BY <1>1, <1>5, <1>7, StoreWrites DEF Words
  <2>3. array'[g][Before(g) + 1] = TokenOf(g)
    <3>1. \A f \in Fields : array'[g][Before(g) + 1][f] = TokenOf(g)[f]
      BY <1>7, StoreWrites
    <3>2. array'[g][Before(g) + 1] \in [Fields -> Text]
      BY StoreTypes DEF TypeOK, Token, Before
    <3> QED  BY <3>1, <3>2, TokenIs DEF Token
  <2>4. Complete'
    BY <1>1, <1>4, <2>1, <2>2, <2>3, OtherIs, StoreWrites DEF Complete, Before
  <2>5. ~Appending(g)'
    BY <2>1 DEF Appending
  <2> QED  BY <1>2, <1>3, <2>1, <2>4, <2>5, OtherIs, StoreWrites DEF InTurn
<1> QED  BY <1>6, <1>7

LEMMA TurnStep == SafeInv /\ TurnInv /\ [Next]_vars => TurnInv'
<1> SUFFICES ASSUME SafeInv, TurnInv, [Next]_vars PROVE TurnInv'
    OBVIOUS
<1> USE DEF SafeInv
<1>1. CASE Answer \/ UNCHANGED vars
  <2>1. /\ UNCHANGED <<at, sliceVars, redirected>>
        /\ \A h : TokenOf(h)' = TokenOf(h)
    BY <1>1, TokensSame DEF Answer, vars, sliceVars
  <2> QED  BY <2>1 DEF sliceVars, TurnInv, InTurn, Complete, Appending, Loaded, Writing,
                       Before, Finished
<1> QED  BY <1>1, TalksTurn, LoadTurn, Append1Turn, StoreTurn DEF Next, Step, Talks

\* When the appends of the two regions do not overlap, the answer holds what
\* every region's redirect gave, with the name of its own region.
THEOREM TokensAreComplete == Spec => []TokensComplete
<1>1. ASSUME SafeInv, TurnInv PROVE TokensComplete
  <2> SUFFICES ASSUME Answered, ~overlapped
               PROVE  /\ ~wild /\ Len(answer) = Cardinality(redirected)
                      /\ \A g \in redirected : \E i \in DOMAIN answer : answer[i] = TokenOf(g)
    BY DEF TokensComplete
  <2>1. /\ answer = Tokens /\ redirected \in SUBSET Regions
        /\ \A g \in Regions : at[g] = "done"
    BY <1>1 DEF SafeInv, Final, TypeOK
  <2>2. ~wild /\ Complete
    BY <1>1, <2>1 DEF TurnInv, InTurn
  <2>3. \A g \in Regions : Finished(g) <=> g \in redirected
    BY <2>1 DEF Finished
  <2>4. CASE redirected = {}
    <3>1. tokens.len = 0
      BY <2>2, <2>3, <2>4 DEF Complete
    <3> QED  BY <2>1, <2>2, <2>4, <3>1, HowMany DEF Tokens
  <2>5. ASSUME NEW g \in redirected, Other(g) \notin redirected
        PROVE  /\ Len(answer) = 1 /\ Cardinality(redirected) = 1
               /\ redirected = {g} /\ answer[1] = TokenOf(g) /\ 1 \in DOMAIN answer
    <3>1. g \in Regions /\ g # "zero" /\ redirected = {g}
      BY <2>1, <2>5, OtherIs DEF Regions
    <3>2. tokens.ptr = g /\ tokens.len = 1 /\ array[g][1] = TokenOf(g)
      BY <2>2, <2>3, <2>5, <3>1, OtherIs DEF Complete
    <3>3. Cardinality(redirected) = 1
      BY <3>1, FS_Singleton
    <3>4. answer = [i \in 1 .. 1 |-> array[g][i]]
      BY <2>1, <3>1, <3>2 DEF Tokens, Place
    <3>5. Len(answer) = 1 /\ answer[1] = array[g][1] /\ 1 \in DOMAIN answer
      BY <3>4
    <3> QED  BY <3>1, <3>2, <3>3, <3>5
  <2>6. CASE redirected = Regions
    <3>1. PICK g \in Regions : /\ tokens.ptr = g /\ tokens.len = 2
                               /\ array[g][1] = TokenOf(Other(g)) /\ array[g][2] = TokenOf(g)
      BY <2>2, <2>3, <2>6 DEF Complete
    <3>2. g # "zero" /\ Cardinality(redirected) = 2
      BY <2>6, HowMany DEF Regions
    <3>3. /\ Len(answer) = 2 /\ answer[1] = TokenOf(Other(g)) /\ answer[2] = TokenOf(g)
          /\ DOMAIN answer = 1 .. 2
      BY <2>1, <3>1, <3>2 DEF Tokens, Place
    <3> QED  BY <2>2, <2>6, <3>2, <3>3, OtherIs
  <2>7. CASE \E g \in redirected : Other(g) \notin redirected
    <3>1. Len(answer) = Cardinality(redirected) /\ 1 \in DOMAIN answer
      BY <2>5, <2>7
    <3>2. \A h \in redirected : answer[1] = TokenOf(h)
      BY <2>5, <2>7
    <3> QED  BY <2>2, <3>1, <3>2
  <2>8. redirected = {} \/ redirected = Regions \/ \E g \in redirected : Other(g) \notin redirected
    BY <2>1, OtherIs
  <2> QED  BY <2>4, <2>6, <2>7, <2>8, <2>2
<1>2. Spec => []TurnInv
  <2>1. Spec => [](SafeInv) /\ Init /\ [][Next]_vars
    BY SafeInductive, PTL DEF Spec
  <2> QED  BY <2>1, InitTurn, TurnStep, PTL
<1> QED  BY <1>1, <1>2, SafeInductive, PTL
=============================================================================
