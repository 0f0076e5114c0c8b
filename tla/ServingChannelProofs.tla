----------------------- MODULE ServingChannelProofs -----------------------
(* UpdateServingChannel on strings of every length.  What its loop computes *)
(* is shown by induction over the tokens, in the form the provers can use:  *)
(* a set of numbers that holds 0 and every successor holds them all.        *)
EXTENDS ServingChannel, WellFoundedInduction, FiniteSetTheorems, TLAPS

Tokens == Keys \cup {EmptyToken}

LEMMA SetInduction ==
  ASSUME NEW P, 0 \in P, \A n \in Nat : n \in P => n + 1 \in P
  PROVE  Nat \subseteq P
  <1> DEFINE R == {ss \in Nat \X Nat : ss[1] < ss[2]}
             T == Nat \ P
  <1> SUFFICES ASSUME T # {} PROVE FALSE
    OBVIOUS
  <1>1. \E x \in T : \A y \in T : <<y, x>> \notin R
    <2>1. IsWellFoundedOn(R, Nat)
      BY NatLessThanWellFounded DEF OpToRel
    <2>2. T \subseteq Nat
      OBVIOUS
    <2> HIDE DEF R, T
    <2> QED BY <2>1, <2>2, WFMin
  <1>2. PICK x \in T : \A y \in T : ~(y < x)
    BY <1>1
  <1>3. x \in Nat /\ x # 0
    OBVIOUS
  <1>4. x - 1 \in Nat /\ x - 1 < x /\ (x - 1) + 1 = x
    BY <1>3
  <1> QED BY <1>2, <1>4

----------------------------------------------------------------------------
(* The loop.                                                                *)

(* g[S]: the list after the tokens at the positions in S.                   *)
Loops(g, s, n) ==
    g = [S \in SUBSET (1..n) |->
           IF S = {} THEN EmptyString
           ELSE Join(g[S \ {Max(S)}], s[Max(S)])]

LEMMA MaxIs ==
  ASSUME NEW n \in Nat, NEW S \in SUBSET (1..n), n \in S PROVE Max(S) = n
  <1>1. \A y \in S : n >= y
    OBVIOUS
  <1>2. \A x \in S : (\A y \in S : x >= y) => x = n
    OBVIOUS
  <1> QED BY <1>1, <1>2 DEF Max

(* The recursive function of the fold exists, whatever is folded.           *)
LEMMA LoopsExist ==
  ASSUME NEW s PROVE \A n \in Nat : \E g : Loops(g, s, n)
  <1> DEFINE P == {n \in Nat : \E g : Loops(g, s, n)}
  <1>1. 0 \in P
    <2> DEFINE g == [S \in SUBSET (1..0) |-> EmptyString]
    <2>1. \A S \in SUBSET (1..0) : S = {}
      OBVIOUS
    <2>2. Loops(g, s, 0)
      BY <2>1 DEF Loops
    <2> QED BY <2>2
  <1>2. ASSUME NEW n \in Nat, n \in P PROVE n + 1 \in P
    <2>1. PICK g : Loops(g, s, n)
      BY <1>2
    <2> DEFINE m == n + 1
               h == [S \in SUBSET (1..m) |->
                       IF m \in S THEN Join(g[S \ {m}], s[m]) ELSE g[S]]
               d(S) == IF S = {} THEN EmptyString
                       ELSE Join(h[S \ {Max(S)}], s[Max(S)])
    <2>2. m \in Nat /\ m \notin 1..n /\ 1..m = (1..n) \cup {m}
      OBVIOUS
    <2>3. ASSUME NEW S \in SUBSET (1..m), m \in S PROVE h[S] = d(S)
      <3>1. Max(S) = m
        BY <2>2, <2>3, MaxIs
      <3>2. S \ {m} \in SUBSET (1..m) /\ m \notin S \ {m}
        OBVIOUS
      <3>3. h[S \ {m}] = g[S \ {m}]
        BY <3>2
      <3> HIDE DEF m
      <3> QED BY <2>3, <3>1, <3>3
    <2>4. ASSUME NEW S \in SUBSET (1..m), m \notin S PROVE h[S] = d(S)
      <3>1. S \in SUBSET (1..n) /\ S \ {Max(S)} \in SUBSET (1..m)
            /\ m \notin S \ {Max(S)}
        BY <2>2, <2>4
      <3>2. h[S] = g[S] /\ h[S \ {Max(S)}] = g[S \ {Max(S)}]
        BY <2>4, <3>1
      <3>3. g[S] = IF S = {} THEN EmptyString
                   ELSE Join(g[S \ {Max(S)}], s[Max(S)])
        BY <2>1, <3>1 DEF Loops
      <3> HIDE DEF h, m
      <3> QED BY <3>2, <3>3
    <2>5. h = [S \in SUBSET (1..m) |-> h[S]]
      OBVIOUS
    <2>6. \A S \in SUBSET (1..m) : h[S] = d(S)
      BY <2>3, <2>4
    <2>7. Loops(h, s, m)
      <3> HIDE DEF h, m
      <3> QED BY <2>5, <2>6 DEF Loops
    <2> QED BY <2>2, <2>7
  <1>3. Nat \subseteq P
    <2> HIDE DEF P
    <2> QED BY <1>1, <1>2, SetInduction
  <1> QED BY <1>3

LEMMA FoldLoops ==
  ASSUME NEW s, NEW n \in Nat, DOMAIN s = 1..n
  PROVE  \E g : Loops(g, s, n) /\ FoldLeft(Join, EmptyString, s) = g[1..n]
  <1> DEFINE g == CHOOSE g : Loops(g, s, n)
  <1>1. Loops(g, s, n)
    BY LoopsExist
  <1>2. FoldLeft(Join, EmptyString, s) = g[DOMAIN s]
    BY DEF FoldLeft, MapThenFoldSet, Loops
  <1> QED BY <1>1, <1>2

LEMMA LoopSteps ==
  ASSUME NEW s, NEW n \in Nat, NEW g, Loops(g, s, n)
  PROVE  /\ g[1..0] = EmptyString
         /\ \A k \in 1..n : g[1..k] = Join(g[1..(k - 1)], s[k])
  <1>1. g[1..0] = EmptyString
    <2>1. 1..0 = {} /\ {} \in SUBSET (1..n)
      OBVIOUS
    <2> QED BY <2>1 DEF Loops
  <1>2. ASSUME NEW k \in 1..n PROVE g[1..k] = Join(g[1..(k - 1)], s[k])
    <2>1. 1..k \in SUBSET (1..n) /\ 1..k # {} /\ k \in 1..k /\ k \in Nat
      OBVIOUS
    <2>2. Max(1..k) = k
      BY <2>1, MaxIs
    <2>3. (1..k) \ {k} = 1..(k - 1)
      OBVIOUS
    <2> QED BY <2>1, <2>2, <2>3 DEF Loops
  <1> QED BY <1>1, <1>2

----------------------------------------------------------------------------
(* What the list is after any number of tokens.                             *)

Upto(s, k) == {s[i] : i \in 1..k}

Joined(t, s, k) ==
    /\ t \in Seq(Tokens)
    /\ KeysIn(t) = Upto(s, k) \ {EmptyToken}
    /\ Len(t) <= IF k = 0 THEN 1 ELSE k
    /\ Upto(s, k) \subseteq {EmptyToken} => t = EmptyString

LEMMA EmptyStringIs ==
  /\ EmptyString \in Seq(Tokens) /\ Len(EmptyString) = 1
  /\ KeysIn(EmptyString) = {}
  <1>1. EmptyString \in Seq(Tokens) /\ Len(EmptyString) = 1
    BY DEF EmptyString, Tokens
  <1>2. \A i \in DOMAIN EmptyString : EmptyString[i] = EmptyToken
    BY DEF EmptyString
  <1>3. KeysIn(EmptyString) = {}
    BY <1>2 DEF KeysIn, ToSet
  <1> QED BY <1>1, <1>3

(* One round of the loop adds its token, and nothing but a comma.           *)
LEMMA JoinIs ==
  ASSUME NEW t \in Seq(Tokens), NEW x \in Tokens
  PROVE  /\ Join(t, x) \in Seq(Tokens)
         /\ KeysIn(Join(t, x)) = (KeysIn(t) \cup {x}) \ {EmptyToken}
         /\ Len(Join(t, x)) = IF t = EmptyString THEN 1 ELSE Len(t) + 1
         /\ t = EmptyString /\ x = EmptyToken => Join(t, x) = EmptyString
  <1>1. CASE t = EmptyString
    <2>1. Join(t, x) = <<x>>
      BY <1>1 DEF Join
    <2>2. KeysIn(<<x>>) = {x} \ {EmptyToken}
      BY DEF KeysIn, ToSet
    <2>3. <<x>> \in Seq(Tokens) /\ Len(<<x>>) = 1
      OBVIOUS
    <2>4. KeysIn(t) = {}
      BY <1>1, EmptyStringIs
    <2>5. x = EmptyToken => <<x>> = EmptyString
      BY DEF EmptyString
    <2> QED BY <1>1, <2>1, <2>2, <2>3, <2>4, <2>5
  <1>2. CASE t # EmptyString
    <2> DEFINE u == t \o <<x>>
    <2>1. Join(t, x) = u
      BY <1>2 DEF Join
    <2>2. u \in Seq(Tokens) /\ Len(u) = Len(t) + 1
      OBVIOUS
    <2>3. ToSet(u) = ToSet(t) \cup {x}
      <3>1. \A i \in DOMAIN u : u[i] \in ToSet(t) \cup {x}
        BY DEF ToSet
      <3>2. \A i \in DOMAIN t : i \in DOMAIN u /\ u[i] = t[i]
        OBVIOUS
      <3>3. Len(t) + 1 \in DOMAIN u /\ u[Len(t) + 1] = x
        OBVIOUS
      <3> HIDE DEF u
      <3> QED BY <3>1, <3>2, <3>3 DEF ToSet
    <2> HIDE DEF u
    <2> QED BY <1>2, <2>1, <2>2, <2>3 DEF KeysIn
  <1> QED BY <1>1, <1>2

LEMMA LoopJoins ==
  ASSUME NEW n \in Nat, NEW s \in [1..n -> Tokens], NEW g, Loops(g, s, n)
  PROVE  Joined(g[1..n], s, n)
  <1> DEFINE P == {k \in Nat : k <= n => Joined(g[1..k], s, k)}
  <1>1. 0 \in P
    <2>1. Upto(s, 0) = {}
      BY DEF Upto
    <2>2. Joined(EmptyString, s, 0)
      BY <2>1, EmptyStringIs DEF Joined
    <2> QED BY <2>2, LoopSteps
  <1>2. ASSUME NEW k \in Nat, k \in P PROVE k + 1 \in P
    <2> SUFFICES ASSUME k + 1 <= n PROVE Joined(g[1..(k + 1)], s, k + 1)
      OBVIOUS
    <2> DEFINE t == g[1..k]
               x == s[k + 1]
    <2>1. Joined(t, s, k)
      BY <1>2
    <2>2. x \in Tokens
      OBVIOUS
    <2>3. g[1..(k + 1)] = Join(t, x)
      BY LoopSteps
    <2>4. Upto(s, k + 1) = Upto(s, k) \cup {x}
      <3>1. 1..(k + 1) = (1..k) \cup {k + 1}
        OBVIOUS
      <3> QED BY <3>1 DEF Upto
    <2> HIDE DEF t, x
    <2>5. k = 0 => t = EmptyString
      BY <2>1 DEF Joined, Upto
    <2>6. /\ t \in Seq(Tokens) /\ KeysIn(t) = Upto(s, k) \ {EmptyToken}
          /\ Len(t) <= IF k = 0 THEN 1 ELSE k
          /\ Upto(s, k) \subseteq {EmptyToken} => t = EmptyString
      BY <2>1 DEF Joined
    <2> DEFINE u == Join(t, x)
    <2>7. /\ u \in Seq(Tokens)
          /\ KeysIn(u) = (KeysIn(t) \cup {x}) \ {EmptyToken}
          /\ Len(u) = IF t = EmptyString THEN 1 ELSE Len(t) + 1
          /\ t = EmptyString /\ x = EmptyToken => u = EmptyString
      BY <2>2, <2>6, JoinIs
    <2> HIDE DEF u
    <2>8. KeysIn(u) = Upto(s, k + 1) \ {EmptyToken}
      BY <2>4, <2>6, <2>7
    <2>9. Len(u) <= k + 1
      BY <2>5, <2>6, <2>7
    <2>10. Upto(s, k + 1) \subseteq {EmptyToken} => u = EmptyString
      BY <2>4, <2>6, <2>7
    <2>11. Joined(u, s, k + 1)
      BY <2>7, <2>8, <2>9, <2>10 DEF Joined
    <2> QED BY <2>3, <2>11 DEF u
  <1>3. Nat \subseteq P
    <2> HIDE DEF P
    <2> QED BY <1>1, <1>2, SetInduction
  <1> QED BY <1>3

----------------------------------------------------------------------------
(* The map: every token once, in whatever order.                            *)

LEMMA SeqFinite ==
  ASSUME NEW s \in Seq(Tokens)
  PROVE  IsFiniteSet(ToSet(s)) /\ ToSet(s) \subseteq Tokens
  <1> DEFINE f == [i \in 1..Len(s) |-> s[i]]
  <1>1. f \in Surjection(1..Len(s), ToSet(s))
    BY DEF Surjection, ToSet
  <1>2. IsFiniteSet(1..Len(s))
    BY FS_Interval
  <1>3. IsFiniteSet(ToSet(s))
    BY <1>1, <1>2, FS_Surjection
  <1> QED BY <1>3 DEF ToSet

LEMMA EditIs ==
  ASSUME NEW T \in SUBSET Tokens, IsFiniteSet(T), NEW key \in Keys,
         NEW action \in {"add", "remove"}
  PROVE  /\ Edit(T, key, action) \in SUBSET Tokens
         /\ IsFiniteSet(Edit(T, key, action))
         /\ Edit(T, key, action) \ {EmptyToken} =
              IF action = "add" THEN (T \ {EmptyToken}) \cup {key}
              ELSE (T \ {EmptyToken}) \ {key}
  <1>1. IsFiniteSet(T \cup {key}) /\ IsFiniteSet(T \ {key})
    BY FS_AddElement, FS_RemoveElement
  <1>2. Edit(T, key, action) =
          IF action = "add" THEN T \cup {key} ELSE T \ {key}
    BY DEF Edit
  <1> QED BY <1>1, <1>2, TokenAssumption DEF Tokens

LEMMA OrderIs ==
  ASSUME NEW S, IsFiniteSet(S), NEW order \in SetToSeqs(S)
  PROVE  /\ Cardinality(S) \in Nat
         /\ order \in [1..Cardinality(S) -> S]
         /\ Upto(order, Cardinality(S)) = S
  <1> DEFINE n == Cardinality(S)
             D == 1..n
  <1>1. n \in Nat
    BY FS_CardinalityType
  <1>2. order \in [D -> S] /\ \A i, j \in D : i # j => order[i] # order[j]
    BY DEF SetToSeqs
  <1>3. order \in Injection(D, S)
    BY <1>2 DEF Injection, IsInjective
  <1>4. Cardinality(D) = n
    BY <1>1, FS_Interval
  <1>5. order \in Surjection(D, S)
    BY <1>3, <1>4, FS_Injection
  <1>6. Upto(order, n) = S
    BY <1>2, <1>5 DEF Surjection, Upto
  <1> QED BY <1>1, <1>2, <1>6

(* Whatever the annotation was and in whatever order the map is iterated,   *)
(* UpdateServingChannel leaves a string of the keys it had and the one it   *)
(* adds, or without the one it removes; with at most one token more than    *)
(* keys, and "" when there is no key.                                       *)
LEMMA UpdateIs ==
  ASSUME NEW s \in Seq(Tokens), NEW key \in Keys,
         NEW action \in {"add", "remove"},
         NEW t \in UpdateServingChannel(s, key, action)
  PROVE  /\ t \in Seq(Tokens)
         /\ KeysIn(t) = IF action = "add" THEN KeysIn(s) \cup {key}
                        ELSE KeysIn(s) \ {key}
         /\ Len(t) <= Cardinality(KeysIn(t)) + 1
         /\ KeysIn(t) = {} => t = EmptyString
  <1> DEFINE S == Edit(Parse(s), key, action)
             n == Cardinality(S)
  <1>1. /\ S \in SUBSET Tokens /\ IsFiniteSet(S)
        /\ S \ {EmptyToken} = IF action = "add" THEN KeysIn(s) \cup {key}
                               ELSE KeysIn(s) \ {key}
    BY SeqFinite, EditIs DEF Parse, KeysIn
  <1>2. PICK order \in SetToSeqs(S) : t = FoldLeft(Join, EmptyString, order)
    BY DEF UpdateServingChannel
  <1> HIDE DEF S
  <1>3. n \in Nat /\ order \in [1..n -> S] /\ Upto(order, n) = S
    BY <1>1, OrderIs
  <1> HIDE DEF n
  <1>4. PICK g : Loops(g, order, n) /\ t = g[1..n]
    BY <1>2, <1>3, FoldLoops
  <1>5. Joined(t, order, n)
    <2>1. order \in [1..n -> Tokens]
      BY <1>1, <1>3
    <2> QED BY <1>3, <1>4, <2>1, LoopJoins
  <1>6. /\ t \in Seq(Tokens) /\ KeysIn(t) = S \ {EmptyToken}
        /\ Len(t) <= IF n = 0 THEN 1 ELSE n
        /\ S \subseteq {EmptyToken} => t = EmptyString
    BY <1>3, <1>5 DEF Joined
  <1>7. Cardinality(KeysIn(t)) \in Nat /\ n <= Cardinality(KeysIn(t)) + 1
    <2> DEFINE K == S \ {EmptyToken}
    <2>1. /\ IsFiniteSet(K)
          /\ Cardinality(K) = IF EmptyToken \in S THEN n - 1 ELSE n
      BY <1>1, FS_RemoveElement DEF n
    <2> HIDE DEF K
    <2>2. Cardinality(K) \in Nat
      BY <2>1, FS_CardinalityType
    <2>3. n <= Cardinality(K) + 1
      BY <1>3, <2>1
    <2> QED BY <1>6, <2>2, <2>3 DEF K
  <1>8. Len(t) <= Cardinality(KeysIn(t)) + 1
    BY <1>3, <1>6, <1>7
  <1> QED BY <1>1, <1>6, <1>8

----------------------------------------------------------------------------
AnnoInv == anno \in Seq(Tokens) /\ KeysAreMembers

LEMMA AnnoInit == Init => AnnoInv
  <1> SUFFICES ASSUME Init PROVE AnnoInv
    OBVIOUS
  <1>1. PICK n \in 1..MaxTokens : anno \in [1..n -> Tokens]
    BY DEF Init, Tokens
  <1>2. anno \in Seq(Tokens)
    BY <1>1, TokenAssumption
  <1> QED BY <1>2 DEF Init, AnnoInv, KeysAreMembers

Tidy == /\ members = {} => anno = EmptyString
        /\ Len(anno) <= Cardinality(members) + 1

LEMMA AnnoNext == AnnoInv /\ Next => AnnoInv' /\ Tidy'
  <1> SUFFICES ASSUME AnnoInv, NEW key \in Keys, Serve(key) \/ Release(key)
               PROVE  AnnoInv' /\ Tidy'
    BY DEF Next
  <1> USE DEF AnnoInv, KeysAreMembers, Tidy
  <1>1. CASE Serve(key)
    <2>1. /\ anno' \in UpdateServingChannel(anno, key, "add")
          /\ members' = members \cup {key}
      BY <1>1 DEF Serve
    <2>2. /\ anno' \in Seq(Tokens) /\ KeysIn(anno') = KeysIn(anno) \cup {key}
          /\ Len(anno') <= Cardinality(KeysIn(anno')) + 1
          /\ KeysIn(anno') = {} => anno' = EmptyString
      BY <2>1, UpdateIs
    <2> QED BY <2>1, <2>2
  <1>2. CASE Release(key)
    <2>1. /\ anno' \in UpdateServingChannel(anno, key, "remove")
          /\ members' = members \ {key}
      BY <1>2 DEF Release
    <2>2. /\ anno' \in Seq(Tokens) /\ KeysIn(anno') = KeysIn(anno) \ {key}
          /\ Len(anno') <= Cardinality(KeysIn(anno')) + 1
          /\ KeysIn(anno') = {} => anno' = EmptyString
      BY <2>1, UpdateIs
    <2> QED BY <2>1, <2>2
  <1> QED BY <1>1, <1>2

LEMMA AnnoInvariance == Spec => []AnnoInv
  <1>1. AnnoInv /\ [Next]_vars => AnnoInv'
    <2>1. AnnoInv /\ UNCHANGED vars => AnnoInv'
      BY DEF AnnoInv, KeysAreMembers, vars
    <2> QED BY <2>1, AnnoNext
  <1> QED BY <1>1, AnnoInit, PTL DEF Spec

(* The keys in the serving-channel annotation are those added and not       *)
(* removed, after any number of calls of UpdateServingChannel on any        *)
(* string, so that ChannelController may treat it as a set.                 *)
THEOREM AnnotationIsSet == Spec => []KeysAreMembers
  <1>1. AnnoInv => KeysAreMembers
    BY DEF AnnoInv
  <1> QED BY <1>1, AnnoInvariance, PTL

(* When UpdateServingChannel removes the last key it returns "", whatever   *)
(* stray commas there were, so that the annotation is deleted.              *)
THEOREM EmptyIsDeleted == Spec => NoMembersNoAnnotation
  <1>1. AnnoInv /\ [Next]_vars => [members' = {} => anno' = EmptyString]_vars
    BY AnnoNext DEF Tidy
  <1> QED BY <1>1, AnnoInvariance, PTL DEF Spec, NoMembersNoAnnotation

(* No sequence of calls of UpdateServingChannel makes the string longer     *)
(* than its keys call for.                                                  *)
THEOREM LengthBounded == Spec => NeverGrowsWithoutKeys
  <1>1. AnnoInv /\ [Next]_vars => [Len(anno') <= Cardinality(members') + 1]_vars
    BY AnnoNext DEF Tidy
  <1> QED BY <1>1, AnnoInvariance, PTL DEF Spec, NeverGrowsWithoutKeys
=============================================================================
