--------------------------- MODULE ServingChannel ---------------------------
(* UpdateServingChannel (pkg/utils/channel.go) on strings: the annotation   *)
(* that syncReferredObjAnnotationLabel reads, edits and writes back, time   *)
(* after time.  A string is the sequence of its comma-separated tokens,     *)
(* some of which may be empty; "" is the one empty token.  ChannelController*)
(* works with the set of keys in the string; here that is justified.        *)
EXTENDS Integers, FiniteSets, SequencesExt

CONSTANTS Keys,       \* channel keys, none of which is ""
          EmptyToken, \* the token between two adjacent commas
          MaxTokens   \* bound: tokens in the annotation that is found at first

ASSUME TokenAssumption == EmptyToken \notin Keys /\ MaxTokens \in Nat \ {0}

VARIABLES anno,       \* the annotation's value, "" when there is none
          members     \* the channels added and not removed since

vars == <<anno, members>>

EmptyString == <<EmptyToken>>

KeysIn(s) == ToSet(s) \ {EmptyToken}

----------------------------------------------------------------------------
(* Mutants.                                                                 *)

JoinAlways(acc, token) == acc \o <<token>>      \* comma even when acc is ""

EditSloppily(tokens, key, action) ==            \* remove empties the map
    IF action = "remove" /\ key \in tokens THEN {} ELSE tokens \cup {key}

----------------------------------------------------------------------------
(* strings.Split and the map built from it.                                 *)
Parse(s) == ToSet(s)

Edit(tokens, key, action) ==
    CASE action = "remove" -> tokens \ {key}
      [] action = "add" -> tokens \cup {key}
      [] OTHER -> tokens

(* The loop body: a comma only after a list that is not "".                 *)
Join(acc, token) == IF acc = EmptyString THEN <<token>> ELSE acc \o <<token>>

(* The results of UpdateServingChannel: one for each order in which the     *)
(* runtime may iterate over the map.                                        *)
UpdateServingChannel(s, key, action) ==
    {FoldLeft(Join, EmptyString, order) :
        order \in SetToSeqs(Edit(Parse(s), key, action))}

----------------------------------------------------------------------------
Init == /\ anno \in UNION {[1..n -> Keys \cup {EmptyToken}] : n \in 1..MaxTokens}
        /\ members = KeysIn(anno)

Serve(key) == /\ anno' \in UpdateServingChannel(anno, key, "add")
              /\ members' = members \cup {key}

Release(key) == /\ anno' \in UpdateServingChannel(anno, key, "remove")
                /\ members' = members \ {key}

Next == \E key \in Keys : Serve(key) \/ Release(key)

Spec == Init /\ [][Next]_vars

----------------------------------------------------------------------------
(* Whatever was in the annotation at first and in whatever order the map is *)
(* iterated, the keys in the string are those added and not removed.        *)
KeysAreMembers == KeysIn(anno) = members

(* Without members the string is "", so syncReferredObjAnnotationLabel      *)
(* deletes the annotation and no stray comma keeps it alive.                *)
NoMembersNoAnnotation == [][members' = {} => anno' = EmptyString]_vars

(* One update repairs duplicates, and empty tokens never pile up: a string  *)
(* of n keys has at most one token more.                                    *)
NeverGrowsWithoutKeys == [][Len(anno') <= Cardinality(members') + 1]_vars
=============================================================================
