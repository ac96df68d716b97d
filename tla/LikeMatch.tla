----------------------------- MODULE LikeMatch ------------------------------
(***************************************************************************)
(* The matcher of LIKE (Eval in src/src/api/db.cpp): a loop with a single  *)
(* point to go back to, the last '%' of the pattern, one action per pass.  *)
(***************************************************************************)
EXTENDS Integers, Sequences

CONSTANTS Chars,     \* ordinary characters
          MaxLen     \* bound on the lengths of value and pattern

VARIABLES value, pattern,   \* the operands
          vi, pi,           \* value_index, pattern_index, counted from 1
          wildcard,         \* position of the last '%', 0 for npos
          wildcardValue,    \* wildcard_value
          result            \* "running", "true" or "false"

vars == <<value, pattern, vi, pi, wildcard, wildcardValue, result>>

Strings(S) == UNION {[1..n -> S] : n \in 0..MaxLen}

\* The character '%' in a value is left out: the loop takes a '%' of the
\* pattern for an ordinary character when the value has one there.
Start(v, p) ==
  /\ value = v /\ pattern = p
  /\ vi = 1 /\ pi = 1 /\ wildcard = 0 /\ wildcardValue = 1
  /\ result = "running"

Init == \E v \in Strings(Chars), p \in Strings(Chars \cup {"%", "_"}) : Start(v, p)

InValue   == result = "running" /\ vi <= Len(value)
InPattern == pi <= Len(pattern)

FitsChar == InPattern /\ pattern[pi] \in {"_", value[vi]}

MatchChar ==
  /\ InValue /\ FitsChar
  /\ pi' = pi + 1 /\ vi' = vi + 1
  /\ UNCHANGED <<value, pattern, wildcard, wildcardValue, result>>

FitsWildcard == InPattern /\ pattern[pi] = "%"

MeetWildcard ==
  /\ InValue /\ ~FitsChar /\ FitsWildcard
  /\ wildcard' = pi /\ pi' = pi + 1 /\ wildcardValue' = vi
  /\ UNCHANGED <<value, pattern, vi, result>>

\* Mutant: the place in the value is not moved on.
BacktrackInPlace ==
  /\ InValue /\ ~FitsChar /\ ~FitsWildcard /\ wildcard # 0
  /\ pi' = wildcard + 1 /\ vi' = wildcardValue
  /\ UNCHANGED <<value, pattern, wildcard, wildcardValue, result>>

\* Mutant: the place in the value is moved on from where the match failed.
BacktrackFromHere ==
  /\ InValue /\ ~FitsChar /\ ~FitsWildcard /\ wildcard # 0
  /\ pi' = wildcard + 1
  /\ wildcardValue' = vi + 1 /\ vi' = wildcardValue'
  /\ UNCHANGED <<value, pattern, wildcard, result>>

\* The last '%' takes one more character.
Backtrack ==
  /\ InValue /\ ~FitsChar /\ ~FitsWildcard /\ wildcard # 0
  /\ pi' = wildcard + 1
  /\ wildcardValue' = wildcardValue + 1 /\ vi' = wildcardValue'
  /\ UNCHANGED <<value, pattern, wildcard, result>>

GiveUp ==
  /\ InValue /\ ~FitsChar /\ ~FitsWildcard /\ wildcard = 0
  /\ result' = "false"
  /\ UNCHANGED <<value, pattern, vi, pi, wildcard, wildcardValue>>

\* After the loop: what is left of the pattern may only be '%'.
Finish ==
  /\ result = "running" /\ vi > Len(value)
  /\ result' = IF \A j \in pi..Len(pattern) : pattern[j] = "%"
               THEN "true" ELSE "false"
  /\ UNCHANGED <<value, pattern, vi, pi, wildcard, wildcardValue>>

Next == MatchChar \/ MeetWildcard \/ Backtrack \/ GiveUp \/ Finish

-----------------------------------------------------------------------------
\* What LIKE means: '_' is any one character, '%' any number of them.  At j:
\* the places from which on the value matches the pattern from j on.
Places(v, p) ==
  LET places[j \in 1..Len(p) + 1] ==
        IF j > Len(p) THEN {Len(v) + 1}
        ELSE IF p[j] = "%" THEN {i \in 1..Len(v) + 1 : \E k \in places[j + 1] : i <= k}
        ELSE {i \in 1..Len(v) : p[j] \in {"_", v[i]} /\ i + 1 \in places[j + 1]}
  IN  places

Like(v, p) == 1 \in Places(v, p)[1]

\* The loop, which never reconsiders any '%' but the last one it met, finds a
\* match if there is one.
LikeCorrect ==
  result # "running" => (result = "true" <=> Like(value, pattern))

\* It always ends.
LikeEnds == <>(result # "running")
=============================================================================
