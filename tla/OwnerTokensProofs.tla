--------------------------- MODULE OwnerTokensProofs ---------------------------
(***************************************************************************)
(* The safety of OwnerTokens for any users, devices, faults and times.     *)
(***************************************************************************)
EXTENDS OwnerTokens, TLAPS

LEMMA InitInvariant == Init => IInv
BY ClockAssumption
   DEF Init, IInv, TypeOK, SeenIsThere, IssuedHasRow, Stages, Times, Tokens

\* A handler that has not stored anything.
LEMMA QuietStep ==
  ASSUME IInv, NEW l \in Logins, Login(l) \/ Load(l)
  PROVE  IInv'
<1>1. TypeOK /\ SeenIsThere /\ IssuedHasRow
  BY DEF IInv
<1>2. /\ stage' \in [Logins -> Stages] /\ iat' \in [Logins -> Times]
  BY <1>1 DEF Login, Load, Proceed, Now, TypeOK, Stages
<1>3. /\ UNCHANGED <<clock, rows, kept, issued>>
      /\ \/ seen' = seen
         \/ seen' = IF UserOf[l] \in rows THEN seen \cup {l} ELSE seen \ {l}
  BY DEF Login, Load
<1>4. TypeOK'
  BY <1>1, <1>2, <1>3 DEF TypeOK
<1>5. SeenIsThere' /\ IssuedHasRow'
  BY <1>1, <1>3 DEF SeenIsThere, IssuedHasRow
<1>6. QED
  BY <1>4, <1>5 DEF IInv

\* Whatever a commit does, rows only grow, and a token that is answered has the
\* row that was written with it.
LEMMA StoringStep ==
  ASSUME IInv, NEW l \in Logins, Store(l) \/ DatabaseError(l)
  PROVE  IInv'
<1>1. TypeOK /\ SeenIsThere /\ IssuedHasRow
  BY DEF IInv
<1>2. UserOf[l] \in Users
  BY UserOfAssumption
<1>3. stage' \in [Logins -> Stages] /\ UNCHANGED <<clock, iat, seen>>
  BY <1>1 DEF Store, DatabaseError, Answer, Proceed, TypeOK, Stages
<1>4. /\ \/ UNCHANGED <<rows, kept>>
         \/ /\ rows' = rows \cup {UserOf[l]}
            /\ kept' = [kept EXCEPT ![UserOf[l]] = iat[l]]
      /\ \/ issued' = issued
         \/ /\ UserOf[l] \in rows'
            /\ issued' = issued \cup {[user |-> UserOf[l], iat |-> iat[l]]}
  BY DEF Store, DatabaseError, Answer, Write
<1>5. rows \subseteq rows' /\ rows' \subseteq Users /\ kept' \in [Users -> Times]
  BY <1>1, <1>2, <1>4 DEF TypeOK
<1>6. issued' \subseteq Tokens
  BY <1>1, <1>2, <1>4 DEF TypeOK, Tokens
<1>7. TypeOK'
  BY <1>1, <1>3, <1>5, <1>6 DEF TypeOK
<1>8. SeenIsThere' /\ IssuedHasRow'
  BY <1>1, <1>3, <1>4, <1>5 DEF SeenIsThere, IssuedHasRow
<1>9. QED
  BY <1>7, <1>8 DEF IInv

LEMMA NextInvariant == IInv /\ [Next]_vars => IInv'
<1> SUFFICES ASSUME IInv, [Next]_vars PROVE IInv'
  OBVIOUS
<1>1. CASE Tick \/ Crash \/ UNCHANGED vars
  <2>1. TypeOK /\ SeenIsThere /\ IssuedHasRow
    BY DEF IInv
  <2>2. UNCHANGED <<iat, seen, rows, kept, issued>> /\ clock' \in Times
        /\ stage' \in [Logins -> Stages]
    BY <1>1, <2>1, ClockAssumption DEF Tick, Crash, vars, TypeOK, Times, Stages
  <2>3. QED
    BY <2>1, <2>2 DEF IInv, TypeOK, SeenIsThere, IssuedHasRow
<1>2. QED
  BY <1>1, QuietStep, StoringStep DEF Next

THEOREM Invariance == Spec => []IInv
BY InitInvariant, NextInvariant, PTL DEF Spec

\* Every variable keeps its type: no token is issued in the future.
THEOREM TypeCorrect == Spec => []TypeOK
<1>1. IInv => TypeOK
  BY DEF IInv
<1>2. QED
  BY <1>1, Invariance, PTL

\* Whoever decode_jwt recognises has a row the foreign keys can refer to.
THEOREM RecognisedUsersHaveRows == Spec => []RecognisedHasRow
<1>1. IInv => RecognisedHasRow
  BY DEF IInv, IssuedHasRow, RecognisedHasRow, Decodes
<1>2. QED
  BY <1>1, Invariance, PTL
===============================================================================
