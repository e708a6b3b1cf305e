------------------------------ MODULE OwnerTokens ------------------------------
(***************************************************************************)
(* POST /api/v1/photo/auth: the row of tokens that a login leaves behind,  *)
(* and the JWT it answers.  photos.owner_data_token and                    *)
(* groups.owner_data_token refer to that row, but the token that is shown  *)
(* later is judged by its signature and its expiry alone (depends.py): the *)
(* row is never looked at again, so everything rests on the login.         *)
(*                                                                         *)
(* A user stands for the data token, which is a function of the VK user.   *)
(* The signature of VK is checked before any of this and left out, and so  *)
(* are the strings: a JWT is the user and the second it was issued in.     *)
(*                                                                         *)
(* stage[l] is the call the handler of login l makes next:                 *)
(*   "idle"     the client has not logged in yet                           *)
(*   "load"     session.get(Token, data_token)                             *)
(*   "store"    session.commit(), of an INSERT or an UPDATE                *)
(*   "answered" the client has the token                                   *)
(*   "error"    the client was answered with an error                      *)
(***************************************************************************)
EXTENDS Naturals

CONSTANTS
  Users,      \* the data tokens
  Logins,     \* the devices that log in, each once
  UserOf,     \* the user of each
  Faults,     \* a subset of {"db", "crash"}
  Ttl,        \* JWT_EXPIRE_MINUTES
  MaxClock    \* bound: the time that passes

ASSUME UserOfAssumption == UserOf \in [Logins -> Users]
ASSUME ClockAssumption == Ttl \in Nat /\ MaxClock \in Nat

VARIABLES
  clock,    \* time.time()
  stage,    \* the stage of each login
  iat,      \* the second it read
  seen,     \* the logins that found a row
  rows,     \* the users that have a row
  kept,     \* the second the token in the row was issued in
  issued    \* the tokens clients have been given

vars == <<clock, stage, iat, seen, rows, kept, issued>>

Stages == {"idle", "load", "store", "answered", "error"}

Times == 0..MaxClock

Tokens == [user : Users, iat : Times]

Init == /\ clock = 0
        /\ stage = [l \in Logins |-> "idle"]
        /\ iat = [l \in Logins |-> 0]
        /\ seen = {} /\ rows = {} /\ issued = {}
        /\ kept = [u \in Users |-> 0]

MayFail(fault) == fault \in Faults

Proceed(l, from, to) == stage[l] = from /\ stage' = [stage EXCEPT ![l] = to]

Tick == /\ clock < MaxClock /\ clock' = clock + 1
        /\ UNCHANGED <<stage, iat, seen, rows, kept, issued>>

\* Mutant of Now: rounded up.
NowRoundedUp(l) == iat' = [iat EXCEPT ![l] = clock + 1]

\* Line 30, int(time.time()).
Now(l) == iat' = [iat EXCEPT ![l] = clock]

\* Lines 22-39: the token is made before the first await.  A client that was
\* answered with an error logs in again.
Login(l) == /\ Proceed(l, "idle", "load") \/ Proceed(l, "error", "load")
            /\ Now(l)
            /\ UNCHANGED <<clock, seen, rows, kept, issued>>

\* upsert_token, session.get.
Load(l) == /\ Proceed(l, "load", "store")
           /\ seen' = IF UserOf[l] \in rows THEN seen \cup {l} ELSE seen \ {l}
           /\ UNCHANGED <<clock, iat, rows, kept, issued>>

\* Mutant of Accepts: the user is inserted without looking.
AcceptsInsertOnly(l) == UserOf[l] \notin rows

\* The database takes an UPDATE of the row that was found, and an INSERT as
\* long as nobody else inserted the user in the meantime.
Accepts(l) == l \in seen \/ UserOf[l] \notin rows

Write(l) == /\ rows' = rows \cup {UserOf[l]}
            /\ kept' = [kept EXCEPT ![UserOf[l]] = iat[l]]

Answer(l) == /\ Proceed(l, "store", "answered")
             /\ issued' = issued \cup {[user |-> UserOf[l], iat |-> iat[l]]}

\* upsert_token, commit, and the answer.
Store(l) == /\ \/ Accepts(l) /\ Write(l) /\ Answer(l)
               \/ /\ ~Accepts(l) /\ Proceed(l, "store", "error")
                  /\ UNCHANGED <<rows, kept, issued>>
            /\ UNCHANGED <<clock, iat, seen>>

\* Mutant of DatabaseError: upsert_token logs the exception and returns.
DatabaseErrorLogged(l) == /\ MayFail("db")
                          /\ Answer(l)
                          /\ UNCHANGED <<clock, iat, seen, rows, kept>>

\* Either call raises; a commit that raised may have been carried out.
DatabaseError(l) ==
  /\ MayFail("db")
  /\ \/ Proceed(l, "load", "error") /\ UNCHANGED <<rows, kept>>
     \/ /\ Proceed(l, "store", "error")
        /\ \/ Accepts(l) /\ Write(l)
           \/ UNCHANGED <<rows, kept>>
  /\ UNCHANGED <<clock, iat, seen, issued>>

\* The API process is killed and started again.
Crash == /\ MayFail("crash")
         /\ \E l \in Logins : stage[l] \in {"load", "store"}
         /\ stage' = [l \in Logins |-> IF stage[l] \in {"load", "store"}
                                       THEN "error" ELSE stage[l]]
         /\ UNCHANGED <<clock, iat, seen, rows, kept, issued>>

Next == \/ Tick \/ Crash
        \/ \E l \in Logins : Login(l) \/ Load(l) \/ Store(l) \/ DatabaseError(l)

Spec == Init /\ [][Next]_vars

-------------------------------------------------------------------------------
TypeOK == /\ clock \in Times
          /\ stage \in [Logins -> Stages]
          /\ iat \in [Logins -> Times]
          /\ seen \subseteq Logins /\ rows \subseteq Users
          /\ kept \in [Users -> Times]
          /\ issued \subseteq Tokens

\* decode_jwt: whose token it is, if the signature is ours and it has not
\* expired.
Decodes(t) == t \in issued /\ clock <= t.iat + Ttl

\* A user whom decode_jwt recognises has a row in tokens, so that neither the
\* insert of a photo nor that of a group is ever refused by the foreign key,
\* whatever became of the logins: the row outlives the token that was kept in
\* it, and no client gets a token whose upsert did not end.
RecognisedHasRow == \A t \in Tokens : Decodes(t) => t.user \in rows

\* A login that found a row cannot be refused, and it rests on the row being
\* there for good.
SeenIsThere == \A l \in seen : UserOf[l] \in rows

IssuedHasRow == \A t \in issued : t.user \in rows

IInv == TypeOK /\ SeenIsThere /\ IssuedHasRow

-------------------------------------------------------------------------------
\* Clients log in again after an error, and the database answers a call that
\* is repeated for ever.
Fairness == \A l \in Logins : /\ WF_vars(Login(l))
                              /\ SF_vars(Load(l)) /\ SF_vars(Store(l))

FairSpec == Spec /\ Fairness

\* Simultaneous first logins of one user refuse each other at most once: a
\* client that tries again gets its token.
RetriedLoginSucceeds ==
  \A l \in Logins : stage[l] = "load" ~> stage[l] = "answered"
===============================================================================
