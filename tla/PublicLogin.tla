---------------------------- MODULE PublicLogin -----------------------------
(***************************************************************************)
(* SessionManager.login (gizclaw/publiclogin/server.go): a signed login    *)
(* assertion buys one session.  The assertion is verified against a clock  *)
(* that is read before the lock; under the lock its key must be absent     *)
(* from the key-value store, where it is then written together with the    *)
(* session and expires with the assertion itself.                          *)
(*                                                                         *)
(* Cryptography is left out: an assertion here is one that verifies.       *)
(* Assertions differ in issuer or nonce, which is drawn at random.  The    *)
(* wall clock does not go back.                                            *)
(***************************************************************************)
EXTENDS Integers, FiniteSets

CONSTANTS
  Logins,        \* requests served at the same time
  Assertions,
  NoAssertion,
  SessionTTL,    \* defaultSessionTTL
  MaxClock       \* bound on the clock

ASSUME LoginAssumption ==
  /\ NoAssertion \notin Assertions /\ "free" \notin Logins
  /\ SessionTTL \in Nat \ {0} /\ MaxClock \in Nat

VARIABLES
  clock,
  exp,        \* assertion -> claims.Exp
  usedKeys,   \* the assertion keys in the store, expired ones included
  sessions,   \* the session keys in the store: owner and deadline
  issued,     \* history: assertion -> sessions opened with it
  loginMu,    \* the request that holds SessionManager.mu, or "free"
  login       \* request -> where it is, its assertion and the time it read

loginVars == <<clock, exp, usedKeys, sessions, issued, loginMu, login>>

NoLogin == [at |-> "idle", assertion |-> NoAssertion, now |-> 0]

NewLoginManager ==
  /\ clock = 0
  /\ exp \in [Assertions -> 1 .. MaxClock]
  /\ usedKeys = {} /\ sessions = {}
  /\ issued = [a \in Assertions |-> 0]
  /\ loginMu = "free"
  /\ login = [l \in Logins |-> NoLogin]

-----------------------------------------------------------------------------
(* now is read, then !expiresAt.After(now) refuses *)
verifyLoginAssertion(l, a) ==
  /\ login[l].at = "idle"
  /\ exp[a] > clock
  /\ login' = [login EXCEPT ![l] = [at |-> "lock", assertion |-> a, now |-> clock]]
  /\ UNCHANGED <<clock, exp, usedKeys, sessions, issued, loginMu>>

(* memoryEntry.expired *)
Expired(deadline) == clock >= deadline

(* mu.Lock and Store.Get, which drops a key that expired *)
LoginGet(l) ==
  LET a == login[l].assertion
  IN /\ login[l].at = "lock" /\ loginMu = "free"
     /\ IF a \in usedKeys /\ ~Expired(exp[a])
          THEN /\ login' = [login EXCEPT ![l] = NoLogin]
               /\ UNCHANGED <<usedKeys, loginMu>>
          ELSE /\ usedKeys' = usedKeys \ {a}
               /\ loginMu' = l
               /\ login' = [login EXCEPT ![l].at = "store"]
     /\ UNCHANGED <<clock, exp, sessions, issued>>

(* The store cannot be read, or refuses or fails to write the batch *)
LoginFails(l) ==
  /\ \/ login[l].at = "lock" /\ loginMu = "free" /\ UNCHANGED loginMu
     \/ login[l].at = "store" /\ loginMu' = "free"
  /\ login' = [login EXCEPT ![l] = NoLogin]
  /\ UNCHANGED <<clock, exp, usedKeys, sessions, issued>>

(* A store that takes entries whose deadline has passed *)
BatchSetAny(a, deadline) == TRUE

(* Store.BatchSet refuses the whole batch when a deadline has passed *)
BatchSet(a, deadline) == ~Expired(exp[a]) /\ ~Expired(deadline)

(* Both keys are written in one transaction, then mu.Unlock *)
LoginStore(l) ==
  LET a == login[l].assertion
      deadline == login[l].now + SessionTTL
  IN /\ login[l].at = "store"
     /\ BatchSet(a, deadline)
     /\ usedKeys' = usedKeys \cup {a}
     /\ sessions' = sessions \cup {[owner |-> a, deadline |-> deadline]}
     /\ issued' = [issued EXCEPT ![a] = @ + 1]
     /\ loginMu' = "free"
     /\ login' = [login EXCEPT ![l] = NoLogin]
     /\ UNCHANGED <<clock, exp>>

(* A session past its deadline authenticates nobody and leaves the store *)
SessionExpires(s) ==
  /\ Expired(s.deadline)
  /\ sessions' = sessions \ {s}
  /\ UNCHANGED <<clock, exp, usedKeys, issued, loginMu, login>>

(* A restart forgets the requests under way, not the store *)
LoginCrash ==
  /\ loginMu' = "free"
  /\ login' = [l \in Logins |-> NoLogin]
  /\ UNCHANGED <<clock, exp, usedKeys, sessions, issued>>

ClockTick ==
  /\ clock < MaxClock
  /\ clock' = clock + 1
  /\ UNCHANGED <<exp, usedKeys, sessions, issued, loginMu, login>>

LoginNext ==
  \/ \E l \in Logins :
       \/ \E a \in Assertions : verifyLoginAssertion(l, a)
       \/ LoginGet(l) \/ LoginStore(l) \/ LoginFails(l)
  \/ \E s \in sessions : SessionExpires(s)
  \/ LoginCrash \/ ClockTick

LoginSpec == NewLoginManager /\ [][LoginNext]_loginVars

-----------------------------------------------------------------------------
LoginTypeOK ==
  /\ clock \in 0 .. MaxClock
  /\ exp \in [Assertions -> 1 .. MaxClock]
  /\ usedKeys \subseteq Assertions
  /\ sessions \subseteq [owner : Assertions, deadline : 0 .. MaxClock + SessionTTL]
  /\ issued \in [Assertions -> Nat]
  /\ loginMu \in Logins \cup {"free"}
  /\ login \in [Logins -> [at : {"idle", "lock", "store"},
                           assertion : Assertions \cup {NoAssertion}, now : 0 .. MaxClock]]

(* An assertion buys one session, whatever copies of it are presented at   *)
(* the same time, around its expiry, when its key has left the store, and  *)
(* after a restart (login, BatchSet).                                      *)
OneSessionPerAssertion == \A a \in Assertions : issued[a] <= 1
=============================================================================
