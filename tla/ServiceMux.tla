----------------------------- MODULE ServiceMux -----------------------------
(***************************************************************************)
(* One ServiceMux (core/service_mux.go): the services of one peer, each    *)
(* with a KcpMux that is made on first use.  Streams are opened, accepted  *)
(* and fed by any goroutine while services are closed, stopped and the     *)
(* whole is closed.  A step is one critical section of ServiceMux.mu, or   *)
(* one call on a KcpMux, of which only "open" and "accepting" are kept.    *)
(***************************************************************************)
EXTENDS Integers, FiniteSets

CONSTANTS
  Services,
  Users,       \* goroutines in OpenStream, AcceptStream or InputKCP
  Enders,      \* goroutines in CloseService or StopAcceptingService
  MaxStates    \* bound: serviceStates made in one behaviour

ASSUME ServiceMuxAssumption == MaxStates \in Nat

StateIds == 1 .. MaxStates
NoState == 0

VARIABLES
  services,    \* service -> its serviceState, or NoState
  sstate,      \* serviceState -> service, whether its mux exists, closed, acceptingStopped
  nstates,     \* serviceStates made so far
  kmux,        \* serviceState -> its KcpMux: open and accepting
  smClosed,    \* closed
  smClose,     \* where Close is: "no", "swap", "muxes" or "done"
  leaving,     \* serviceStates Close has still to deal with
  user,        \* user -> where its call is
  ender,       \* ender -> where its call is
  ended        \* history: <<service, operation>> pairs that have returned

smVars == <<services, sstate, nstates, kmux, smClosed, smClose, leaving, user, ender, ended>>

Returned == [at |-> "idle"]
NewState(s) == [service |-> s, mux |-> FALSE, closed |-> FALSE, stopped |-> FALSE]

ServiceMuxInit ==
  /\ services = [s \in Services |-> NoState]
  /\ sstate = [i \in StateIds |-> [service |-> CHOOSE s \in Services : TRUE,
                                   mux |-> FALSE, closed |-> FALSE, stopped |-> FALSE]]
  /\ nstates = 0
  /\ kmux = [i \in StateIds |-> [open |-> FALSE, accepting |-> FALSE]]
  /\ smClosed = FALSE
  /\ smClose = "no"
  /\ leaving = {}
  /\ user = [u \in Users |-> Returned]
  /\ ender = [e \in Enders |-> Returned]
  /\ ended = {}

AddState(s, st) ==
  /\ nstates < MaxStates
  /\ nstates' = nstates + 1
  /\ sstate' = [sstate EXCEPT ![nstates + 1] = st]
  /\ services' = [services EXCEPT ![s] = nstates + 1]

-----------------------------------------------------------------------------
(* getOrCreateService: a look-up under the read lock, then again under the lock.
   InputKCP's own look-up finds the same states, and rejects closed ones. *)
LookupService(u, s) ==
  /\ user[u].at = "idle" /\ ~smClosed
  /\ LET i == services[s] IN
     user' = [user EXCEPT ![u] =
       IF i = NoState THEN [at |-> "create", service |-> s]
       ELSE IF sstate[i].closed THEN Returned
       ELSE [at |-> "ensure", st |-> i]]
  /\ UNCHANGED <<services, sstate, nstates, kmux, smClosed, smClose, leaving, ender, ended>>

CreateService(u) ==
  /\ user[u].at = "create"
  /\ LET s == user[u].service i == services[s] IN
     \/ /\ smClosed \/ (i # NoState /\ sstate[i].closed)
        /\ user' = [user EXCEPT ![u] = Returned]
        /\ UNCHANGED <<services, sstate, nstates>>
     \/ /\ ~smClosed /\ i # NoState /\ ~sstate[i].closed
        /\ user' = [user EXCEPT ![u] = [at |-> "ensure", st |-> i]]
        /\ UNCHANGED <<services, sstate, nstates>>
     \/ /\ ~smClosed /\ i = NoState
        /\ AddState(s, NewState(s))
        /\ user' = [user EXCEPT ![u] = [at |-> "ensure", st |-> nstates + 1]]
  /\ UNCHANGED <<kmux, smClosed, smClose, leaving, ender, ended>>

(* mutant: closed is tested under the read lock only *)
ensureKcpMuxUnchecked(u) ==
  /\ user[u].at = "ensure"
  /\ LET i == user[u].st IN
     IF sstate[i].mux THEN UNCHANGED <<sstate, kmux>>
     ELSE /\ sstate' = [sstate EXCEPT ![i].mux = TRUE]
          /\ kmux' = [kmux EXCEPT ![i] = [open |-> TRUE, accepting |-> ~sstate[i].stopped]]
  /\ user' = [user EXCEPT ![u] = Returned]
  /\ UNCHANGED <<services, nstates, smClosed, smClose, leaving, ender, ended>>

(* ensureKcpMux finds the mux under the read lock or makes it under the lock; what
   the caller then does with it is KcpMux's business *)
ensureKcpMux(u) ==
  /\ user[u].at = "ensure"
  /\ LET i == user[u].st IN
     IF smClosed \/ sstate[i].mux \/ sstate[i].closed THEN UNCHANGED <<sstate, kmux>>
     ELSE /\ sstate' = [sstate EXCEPT ![i].mux = TRUE]
          /\ kmux' = [kmux EXCEPT ![i] = [open |-> TRUE, accepting |-> ~sstate[i].stopped]]
  /\ user' = [user EXCEPT ![u] = Returned]
  /\ UNCHANGED <<services, nstates, smClosed, smClose, leaving, ender, ended>>

-----------------------------------------------------------------------------
(* CloseService and StopAcceptingService mark the state, unlock, and then look
   whether it has a mux to act on *)
EndCall(e, s, op) ==
  /\ ender[e].at = "idle" /\ ~smClosed
  /\ ender' = [ender EXCEPT ![e] = [at |-> "mark", service |-> s, op |-> op]]
  /\ UNCHANGED <<services, sstate, nstates, kmux, smClosed, smClose, leaving, user, ended>>

EndMark(e) ==
  /\ ender[e].at = "mark"
  /\ LET w == ender[e] i == services[w.service]
         Marked(st) == [st EXCEPT !.stopped = TRUE, !.closed = @ \/ w.op = "close"]
     IN /\ IF i = NoState
             THEN AddState(w.service, Marked(NewState(w.service)))
             ELSE sstate' = [sstate EXCEPT ![i] = Marked(@)] /\ UNCHANGED <<services, nstates>>
        /\ ender' = [ender EXCEPT ![e] =
                       [at |-> "act", op |-> w.op, st |-> services'[w.service]]]
  /\ UNCHANGED <<kmux, smClosed, smClose, leaving, user, ended>>

EndAct(e) ==
  /\ ender[e].at = "act"
  /\ LET w == ender[e] IN
     /\ kmux' = IF ~sstate[w.st].mux THEN kmux
                ELSE [kmux EXCEPT ![w.st].accepting = FALSE,
                                  ![w.st].open = @ /\ w.op # "close"]
     /\ ended' = ended \cup {<<w.st, w.op>>}
  /\ ender' = [ender EXCEPT ![e] = Returned]
  /\ UNCHANGED <<services, sstate, nstates, smClosed, smClose, leaving, user>>

-----------------------------------------------------------------------------
CloseStore ==
  /\ smClose = "no"
  /\ smClosed' = TRUE /\ smClose' = "swap"
  /\ UNCHANGED <<services, sstate, nstates, kmux, leaving, user, ender, ended>>

CloseSwap ==
  /\ smClose = "swap"
  /\ leaving' = {services[s] : s \in Services} \ {NoState}
  /\ services' = [s \in Services |-> NoState]
  /\ smClose' = "muxes"
  /\ UNCHANGED <<sstate, nstates, kmux, smClosed, user, ender, ended>>

CloseNextMux(i) ==
  /\ smClose = "muxes" /\ i \in leaving
  /\ kmux' = [kmux EXCEPT ![i] = [open |-> FALSE, accepting |-> FALSE]]
  /\ leaving' = leaving \ {i}
  /\ UNCHANGED <<services, sstate, nstates, smClosed, smClose, user, ender, ended>>

CloseReturned ==
  /\ smClose = "muxes" /\ leaving = {}
  /\ smClose' = "done"
  /\ UNCHANGED <<services, sstate, nstates, kmux, smClosed, leaving, user, ender, ended>>

ServiceMuxNext ==
  \/ \E u \in Users : (\E s \in Services : LookupService(u, s)) \/ CreateService(u) \/ ensureKcpMux(u)
  \/ \E e \in Enders, s \in Services, op \in {"close", "stop"} : EndCall(e, s, op)
  \/ \E e \in Enders : EndMark(e) \/ EndAct(e)
  \/ \E i \in StateIds : CloseNextMux(i)
  \/ CloseStore \/ CloseSwap \/ CloseReturned

ServiceMuxSpec == ServiceMuxInit /\ [][ServiceMuxNext]_smVars

-----------------------------------------------------------------------------
(* Types of the service mux's state. *)
ServiceMuxTypeOK ==
  /\ services \in [Services -> StateIds \cup {NoState}]
  /\ nstates \in 0 .. MaxStates
  /\ smClose \in {"no", "swap", "muxes", "done"}
  /\ leaving \subseteq StateIds

(* What was ended stays ended, also for a call that held the serviceState across the end
   and makes the mux of the service afterwards: when Close has returned every KcpMux that
   was ever made is closed, when StopAcceptingService has, the service accepts no stream,
   and when CloseService has, it has no open mux either (ensureKcpMux, CloseService). *)
EndedStaysEnded ==
  /\ smClose = "done" => \A i \in StateIds : ~kmux[i].open
  /\ \A i \in StateIds :
       /\ <<i, "stop">> \in ended => ~kmux[i].accepting
       /\ <<i, "close">> \in ended => ~kmux[i].open /\ ~kmux[i].accepting
=============================================================================
