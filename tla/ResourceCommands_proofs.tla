----------------------- MODULE ResourceCommands_proofs -----------------------
(***************************************************************************)
(* Proofs about the request layer, for any callers, retries, authentication*)
(* strategies and faults, and for the commands built on it.                *)
(***************************************************************************)
EXTENDS ResourceCommands, TLAPS, FunctionTheorems, FiniteSetTheorems,
        SequenceTheorems

-------------------------------------------------------------------------------
(* The request layer alone *)

(* What is known of one request. A pending request has been carried out at *)
(* most by its earlier tries, and a POST is not tried again.               *)
CallInv(u) ==
    /\ call[u].tries <= setup.retries
    /\ call[u].method = "POST" => call[u].tries = 0
    /\ Pending(u) => call[u].carried <= call[u].tries
    /\ call[u].carried <= call[u].tries + 1
    /\ call[u].at = "answered" => call[u].carried >= 1
    /\ faults = setup.faults => token[u] # "stale" /\ call[u].at # "broken"

ClientInv ==
    /\ ClientTypeOK
    /\ faults <= setup.faults
    /\ \A u \in Callers : CallInv(u)

LEMMA InitClientInv == Init => ClientInv
<1> SUFFICES ASSUME Init PROVE ClientInv
  OBVIOUS
<1>1. Call("GET", "idle") \in Calls
  BY DEF Call, Calls, Phases, Methods
<1>2. setup.retries \in Nat /\ setup.faults \in Nat
  BY ClientAssumption DEF Init, Circumstances
<1>3. ClientTypeOK
  BY <1>1, <1>2 DEF Init, ClientTypeOK
<1>4. ASSUME NEW u \in Callers PROVE CallInv(u)
  BY <1>2 DEF Init, CallInv, Call, Pending
<1>5. QED
  BY <1>2, <1>3, <1>4 DEF Init, ClientInv

(* Every action changes the call, the token or the faults of one caller u  *)
(* in a way that keeps what is known of its request.                       *)
LEMMA NewCall ==
    ASSUME ClientInv, NEW u \in Callers, NEW c \in Calls,
           Update(u, c), UNCHANGED setup,
           token' \in [Callers -> {"none", "good", "stale"}],
           faults' \in Nat, faults' <= faults,
           CallInv(u)',
           \A v \in Callers : v # u => token'[v] = token[v]
    PROVE  ClientInv'
<1>1. call' \in [Callers -> Calls]
  BY DEF Update, ClientInv, ClientTypeOK
<1>2. ClientTypeOK'
  BY <1>1 DEF ClientInv, ClientTypeOK
<1>3. setup.faults \in Nat
  BY ClientAssumption DEF Circumstances, ClientInv, ClientTypeOK
<1>4. faults' <= setup'.faults
  BY <1>3 DEF ClientInv, ClientTypeOK
<1>5. ASSUME NEW v \in Callers PROVE CallInv(v)'
  <2>1. CASE v = u
    BY <2>1
  <2>2. CASE v # u
    <3>1. call'[v] = call[v]
      BY <2>2 DEF Update, ClientInv, ClientTypeOK
    <3>2. token'[v] = token[v]
      BY <2>2
    <3>3. faults' = setup'.faults => faults = setup.faults
      BY <1>3 DEF ClientInv, ClientTypeOK
    <3>4. CallInv(v)
      BY DEF ClientInv
    <3>5. QED
      BY <3>1, <3>2, <3>3, <3>4 DEF CallInv, Pending
  <2>3. QED
    BY <2>1, <2>2
<1>6. QED
  BY <1>2, <1>4, <1>5 DEF ClientInv

LEMMA CallFacts ==
    ASSUME ClientInv, NEW u \in Callers
    PROVE  /\ call[u] \in Calls
           /\ token[u] \in {"none", "good", "stale"}
           /\ setup.retries \in Nat /\ setup.faults \in Nat
           /\ faults \in Nat /\ faults <= setup.faults
           /\ CallInv(u)
BY ClientAssumption DEF ClientInv, ClientTypeOK, Circumstances

(* A connection fails: the same request is tried again, or given up.       *)
LEMMA BrokenConnection ==
    ASSUME ClientInv, NEW u \in Callers, NEW c \in Calls,
           c.method = call[u].method, c.tries = call[u].tries,
           c.carried <= c.tries + 1, Pending(u), Fault,
           Update(u, ConnectionFailed(u, c)), UNCHANGED <<setup, token>>
    PROVE  ClientInv'
<1>1. call[u] \in Calls /\ setup.retries \in Nat /\ setup.faults \in Nat
      /\ faults \in Nat /\ faults <= setup.faults /\ CallInv(u)
  BY CallFacts
<1>2. faults' \in Nat /\ faults' < faults
  BY <1>1 DEF Fault
<1>3. FirstPhase(u) \in {"login", "send"}
  BY DEF FirstPhase
<1> DEFINE d == ConnectionFailed(u, c)
<1>4. CASE MayRetry(c)
  <2>1. /\ d \in Calls
        /\ d.method = c.method /\ d.tries = c.tries + 1
        /\ d.carried = c.carried /\ d.at \in {"login", "send"}
    <3> DEFINE p == FirstPhase(u)
    <3>1. d = [c EXCEPT !.at = p, !.tries = @ + 1, !.again = FALSE]
      BY <1>4 DEF ConnectionFailed
    <3>2. p \in Phases /\ p \in {"login", "send"}
      BY <1>3 DEF Phases
    <3>3. c.tries + 1 \in Nat /\ FALSE \in BOOLEAN
      BY DEF Calls
    <3> HIDE DEF d, p
    <3>4. d.tries = c.tries + 1 /\ d.at = p /\ d.again = FALSE
          /\ d.method = c.method /\ d.carried = c.carried
      BY <3>1 DEF Calls
    <3>5. d \in Calls
      BY <3>1, <3>2, <3>3 DEF Calls
    <3>6. QED
      BY <3>2, <3>4, <3>5
  <2>2. c.method # "POST" /\ c.tries < setup.retries
    BY <1>4 DEF MayRetry, RetriedMethods
  <2>3. call'[u] = d
    BY <1>1 DEF Update, ClientInv, ClientTypeOK
  <2>4. c.tries \in Nat /\ c.carried \in Nat
    BY DEF Calls
  <2> HIDE DEF d
  <2>5. CallInv(u)'
    BY <1>1, <1>2, <2>1, <2>2, <2>3, <2>4 DEF CallInv, Pending
  <2>6. QED
    BY <1>1, <1>2, <2>1, <2>5, NewCall DEF d, ClientInv, ClientTypeOK
<1>5. CASE ~ MayRetry(c)
  <2>1. /\ d \in Calls
        /\ d.method = c.method /\ d.tries = c.tries
        /\ d.carried = c.carried /\ d.at = "broken"
    BY <1>5 DEF ConnectionFailed, Calls, Phases
  <2>2. call'[u] = d
    BY <1>1 DEF Update, ClientInv, ClientTypeOK
  <2>3. c.tries \in Nat /\ c.carried \in Nat
    BY DEF Calls
  <2> HIDE DEF d
  <2>4. CallInv(u)'
    BY <1>1, <1>2, <2>1, <2>2, <2>3 DEF CallInv, Pending
  <2>5. QED
    BY <1>1, <1>2, <2>1, <2>4, NewCall DEF d, ClientInv, ClientTypeOK
<1>6. QED
  BY <1>4, <1>5

LEMMA CarriedOutFacts ==
    ASSUME NEW c \in Calls
    PROVE  /\ CarriedOut(c) \in Calls
           /\ CarriedOut(c).method = c.method
           /\ CarriedOut(c).tries = c.tries
           /\ CarriedOut(c).carried = c.carried + 1
BY DEF CarriedOut, Calls

LEMMA NextClientInv == ClientInv /\ [Next]_clientVars => ClientInv'
<1> SUFFICES ASSUME ClientInv, [Next]_clientVars PROVE ClientInv'
  OBVIOUS
<1>1. ASSUME UNCHANGED clientVars PROVE ClientInv'
  BY <1>1 DEF clientVars, ClientInv, ClientTypeOK, CallInv, Pending
<1>2. ASSUME NEW u \in Callers, NEW m \in Methods, Issue(u, m)
      PROVE  ClientInv'
  <2>1. /\ Call(m, FirstPhase(u)) \in Calls
        /\ Call(m, FirstPhase(u)).tries = 0
        /\ Call(m, FirstPhase(u)).carried = 0
        /\ Call(m, FirstPhase(u)).at \in {"login", "send"}
    BY DEF Call, Calls, FirstPhase, Phases
  <2>2. call'[u] = Call(m, FirstPhase(u))
    BY <1>2, CallFacts DEF Issue, Update, ClientInv, ClientTypeOK
  <2>3. CallInv(u)'
    BY <1>2, <2>1, <2>2, CallFacts DEF Issue, CallInv, Pending
  <2>4. QED
    BY <1>2, <2>1, <2>3, NewCall, CallFacts DEF Issue, ClientInv, ClientTypeOK
<1>3. ASSUME NEW u \in Callers, Authenticate(u) PROVE ClientInv'
  <2> DEFINE c == [call[u] EXCEPT !.at = "send"]
  <2>1. call[u] \in Calls /\ CallInv(u) /\ call[u].at = "login"
    BY <1>3, CallFacts DEF Authenticate
  <2>2. c \in Calls /\ c.at = "send" /\ c.tries = call[u].tries
        /\ c.method = call[u].method /\ c.carried = call[u].carried
    BY <2>1 DEF Calls, Phases
  <2>3. call'[u] = c /\ token'[u] = "good"
    BY <1>3 DEF Authenticate, Update, ClientInv, ClientTypeOK
  <2>4. Update(u, c) /\ UNCHANGED <<setup, faults>>
    BY <1>3 DEF Authenticate
  <2>5. token' \in [Callers -> {"none", "good", "stale"}]
        /\ \A v \in Callers : v # u => token'[v] = token[v]
    BY <1>3 DEF Authenticate, ClientInv, ClientTypeOK
  <2> HIDE DEF c
  <2>6. CallInv(u)'
    BY <2>1, <2>2, <2>3, <2>4 DEF CallInv, Pending
  <2>7. QED
    BY <2>2, <2>4, <2>5, <2>6, NewCall, CallFacts
<1>4. ASSUME NEW u \in Callers, Rejected(u) PROVE ClientInv'
  <2> DEFINE c == IF call[u].again THEN [call[u] EXCEPT !.at = "broken"]
                  ELSE [call[u] EXCEPT !.at = "login", !.again = TRUE]
  <2>1. call[u] \in Calls /\ CallInv(u) /\ call[u].at = "send"
        /\ token[u] = "stale"
    BY <1>4, CallFacts DEF Rejected
  <2>2. c \in Calls /\ c.at \in {"login", "broken"}
        /\ c.tries = call[u].tries
        /\ c.method = call[u].method /\ c.carried = call[u].carried
    BY <2>1 DEF Calls, Phases
  <2>3. Update(u, c) /\ UNCHANGED <<setup, token, faults>>
    BY <1>4 DEF Rejected
  <2>4. call'[u] = c
    BY <2>3 DEF Update, ClientInv, ClientTypeOK
  <2> HIDE DEF c
  <2>5. CallInv(u)'
    BY <2>1, <2>2, <2>3, <2>4 DEF CallInv, Pending
  <2>6. QED
    BY <2>2, <2>3, <2>5, NewCall, CallFacts DEF ClientInv, ClientTypeOK
<1>5. ASSUME NEW u \in Callers, Answered(u) PROVE ClientInv'
  <2> DEFINE c == [CarriedOut(call[u]) EXCEPT !.at = "answered"]
  <2>1. call[u] \in Calls /\ CallInv(u) /\ Pending(u)
    BY <1>5, CallFacts DEF Answered, CanServe, Pending
  <2>2. c \in Calls /\ c.at = "answered" /\ c.tries = call[u].tries
        /\ c.method = call[u].method /\ c.carried = call[u].carried + 1
    BY <2>1, CarriedOutFacts DEF Calls, Phases
  <2>3. Update(u, c) /\ UNCHANGED <<setup, token, faults>>
    BY <1>5 DEF Answered
  <2>4. call'[u] = c
    BY <2>3 DEF Update, ClientInv, ClientTypeOK
  <2>5. call[u].tries \in Nat /\ call[u].carried \in Nat
    BY <2>1 DEF Calls
  <2> HIDE DEF c
  <2>6. CallInv(u)'
    BY <2>1, <2>2, <2>3, <2>4, <2>5 DEF CallInv, Pending
  <2>7. QED
    BY <2>2, <2>3, <2>6, NewCall, CallFacts DEF ClientInv, ClientTypeOK
<1>6. ASSUME NEW u \in Callers, AnswerLost(u) PROVE ClientInv'
  <2>1. call[u] \in Calls /\ CallInv(u) /\ Pending(u)
    BY <1>6, CallFacts DEF AnswerLost, CanServe, Pending
  <2>2. CarriedOut(call[u]).carried <= CarriedOut(call[u]).tries + 1
    BY <2>1, CarriedOutFacts DEF CallInv, Calls
  <2>3. QED
    BY <1>6, <2>1, <2>2, CarriedOutFacts, BrokenConnection DEF AnswerLost
<1>7. ASSUME NEW u \in Callers, NotReached(u) PROVE ClientInv'
  <2>1. call[u] \in Calls /\ CallInv(u)
    BY CallFacts
  <2>2. QED
    BY <1>7, <2>1, BrokenConnection DEF NotReached, CallInv
<1>8. ASSUME NEW u \in Callers, Refused(u) PROVE ClientInv'
  <2> DEFINE c == [call[u] EXCEPT !.at = "broken"]
  <2>1. call[u] \in Calls /\ CallInv(u) /\ faults \in Nat
        /\ faults <= setup.faults /\ setup.faults \in Nat
    BY CallFacts
  <2>2. c \in Calls /\ c.at = "broken" /\ c.tries = call[u].tries
        /\ c.method = call[u].method /\ c.carried = call[u].carried
    BY <2>1 DEF Calls, Phases
  <2>3. Update(u, c) /\ UNCHANGED <<setup, token>>
        /\ faults' \in Nat /\ faults' < faults
    BY <1>8, <2>1 DEF Refused, Fault
  <2>4. call'[u] = c
    BY <2>3 DEF Update, ClientInv, ClientTypeOK
  <2> HIDE DEF c
  <2>5. CallInv(u)'
    BY <2>1, <2>2, <2>3, <2>4 DEF CallInv, Pending
  <2>6. QED
    BY <2>1, <2>2, <2>3, <2>5, NewCall DEF ClientInv, ClientTypeOK
<1>9. ASSUME NEW u \in Callers, Expire(u) PROVE ClientInv'
  <2>1. call[u] \in Calls /\ CallInv(u) /\ faults \in Nat
        /\ faults <= setup.faults /\ setup.faults \in Nat
    BY CallFacts
  <2>2. faults' \in Nat /\ faults' < faults
    BY <1>9, <2>1 DEF Expire, Fault
  <2>3. Update(u, call[u]) /\ UNCHANGED <<setup, call>>
    BY <1>9 DEF Expire, Update, ClientInv, ClientTypeOK
  <2>4. token' \in [Callers -> {"none", "good", "stale"}]
        /\ \A v \in Callers : v # u => token'[v] = token[v]
    BY <1>9 DEF Expire, ClientInv, ClientTypeOK
  <2>5. CallInv(u)'
    BY <2>1, <2>2, <2>3 DEF CallInv, Pending
  <2>6. QED
    BY <2>1, <2>2, <2>3, <2>4, <2>5, NewCall
<1>10. QED
  BY <1>1, <1>2, <1>3, <1>4, <1>5, <1>6, <1>7, <1>8, <1>9 DEF Next

LEMMA ClientInvDelivers == ClientInv => Delivery
<1> SUFFICES ASSUME ClientInv, NEW u \in Callers PROVE Delivered(u)
  BY DEF Delivery
<1>1. call[u] \in Calls /\ CallInv(u) /\ setup.retries \in Nat
  BY CallFacts
<1>2. QED
  BY <1>1 DEF Delivered, CallInv, Calls

(* "Do not retry POST requests to avoid the orphan objects problem"        *)
(* (v2_0/client.py:310): a POST is carried out at most once, whatever is   *)
(* lost, expires and is repeated.                                          *)
THEOREM RequestsDelivered == Spec => []Delivery
<1>1. Spec => []ClientInv
  BY InitClientInv, NextClientInv, PTL DEF Spec
<1>2. QED
  BY <1>1, ClientInvDelivers, PTL

-------------------------------------------------------------------------------
(* The commands on top of it *)

LEMMA MethodsOfSteps == ASSUME NEW s PROVE Method(s) \in Methods
BY DEF Method, Methods

(* Every step of a command is a step of the request layer, or none.        *)
LEMMA CommandStepIsClientStep == [CommandNext]_vars => [Next]_clientVars
<1> SUFFICES ASSUME [CommandNext]_vars PROVE [Next]_clientVars
  OBVIOUS
<1>1. CASE UNCHANGED vars
  BY <1>1 DEF vars, clientVars
<1>2. ASSUME NEW u \in Callers, Start(u) \/ Fails(u) \/ Finish(u)
      PROVE  UNCHANGED clientVars
  BY <1>2 DEF Start, Fails, Finish
<1>3. ASSUME NEW u \in Callers, NextStep(u) PROVE Next
  <2>1. Issue(u, Method(Head(job[u].left)))
    BY <1>3 DEF NextStep
  <2>2. Method(Head(job[u].left)) \in Methods
    BY MethodsOfSteps
  <2>3. QED
    BY <2>1, <2>2 DEF Next
<1>4. ASSUME NEW u \in Callers, ClientStep(u) PROVE Next
  BY <1>4 DEF ClientStep, Next
<1>5. ASSUME NEW u \in Callers, Served(u) PROVE Next
  BY <1>5 DEF Served, Next
<1>6. ASSUME NEW u \in Callers, ServedInVain(u) PROVE Next
  BY <1>6 DEF ServedInVain, Next
<1>7. QED
  BY <1>1, <1>2, <1>3, <1>4, <1>5, <1>6 DEF CommandNext

(* The commands use the request layer as it is meant to be used.           *)
THEOREM CommandsUseClient == CommandSpec => Spec
<1>1. CommandInit => Init
  BY DEF CommandInit
<1>2. QED
  BY <1>1, CommandStepIsClientStep, PTL DEF CommandSpec, Spec

(* What holds of requests holds of those of every command.                 *)
THEOREM CommandsDelivered == CommandSpec => []Delivery
BY CommandsUseClient, RequestsDelivered, PTL

-------------------------------------------------------------------------------
(* Sequences of steps *)

LEMMA ChangesFinite ==
    ASSUME NEW S, NEW q \in Seq(S)
    PROVE  IsFiniteSet(ChangesIn(q)) /\ Cardinality(ChangesIn(q)) \in Nat
<1>1. IsFiniteSet(1..Len(q))
  BY FS_Interval
<1>2. ChangesIn(q) \subseteq 1..Len(q)
  BY DEF ChangesIn
<1>3. QED
  BY <1>1, <1>2, FS_Subset, FS_CardinalityType

LEMMA TailFacts ==
    ASSUME NEW S, NEW q \in Seq(S), q # <<>>
    PROVE  /\ Tail(q) \in Seq(S)
           /\ Len(q) \in Nat \ {0} /\ Len(Tail(q)) = Len(q) - 1
           /\ DOMAIN q = 1..Len(q) /\ DOMAIN Tail(q) = 1..(Len(q) - 1)
           /\ Head(q) = q[1]
           /\ \A k \in DOMAIN Tail(q) : Tail(q)[k] = q[k + 1]
OBVIOUS

(* A step taken is one change less before the command, if it was a change. *)
LEMMA ChangesInTail ==
    ASSUME NEW S, NEW q \in Seq(S), q # <<>>
    PROVE  Cardinality(ChangesIn(q)) =
             Cardinality(ChangesIn(Tail(q))) + (IF Writes(Head(q)) THEN 1 ELSE 0)
<1> DEFINE A == ChangesIn(Tail(q))
           B == ChangesIn(q) \ {1}
           f == [k \in A |-> k + 1]
<1>1. IsFiniteSet(A) /\ IsFiniteSet(ChangesIn(q))
  BY ChangesFinite, TailFacts
<1>2. f \in [A -> B]
  BY TailFacts DEF ChangesIn
<1>3. \A k \in B : k - 1 \in A /\ f[k - 1] = k
  <2> SUFFICES ASSUME NEW k \in B
               PROVE  k - 1 \in A /\ f[k - 1] = k
    OBVIOUS
  <2>1. k \in 1..Len(q) /\ k # 1 /\ Writes(q[k])
    BY TailFacts DEF ChangesIn
  <2>2. k - 1 \in DOMAIN Tail(q) /\ Tail(q)[k - 1] = q[(k - 1) + 1]
    BY <2>1, TailFacts
  <2>3. (k - 1) + 1 = k
    BY <2>1
  <2>4. k - 1 \in A
    BY <2>1, <2>2, <2>3 DEF ChangesIn
  <2>5. QED
    BY <2>3, <2>4
<1>4. \A a, b \in A : f[a] = f[b] => a = b
  <2>1. A \subseteq Nat
    BY TailFacts DEF ChangesIn
  <2>2. QED
    BY <2>1
<1>5. f \in Bijection(A, B)
  BY <1>2, <1>3, <1>4, Fun_IsBij
<1>6. Cardinality(B) = Cardinality(A)
  BY <1>1, <1>5, FS_Bijection, Fun_ExistsBij DEF ExistsBijection
<1>7. 1 \in ChangesIn(q) <=> Writes(Head(q))
  BY TailFacts DEF ChangesIn
<1>8. Cardinality(ChangesIn(q)) \in Nat /\ Cardinality(A) \in Nat
  BY <1>1, FS_CardinalityType
<1>9. Cardinality(B) = IF 1 \in ChangesIn(q) THEN Cardinality(ChangesIn(q)) - 1
                       ELSE Cardinality(ChangesIn(q))
  BY <1>1, FS_RemoveElement
<1> HIDE DEF A, B, f
<1>10. CASE Writes(Head(q))
  BY <1>6, <1>7, <1>8, <1>9, <1>10 DEF A
<1>11. CASE ~ Writes(Head(q))
  BY <1>6, <1>7, <1>8, <1>9, <1>11 DEF A
<1>12. QED
  BY <1>10, <1>11

LEMMA SkipFacts ==
    ASSUME NEW S, NEW q \in Seq(S), q # <<>>
    PROVE  /\ SubSeq(q, 1 + 1, Len(q)) = Tail(q)
           /\ Len(q) >= 2 => /\ Tail(q) # <<>>
                             /\ SubSeq(q, 2 + 1, Len(q)) = Tail(Tail(q))
<1>1. Tail(q) = SubSeq(q, 2, Len(q))
  BY TailIsSubSeq
<1>2. ASSUME Len(q) >= 2
      PROVE  Tail(q) # <<>> /\ SubSeq(q, 3, Len(q)) = Tail(Tail(q))
  <2>1. Tail(q) \in Seq(S) /\ Len(Tail(q)) = Len(q) - 1 /\ Len(q) \in Nat
    BY TailFacts
  <2>4. Tail(q) # <<>>
    <3>1. Len(<<>>) = 0
      OBVIOUS
    <3>2. Len(Tail(q)) # 0
      BY <1>2, <2>1
    <3>3. QED
      BY <3>1, <3>2, Zenon
  <2>2. Tail(Tail(q)) = SubSeq(SubSeq(q, 2, Len(q)), 2, Len(q) - 1)
    BY <1>1, <2>1, <2>4, TailIsSubSeq
  <2>3. QED
    BY <1>2, <2>1, <2>2, <2>4, SubSeqOfSubSeq, TailFacts
<1>3. QED
  BY <1>1, <1>2
-------------------------------------------------------------------------------
(* One job *)

IsSeq(q) == \E S : q \in Seq(S)

IsJob(j) ==
    /\ j = [cmd |-> j.cmd, at |-> j.at, left |-> j.left, id |-> j.id,
            seen |-> j.seen, fails |-> j.fails, did |-> j.did]
    /\ j.at \in {"ready", "running", "done", "failed"}
    /\ j.id \in Ids \cup {None}
    /\ j.seen \subseteq Items
    /\ j.fails \in Nat /\ j.did \in Nat
    /\ IsSeq(j.left)

(* What is left of a command is as well-formed as the whole, but for the   *)
(* look-up of the id, which may be over.                                   *)
JobOK(j) ==
    /\ IsJob(j)
    /\ WellFormed(j.cmd)
    /\ KnowsMembers(j.left, j.cmd) /\ InOrder(j.left, j.cmd)
    /\ j.id \in Ids \/ LooksUp(j.left)
    /\ j.at = "done" => j.left = <<>>
    /\ j.at = "failed" => j.left # <<>>

(* The changes of a command are made, or failed, or yet to come.           *)
Sum(j) == j.did + j.fails + Cardinality(ChangesIn(j.left))

Accounted(j) == ChangesIn(j.cmd.steps) # {} => Sum(j) >= Changes(j.cmd)

Exactly(j) == ChangesIn(j.cmd.steps) # {} => Sum(j) = Changes(j.cmd)

(* A creation comes last and is made once at most.                         *)
CreatedOnce(j) ==
    Creates(j.cmd) => /\ j.did <= 1
                      /\ j.at \in {"ready", "running"} /\ j.left # <<>> => j.did = 0

LEMMA TailInOrder ==
    ASSUME NEW c, NEW S, NEW q \in Seq(S), q # <<>>, InOrder(q, c)
    PROVE  InOrder(Tail(q), c)
<1> SUFFICES ASSUME NEW k \in DOMAIN Tail(q)
             PROVE  LET s == Tail(q)[k]
                        t == Tail(q)
                    IN  /\ s.do \in Deeds
                        /\ ChangesIn(c.steps) # {} => /\ s.do # "survey"
                                                     /\ Writes(t[Len(t)])
                        /\ Creates(c) /\ Writes(s) => s.do = "post" /\ k = Len(t)
                        /\ s.catch # {} =>
                               IF s.do = "find"
                               THEN s.skip = 2 /\ k < Len(t) /\ Writes(t[k + 1])
                               ELSE s.do \in {"delete", "dissociate"} /\ s.skip = 1
  BY Zenon DEF InOrder
<1>1. /\ k + 1 \in DOMAIN q /\ Tail(q)[k] = q[k + 1] /\ k \in 1..(Len(q) - 1)
      /\ Len(q) \in Nat /\ Len(Tail(q)) = Len(q) - 1
  BY TailFacts
<1>2. Tail(q)[Len(Tail(q))] = q[Len(q)]
  BY <1>1, TailFacts
<1>3. k < Len(Tail(q)) => Tail(q)[k + 1] = q[(k + 1) + 1]
  BY <1>1, TailFacts
<1>4. k + 1 < Len(q) => k < Len(Tail(q))
  BY <1>1
<1>5. k + 1 = Len(q) => k = Len(Tail(q))
  BY <1>1
<1>6. /\ q[k + 1].do \in Deeds
      /\ ChangesIn(c.steps) # {} => q[k + 1].do # "survey" /\ Writes(q[Len(q)])
      /\ Creates(c) /\ Writes(q[k + 1]) => q[k + 1].do = "post" /\ k + 1 = Len(q)
      /\ q[k + 1].catch # {} =>
             IF q[k + 1].do = "find"
             THEN q[k + 1].skip = 2 /\ k + 1 < Len(q) /\ Writes(q[(k + 1) + 1])
             ELSE q[k + 1].do \in {"delete", "dissociate"} /\ q[k + 1].skip = 1
  BY <1>1, Zenon DEF InOrder
<1>7. Tail(q)[k].do \in Deeds
  BY <1>1, <1>6
<1>8. ChangesIn(c.steps) # {} => Tail(q)[k].do # "survey" /\ Writes(Tail(q)[Len(Tail(q))])
  BY <1>1, <1>2, <1>6, Zenon
<1>9. Creates(c) /\ Writes(Tail(q)[k]) => Tail(q)[k].do = "post" /\ k = Len(Tail(q))
  BY <1>1, <1>5, <1>6, Zenon
<1>10. Tail(q)[k].catch # {} =>
          IF Tail(q)[k].do = "find"
          THEN Tail(q)[k].skip = 2 /\ k < Len(Tail(q)) /\ Writes(Tail(q)[k + 1])
          ELSE Tail(q)[k].do \in {"delete", "dissociate"} /\ Tail(q)[k].skip = 1
  BY <1>1, <1>3, <1>4, <1>6, Zenon
<1>11. QED
  BY <1>7, <1>8, <1>9, <1>10, Zenon

LEMMA TailKnowsMembers ==
    ASSUME NEW c, NEW S, NEW q \in Seq(S), q # <<>>, KnowsMembers(q, c),
           Head(q).do = "item" => Head(q).of \in Items
    PROVE  KnowsMembers(Tail(q), c)
<1> SUFFICES ASSUME NEW k \in DOMAIN Tail(q), NEW i \in AddedBy(Tail(q)[k], c) \ Items
             PROVE  \E f \in 1..(k - 1) : Tail(q)[f].do = "item" /\ Tail(q)[f].of = i
  BY DEF KnowsMembers
<1>1. k + 1 \in DOMAIN q /\ Tail(q)[k] = q[k + 1] /\ k \in 1..(Len(q) - 1)
      /\ Len(q) \in Nat
  BY TailFacts
<1>2. PICK f \in 1..((k + 1) - 1) : q[f].do = "item" /\ q[f].of = i
  BY <1>1 DEF KnowsMembers
<1>3. f # 1
  BY <1>2, TailFacts
<1>4. f - 1 \in 1..(k - 1) /\ Tail(q)[f - 1] = q[(f - 1) + 1] /\ (f - 1) + 1 = f
  BY <1>1, <1>2, <1>3, TailFacts
<1>5. QED
  BY <1>2, <1>4

LEMMA TailLooksUp ==
    ASSUME NEW c, NEW S, NEW q \in Seq(S), q # <<>>, InOrder(q, c), LooksUp(q),
           Head(q).do \notin {"find", "first"}
    PROVE  LooksUp(Tail(q))
<1> SUFFICES ASSUME NEW k \in DOMAIN Tail(q), NeedsId(Tail(q)[k])
             PROVE  \E f \in 1..(k - 1) :
                        /\ Tail(q)[f].do \in {"find", "first"}
                        /\ Tail(q)[f].catch = {} \/ f + Tail(q)[f].skip > k
  BY DEF LooksUp
<1>1. k + 1 \in DOMAIN q /\ Tail(q)[k] = q[k + 1] /\ k \in 1..(Len(q) - 1)
      /\ Len(q) \in Nat
  BY TailFacts
<1>2. PICK f \in 1..((k + 1) - 1) :
          /\ q[f].do \in {"find", "first"}
          /\ q[f].catch = {} \/ f + q[f].skip > k + 1
  BY <1>1 DEF LooksUp
<1>3. f # 1
  BY <1>2, TailFacts
<1>4. f - 1 \in 1..(k - 1) /\ Tail(q)[f - 1] = q[(f - 1) + 1] /\ (f - 1) + 1 = f
  BY <1>1, <1>2, <1>3, TailFacts
<1>5. f \in DOMAIN q /\ (q[f].catch # {} => q[f].skip \in Nat)
  BY <1>1, <1>2 DEF InOrder
<1>6. q[f].catch = {} \/ (f - 1) + q[f].skip > k
  BY <1>1, <1>2, <1>5
<1>7. /\ Tail(q)[f - 1].do \in {"find", "first"}
      /\ Tail(q)[f - 1].catch = {} \/ (f - 1) + Tail(q)[f - 1].skip > k
  BY <1>2, <1>4, <1>6
<1>8. QED
  BY <1>4, <1>7, Zenon

(* A deletion is left out with the look-up before it.                      *)
LEMMA SkippedLooksUp ==
    ASSUME NEW c, NEW S, NEW q \in Seq(S), q # <<>>, InOrder(q, c), LooksUp(q),
           Head(q).catch # {}, Head(q).do = "find"
    PROVE  LooksUp(Tail(Tail(q)))
<1>1. q[1].skip = 2 /\ 1 < Len(q) /\ Writes(q[1 + 1]) /\ Len(q) \in Nat
  BY TailFacts DEF InOrder
<1>2. /\ Tail(q) \in Seq(S) /\ Tail(q) # <<>> /\ Len(Tail(q)) = Len(q) - 1
      /\ Writes(Head(Tail(q))) /\ InOrder(Tail(q), c)
  <2>1. Tail(q) \in Seq(S) /\ Len(Tail(q)) = Len(q) - 1 /\ InOrder(Tail(q), c)
    BY TailFacts, TailInOrder
  <2>2. Tail(q) # <<>>
    BY <1>1, SkipFacts
  <2>3. Head(Tail(q)) = q[1 + 1]
    BY <1>1, <2>1, <2>2, TailFacts
  <2>4. QED
    BY <1>1, <2>1, <2>2, <2>3, Zenon
<1> DEFINE t == Tail(Tail(q))
<1>3. /\ DOMAIN t = 1..(Len(q) - 2)
      /\ \A k \in DOMAIN t : t[k] = q[k + 2]
  <2>1. DOMAIN t = 1..(Len(Tail(q)) - 1) /\ \A k \in DOMAIN t : t[k] = Tail(q)[k + 1]
    BY <1>2, TailFacts
  <2>2. SUFFICES ASSUME NEW k \in 1..(Len(q) - 2)
                 PROVE  t[k] = q[k + 2]
    BY <1>1, <1>2, <2>1
  <2>3. k \in DOMAIN t /\ k + 1 \in 1..(Len(q) - 1) /\ (k + 1) + 1 = k + 2
    BY <1>1, <1>2, <2>1
  <2>4. Tail(q)[k + 1] = q[(k + 1) + 1]
    BY <2>3, TailFacts
  <2>5. QED
    BY <2>1, <2>3, <2>4
<1> HIDE DEF t
<1> SUFFICES ASSUME NEW k \in DOMAIN t, NeedsId(t[k])
             PROVE  \E f \in 1..(k - 1) :
                        /\ t[f].do \in {"find", "first"}
                        /\ t[f].catch = {} \/ f + t[f].skip > k
  BY DEF LooksUp, t
<1>4. k \in 1..(Len(q) - 2) /\ t[k] = q[k + 2] /\ k + 2 \in DOMAIN q
  BY <1>1, <1>3, TailFacts
<1>5. PICK f \in 1..((k + 2) - 1) :
          /\ q[f].do \in {"find", "first"}
          /\ q[f].catch = {} \/ f + q[f].skip > k + 2
  BY <1>4 DEF LooksUp
<1>6. f # 1
  BY <1>1, <1>4, <1>5, TailFacts
<1>7. f # 2
  <2>1. \A s : s.do \in {"find", "first"} => ~ Writes(s)
    BY DEF Writes, Method, Styles
  <2>2. QED
    BY <1>1, <1>5, <2>1
<1>8. f - 2 \in 1..(k - 1) /\ t[f - 2] = q[f]
  <2>1. f - 2 \in 1..(k - 1) /\ f - 2 \in 1..(Len(q) - 2) /\ (f - 2) + 2 = f
    BY <1>1, <1>4, <1>5, <1>6, <1>7
  <2>2. t[f - 2] = q[(f - 2) + 2]
    BY <1>3, <2>1
  <2>3. QED
    BY <2>1, <2>2
<1>9. f \in DOMAIN q /\ (q[f].catch # {} => q[f].skip \in Nat)
  BY <1>1, <1>4, <1>5, TailFacts DEF InOrder
<1>10. q[f].catch = {} \/ (f - 2) + q[f].skip > k
  BY <1>1, <1>4, <1>5, <1>9
<1>11. /\ t[f - 2].do \in {"find", "first"}
       /\ t[f - 2].catch = {} \/ (f - 2) + t[f - 2].skip > k
  BY <1>5, <1>8, <1>10
<1>12. QED
  BY <1>8, <1>11, Zenon

LEMMA CreatesIsChange == ASSUME NEW c, Creates(c) PROVE ChangesIn(c.steps) # {}
BY DEF Creates, ChangesIn, Writes, Method, Styles

LEMMA CaughtSteps ==
    ASSUME NEW c, NEW S, NEW q \in Seq(S), q # <<>>, InOrder(q, c),
           KnowsMembers(q, c), Head(q).catch # {},
           NEW t, t = SubSeq(q, Head(q).skip + 1, Len(q))
    PROVE  /\ t \in Seq(S)
           /\ InOrder(t, c) /\ KnowsMembers(t, c)
           /\ LooksUp(q) => LooksUp(t)
           /\ Cardinality(ChangesIn(q)) = Cardinality(ChangesIn(t)) + 1
           /\ Head(q).do # "post"
<1>1. /\ Head(q).catch # {} =>
             IF Head(q).do = "find"
             THEN Head(q).skip = 2 /\ 1 < Len(q) /\ Writes(q[1 + 1])
             ELSE Head(q).do \in {"delete", "dissociate"} /\ Head(q).skip = 1
      /\ Len(q) \in Nat /\ Head(q) = q[1]
  BY TailFacts DEF InOrder
<1>2. CASE Head(q).do = "find"
  <2>1. Head(q).skip = 2 /\ Len(q) >= 2 /\ Writes(q[1 + 1])
    BY <1>1, <1>2
  <2>2. t = Tail(Tail(q)) /\ Tail(q) # <<>>
    BY <2>1, SkipFacts
  <2>3. Tail(q) \in Seq(S) /\ InOrder(Tail(q), c) /\ KnowsMembers(Tail(q), c)
    BY <1>2, TailFacts, TailInOrder, TailKnowsMembers
  <2>4. Head(Tail(q)) = q[1 + 1]
    BY <2>1, <2>2, <2>3, TailFacts
  <2>5. Writes(Head(Tail(q))) /\ ~ Writes(Head(q))
    <3>1. \A s : s.do = "find" => ~ Writes(s)
      BY DEF Writes, Method, Styles
    <3>2. QED
      BY <1>2, <2>1, <2>4, <3>1
  <2>6. Head(Tail(q)).do # "item"
    <3>1. \A s : s.do = "item" => ~ Writes(s)
      BY DEF Writes, Method, Styles
    <3>2. QED
      BY <2>5, <3>1
  <2>7. t \in Seq(S) /\ InOrder(t, c) /\ KnowsMembers(t, c)
    BY <2>2, <2>3, <2>6, TailFacts, TailInOrder, TailKnowsMembers
  <2>8. LooksUp(q) => LooksUp(t)
    BY <1>2, <2>2, SkippedLooksUp
  <2>9. Cardinality(ChangesIn(q)) = Cardinality(ChangesIn(t)) + 1
    <3>1. Cardinality(ChangesIn(q)) = Cardinality(ChangesIn(Tail(q))) + 0
      BY <2>5, ChangesInTail
    <3>2. Cardinality(ChangesIn(Tail(q))) = Cardinality(ChangesIn(t)) + 1
      BY <2>2, <2>3, <2>5, ChangesInTail
    <3>3. Cardinality(ChangesIn(Tail(q))) \in Nat /\ Cardinality(ChangesIn(t)) \in Nat
      BY <2>3, <2>7, ChangesFinite
    <3>4. QED
      BY <3>1, <3>2, <3>3
  <2>10. QED
    BY <1>2, <2>7, <2>8, <2>9
<1>3. CASE Head(q).do # "find"
  <2>1. Head(q).do \in {"delete", "dissociate"} /\ Head(q).skip = 1
    BY <1>1, <1>3
  <2>2. t = Tail(q)
    BY <2>1, SkipFacts
  <2>3. Writes(Head(q))
    <3>1. \A s : s.do \in {"delete", "dissociate"} => Writes(s)
      BY DEF Writes, Method, Styles
    <3>2. QED
      BY <2>1, <3>1
  <2>4. t \in Seq(S) /\ InOrder(t, c) /\ KnowsMembers(t, c)
    BY <2>1, <2>2, TailFacts, TailInOrder, TailKnowsMembers
  <2>5. LooksUp(q) => LooksUp(t)
    BY <2>1, <2>2, TailLooksUp
  <2>6. Cardinality(ChangesIn(q)) = Cardinality(ChangesIn(t)) + 1
    BY <2>2, <2>3, ChangesInTail
  <2>7. QED
    BY <2>1, <2>4, <2>5, <2>6
<1>4. QED
  BY <1>2, <1>3

(* A step of a job that fails. *)
LEMMA FailedJob ==
    ASSUME NEW j, JobOK(j), j.at = "running", j.left # <<>>, NEW why,
           NEW k, k = Failed(j, why)
    PROVE  /\ JobOK(k) /\ k.cmd = j.cmd /\ k.did = j.did
           /\ k.at \in {"running", "failed"} /\ Sum(k) = Sum(j)
           /\ Head(j.left).do = "post" => k.at = "failed"
<1> PICK S : j.left \in Seq(S)
  BY DEF JobOK, IsJob, IsSeq
<1>1. CASE why \notin Head(j.left).catch
  <2>1. k = [j EXCEPT !.at = "failed"]
    BY <1>1 DEF Failed
  <2>2. k = [cmd |-> j.cmd, at |-> "failed", left |-> j.left, id |-> j.id,
             seen |-> j.seen, fails |-> j.fails, did |-> j.did]
    BY <2>1 DEF JobOK, IsJob
  <2>3. /\ k.cmd = j.cmd /\ k.at = "failed" /\ k.left = j.left /\ k.id = j.id
        /\ k.seen = j.seen /\ k.fails = j.fails /\ k.did = j.did
    BY <2>2
  <2>4. IsJob(k)
    BY <2>2, <2>3 DEF JobOK, IsJob
  <2>5. JobOK(k)
    BY <2>3, <2>4 DEF JobOK
  <2>6. Sum(k) = Sum(j)
    BY <2>3 DEF Sum
  <2>7. QED
    BY <2>3, <2>5, <2>6
<1>2. CASE why \in Head(j.left).catch
  <2> DEFINE t == SubSeq(j.left, Head(j.left).skip + 1, Len(j.left))
             n == j.fails + 1
  <2>1. k = [j EXCEPT !.fails = n, !.left = t]
    BY <1>2 DEF Failed
  <2> HIDE DEF n
  <2>2. /\ t \in Seq(S) /\ InOrder(t, j.cmd) /\ KnowsMembers(t, j.cmd)
        /\ LooksUp(j.left) => LooksUp(t)
        /\ Cardinality(ChangesIn(j.left)) = Cardinality(ChangesIn(t)) + 1
        /\ Head(j.left).do # "post"
    <3>1. Head(j.left).catch # {} /\ InOrder(j.left, j.cmd) /\ KnowsMembers(j.left, j.cmd)
      BY <1>2 DEF JobOK
    <3> HIDE DEF t
    <3>2. t = SubSeq(j.left, Head(j.left).skip + 1, Len(j.left))
      BY DEF t
    <3>3. t \in Seq(S) /\ InOrder(t, j.cmd) /\ KnowsMembers(t, j.cmd)
      BY <3>1, <3>2, CaughtSteps
    <3>4. (LooksUp(j.left) => LooksUp(t))
          /\ Cardinality(ChangesIn(j.left)) = Cardinality(ChangesIn(t)) + 1
      <4> DEFINE q == j.left
                 c == j.cmd
      <4>1. /\ q \in Seq(S) /\ q # <<>> /\ InOrder(q, c) /\ KnowsMembers(q, c)
            /\ Head(q).catch # {} /\ t = SubSeq(q, Head(q).skip + 1, Len(q))
        BY <3>1, <3>2
      <4> HIDE DEF q, c
      <4>2. /\ LooksUp(q) => LooksUp(t)
            /\ Cardinality(ChangesIn(q)) = Cardinality(ChangesIn(t)) + 1
        BY ONLY <4>1, CaughtSteps
      <4>3. QED
        BY <4>2 DEF q
    <3>5. Head(j.left).do # "post"
      BY <3>1, <3>2, CaughtSteps
    <3>6. QED
      BY <3>3, <3>4, <3>5, Zenon
  <2> HIDE DEF t
  <2>3. k = [cmd |-> j.cmd, at |-> j.at, left |-> t, id |-> j.id,
             seen |-> j.seen, fails |-> n, did |-> j.did]
    BY <2>1 DEF JobOK, IsJob
  <2>4. /\ k.cmd = j.cmd /\ k.at = "running" /\ k.left = t /\ k.id = j.id
        /\ k.seen = j.seen /\ k.fails = n /\ k.did = j.did
    BY <2>3
  <2>5. n \in Nat
    BY DEF n, JobOK, IsJob
  <2>6. IsJob(k)
    BY <2>2, <2>3, <2>4, <2>5 DEF JobOK, IsJob, IsSeq
  <2>7. JobOK(k)
    BY <2>2, <2>4, <2>6 DEF JobOK
  <2>8. Sum(k) = Sum(j)
    <3>1. Cardinality(ChangesIn(t)) \in Nat /\ j.fails \in Nat /\ j.did \in Nat
      BY <2>2, ChangesFinite DEF JobOK, IsJob
    <3>2. Sum(k) = j.did + (j.fails + 1) + Cardinality(ChangesIn(t))
      BY <2>4 DEF Sum, n
    <3>3. Sum(j) = j.did + j.fails + (Cardinality(ChangesIn(t)) + 1)
      BY <2>2 DEF Sum
    <3>4. QED
      BY ONLY <3>1, <3>2, <3>3
  <2>9. QED
    BY <2>2, <2>4, <2>7, <2>8
<1>3. QED
  BY <1>1, <1>2

(* What purge deletes is given by id. *)
LEMMA DeleteEachSteps ==
    ASSUME NEW S \in SUBSET Ids, NEW c, ChangesIn(c.steps) = {}
    PROVE  LET q == DeleteEach(S)
           IN  IsSeq(q) /\ KnowsMembers(q, c) /\ LooksUp(q) /\ InOrder(q, c)
<1>1. IsFiniteSet(S) /\ Cardinality(S) \in Nat
  BY WorkloadAssumption, FS_Subset, FS_CardinalityType
<1> DEFINE n == Cardinality(S)
           f == SetToSeq(S)
           q == DeleteEach(S)
<1>2. f \in [1..n -> S]
  <2>1. PICK m \in Nat : ExistsBijection(1..m, S)
    BY <1>1, FS_NatBijection
  <2>2. m = n
    BY <2>1, FS_CountingElements
  <2>3. PICK g : g \in Bijection(1..m, S)
    BY <2>1, Fun_ExistsBij
  <2>4. g \in [1..n -> S] /\ IsInjective(g)
    BY <2>2, <2>3 DEF Bijection, Injection
  <2>5. QED
    BY <2>4 DEF SetToSeq
<1> HIDE DEF n, f
<1>3. q = [k \in 1..n |-> [Step("delete", f[k], {}) EXCEPT !.catch = Failures]]
  BY <1>2 DEF DeleteEach, f
<1> DEFINE s(k) == [do |-> "delete", of |-> f[k], members |-> {},
                    catch |-> Failures, skip |-> 1]
<1>4. \A k \in 1..n : q[k] = s(k)
  BY <1>3 DEF Step
<1>5. DOMAIN q = 1..n /\ n \in Nat
  BY <1>1, <1>3 DEF n
<1>6. IsSeq(q)
  <2>1. q \in [1..n -> {q[k] : k \in 1..n}]
    BY <1>3
  <2>2. q \in Seq({q[k] : k \in 1..n})
    BY <1>5, <2>1
  <2>3. QED
    BY <2>2 DEF IsSeq
<1>7. \A k \in DOMAIN q : /\ q[k].do = "delete" /\ q[k].of \in Ids
                          /\ q[k].catch = Failures /\ q[k].skip = 1
  BY <1>2, <1>4, <1>5
<1> HIDE DEF q
<1>8. LooksUp(q)
  BY <1>7 DEF LooksUp, NeedsId
<1>9. KnowsMembers(q, c)
  BY <1>7 DEF KnowsMembers, AddedBy
<1>10. ~ Creates(c)
  BY CreatesIsChange
<1>11. InOrder(q, c)
  BY <1>7, <1>10 DEF InOrder, Deeds
<1>12. QED
  BY <1>6, <1>8, <1>9, <1>11 DEF q

(* A step that succeeds: what is left, and the count of changes. *)
LEMMA NextSteps ==
    ASSUME NEW c, NEW q, IsSeq(q), q # <<>>, InOrder(q, c), KnowsMembers(q, c),
           Head(q).do = "item" => Head(q).of \in Items,
           NEW t, t = IF Head(q).do = "survey" THEN DeleteEach(Existing) ELSE Tail(q)
    PROVE  /\ IsSeq(t) /\ InOrder(t, c) /\ KnowsMembers(t, c)
           /\ LooksUp(q) /\ Head(q).do \notin {"find", "first"} => LooksUp(t)
           /\ ChangesIn(c.steps) # {} =>
                  /\ Cardinality(ChangesIn(q)) =
                        Cardinality(ChangesIn(t)) + (IF Writes(Head(q)) THEN 1 ELSE 0)
                  /\ Cardinality(ChangesIn(t)) \in Nat
           /\ Creates(c) /\ Writes(Head(q)) => Head(q).do = "post" /\ t = <<>>
<1> PICK S : q \in Seq(S)
  BY DEF IsSeq
<1>1. /\ Head(q) = q[1] /\ 1 \in DOMAIN q /\ Len(q) \in Nat
      /\ ChangesIn(c.steps) # {} => Head(q).do # "survey"
      /\ Creates(c) /\ Writes(Head(q)) => Head(q).do = "post" /\ 1 = Len(q)
  <2>1. Head(q) = q[1] /\ 1 \in DOMAIN q /\ Len(q) \in Nat
    BY TailFacts
  <2>2. /\ ChangesIn(c.steps) # {} => q[1].do # "survey"
        /\ Creates(c) /\ Writes(q[1]) => q[1].do = "post" /\ 1 = Len(q)
    BY <2>1, Zenon DEF InOrder
  <2>3. QED
    BY <2>1, <2>2, Zenon
<1>2. CASE Head(q).do = "survey"
  <2>1. Existing \in SUBSET Ids
    BY DEF Existing
  <2>2. ChangesIn(c.steps) = {} /\ ~ Creates(c)
    BY <1>1, <1>2, CreatesIsChange
  <2>3. t = DeleteEach(Existing)
    BY <1>2
  <2>4. IsSeq(t) /\ KnowsMembers(t, c) /\ LooksUp(t) /\ InOrder(t, c)
    BY <2>1, <2>2, <2>3, DeleteEachSteps
  <2>5. QED
    BY <2>2, <2>4
<1>3. CASE Head(q).do # "survey"
  <2>1. t = Tail(q) /\ t \in Seq(S)
    BY <1>3, TailFacts
  <2>2. IsSeq(t) /\ InOrder(t, c) /\ KnowsMembers(t, c)
    BY <2>1, TailInOrder, TailKnowsMembers DEF IsSeq
  <2>3. LooksUp(q) /\ Head(q).do \notin {"find", "first"} => LooksUp(t)
    BY <2>1, TailLooksUp
  <2>4. Cardinality(ChangesIn(q)) =
            Cardinality(ChangesIn(t)) + (IF Writes(Head(q)) THEN 1 ELSE 0)
    BY <2>1, ChangesInTail
  <2>5. Cardinality(ChangesIn(t)) \in Nat
    BY <2>1, ChangesFinite
  <2>6. 1 = Len(q) => t = <<>>
    BY <2>1, TailFacts
  <2>7. QED
    BY <1>1, <2>2, <2>3, <2>4, <2>5, <2>6, Zenon
<1>4. QED
  BY <1>2, <1>3

(* What the server has done is counted, whether or not the answer arrives. *)
LEMMA CountedJob ==
    ASSUME NEW j, JobOK(j), NEW r, NEW k, k = Counted(j, r)
    PROVE  /\ JobOK(k) /\ k.cmd = j.cmd /\ k.at = j.at /\ k.left = j.left
           /\ k.id = j.id /\ k.seen = j.seen /\ k.fails = j.fails
           /\ r.status = "ok" /\ Writes(Head(j.left)) => k.did = j.did + 1
           /\ ~ (r.status = "ok" /\ Writes(Head(j.left))) => k.did = j.did
<1>1. CASE r.status = "ok" /\ Writes(Head(j.left))
  <2> DEFINE n == j.did + 1
  <2>1. k = [j EXCEPT !.did = n]
    BY <1>1 DEF Counted
  <2>2. n \in Nat
    BY DEF JobOK, IsJob
  <2> HIDE DEF n
  <2>3. k = [cmd |-> j.cmd, at |-> j.at, left |-> j.left, id |-> j.id,
             seen |-> j.seen, fails |-> j.fails, did |-> n]
    BY <2>1 DEF JobOK, IsJob
  <2>4. /\ k.cmd = j.cmd /\ k.at = j.at /\ k.left = j.left /\ k.id = j.id
        /\ k.seen = j.seen /\ k.fails = j.fails /\ k.did = n
    BY <2>3
  <2>5. IsJob(k)
    BY <2>2, <2>3, <2>4 DEF JobOK, IsJob
  <2>6. JobOK(k)
    BY <2>4, <2>5 DEF JobOK
  <2>7. QED
    BY <1>1, <2>4, <2>6 DEF n
<1>2. CASE ~ (r.status = "ok" /\ Writes(Head(j.left)))
  <2>1. k = j
    BY <1>2 DEF Counted
  <2>2. QED
    BY <1>2, <2>1
<1>3. QED
  BY <1>1, <1>2

(* A step that succeeds.                                                   *)
LEMMA SucceededJob ==
    ASSUME NEW j, JobOK(j), j.at = "running", j.left # <<>>,
           NEW r, r.status = "ok", r.id \in Ids \cup {None}, r.seen \subseteq Items,
           Head(j.left).do \in {"find", "first"} => r.id \in Ids,
           Head(j.left).do = "item" => Head(j.left).of \in Items,
           NEW d, d = Counted(j, r), NEW k, k = Succeeded(d, r)
    PROVE  /\ JobOK(k) /\ k.cmd = j.cmd /\ k.at = "running"
           /\ ChangesIn(j.cmd.steps) # {} => Sum(k) = Sum(j)
           /\ CreatedOnce(j) => CreatedOnce(k)
<1>0. /\ JobOK(d) /\ d.cmd = j.cmd /\ d.at = j.at /\ d.left = j.left
      /\ d.id = j.id /\ d.seen = j.seen /\ d.fails = j.fails
      /\ Writes(Head(j.left)) => d.did = j.did + 1
      /\ ~ Writes(Head(j.left)) => d.did = j.did
  <2>1. JobOK(d) /\ d.cmd = j.cmd
    BY CountedJob, Zenon
  <2>2. d.at = j.at
    BY CountedJob, Zenon
  <2>3. d.left = j.left
    BY CountedJob, Zenon
  <2>4. d.id = j.id /\ d.seen = j.seen /\ d.fails = j.fails
    BY CountedJob, Zenon
  <2>5. Writes(Head(j.left)) => d.did = j.did + 1
    <3>1. ASSUME Writes(Head(j.left)) PROVE d = [j EXCEPT !.did = @ + 1]
      BY <3>1 DEF Counted
    <3>2. QED
      BY <3>1 DEF JobOK, IsJob
  <2>6. ~ Writes(Head(j.left)) => d.did = j.did
    BY DEF Counted
  <2>7. QED
    BY <2>1, <2>2, <2>3, <2>4, <2>5, <2>6
<1> DEFINE c == j.cmd
           q == j.left
           t == IF Head(q).do = "survey" THEN DeleteEach(Existing) ELSE Tail(q)
           i == IF Head(q).do \in {"find", "first"} THEN r.id ELSE j.id
           S == IF Head(q).do \in {"read", "show"} THEN r.seen ELSE j.seen
<1>1. /\ JobOK(d) /\ d.cmd = c /\ d.at = "running" /\ d.left = q
      /\ d.id = j.id /\ d.seen = j.seen /\ d.fails = j.fails
      /\ d.did = IF Writes(Head(q)) THEN j.did + 1 ELSE j.did
  BY <1>0
<1>2. /\ IsSeq(t) /\ InOrder(t, c) /\ KnowsMembers(t, c)
      /\ LooksUp(q) /\ Head(q).do \notin {"find", "first"} => LooksUp(t)
      /\ ChangesIn(c.steps) # {} =>
             /\ Cardinality(ChangesIn(q)) =
                   Cardinality(ChangesIn(t)) + (IF Writes(Head(q)) THEN 1 ELSE 0)
             /\ Cardinality(ChangesIn(t)) \in Nat
      /\ Creates(c) /\ Writes(Head(q)) => Head(q).do = "post" /\ t = <<>>
  <2>1. /\ IsSeq(q) /\ q # <<>> /\ InOrder(q, c) /\ KnowsMembers(q, c)
        /\ Head(q).do = "item" => Head(q).of \in Items
        /\ t = IF Head(q).do = "survey" THEN DeleteEach(Existing) ELSE Tail(q)
    BY DEF JobOK, IsJob
  <2> HIDE DEF c, q, t
  <2>2. QED
    BY ONLY <2>1, NextSteps, WorkloadAssumption
<1>3. k = [d EXCEPT !.id = i, !.seen = S, !.left = t]
  BY <1>1 DEF Succeeded
<1>4. i \in Ids \cup {None} /\ S \subseteq Items
  BY DEF JobOK, IsJob
<1>5. i \in Ids \/ LooksUp(t)
  BY <1>2 DEF JobOK
<1>6. j.did \in Nat /\ j.fails \in Nat /\ d.did \in Nat
  BY <1>1 DEF JobOK, IsJob
<1>7. WellFormed(c)
  BY DEF JobOK
<1> HIDE DEF t, i, S
<1>8. k = [cmd |-> c, at |-> "running", left |-> t, id |-> i, seen |-> S,
           fails |-> j.fails, did |-> d.did]
  BY <1>1, <1>3 DEF JobOK, IsJob
<1> HIDE DEF c, q
<1>9. /\ k.cmd = c /\ k.at = "running" /\ k.left = t /\ k.id = i /\ k.seen = S
      /\ k.fails = j.fails /\ k.did = d.did
  BY <1>8
<1>10. IsJob(k)
  BY <1>2, <1>4, <1>6, <1>8, <1>9 DEF IsJob
<1>11. JobOK(k)
  BY <1>2, <1>5, <1>7, <1>9, <1>10 DEF JobOK
<1>12. ASSUME ChangesIn(c.steps) # {} PROVE Sum(k) = Sum(j)
  <2>1. Sum(j) = j.did + j.fails + Cardinality(ChangesIn(q))
    BY DEF Sum, q
  <2>2. Sum(k) = d.did + j.fails + Cardinality(ChangesIn(t))
    BY <1>9 DEF Sum
  <2>3. CASE Writes(Head(q))
    BY <1>1, <1>2, <1>6, <1>12, <2>1, <2>2, <2>3
  <2>4. CASE ~ Writes(Head(q))
    BY <1>1, <1>2, <1>6, <1>12, <2>1, <2>2, <2>4
  <2>5. QED
    BY <2>3, <2>4
<1>13. ASSUME CreatedOnce(j) PROVE CreatedOnce(k)
  <2> SUFFICES ASSUME Creates(c)
               PROVE  k.did <= 1 /\ (k.left # <<>> => k.did = 0)
    BY <1>9 DEF CreatedOnce
  <2>1. j.did = 0
    BY <1>13 DEF CreatedOnce, c
  <2>2. CASE Writes(Head(q))
    BY <1>1, <1>2, <1>9, <2>1, <2>2
  <2>3. CASE ~ Writes(Head(q))
    BY <1>1, <1>9, <2>1, <2>3
  <2>4. QED
    BY <2>2, <2>3
<1>14. QED
  BY <1>9, <1>11, <1>12, <1>13 DEF c

(* The next step of a job: its resource is known, and so are the members it *)
(* adds.                                                                    *)
LEMMA NextStepKnown ==
    ASSUME NEW j, JobOK(j), j.left # <<>>
    PROVE  /\ NeedsId(Head(j.left)) => j.id \in Ids
           /\ AddedBy(Head(j.left), j.cmd) \subseteq Items
           /\ Head(j.left).do \in Deeds
           /\ Creates(j.cmd) /\ Writes(Head(j.left)) => Head(j.left).do = "post"
<1> PICK T : j.left \in Seq(T)
  BY DEF JobOK, IsJob, IsSeq
<1> DEFINE q == j.left
           c == j.cmd
<1>1. /\ q \in Seq(T) /\ q # <<>> /\ KnowsMembers(q, c) /\ InOrder(q, c)
      /\ j.id \in Ids \/ LooksUp(q)
  BY DEF JobOK
<1> HIDE DEF q, c
<1>2. Head(q) = q[1] /\ 1 \in DOMAIN q /\ 1..(1 - 1) = {}
  BY <1>1, TailFacts
<1>3. NeedsId(Head(q)) => j.id \in Ids
  BY <1>1, <1>2 DEF LooksUp
<1>4. AddedBy(Head(q), c) \subseteq Items
  BY <1>1, <1>2 DEF KnowsMembers
<1>5. Head(q).do \in Deeds
  BY <1>1, <1>2 DEF InOrder
<1>6. Creates(c) /\ Writes(Head(q)) => Head(q).do = "post"
  BY <1>1, <1>2 DEF InOrder
<1>7. QED
  BY <1>3, <1>4, <1>5, <1>6 DEF q, c

(* An answer the client and the server can take.                           *)
IsAnswer(r) ==
    /\ r.after \in [Ids -> Resource]
    /\ r.id \in Ids \cup {None}
    /\ r.seen \subseteq Items

LEMMA RefuseAnswer ==
    ASSUME res \in [Ids -> Resource], NEW why
    PROVE  IsAnswer(Refuse(why)) /\ Refuse(why).status = why
BY DEF IsAnswer, Refuse

LEMMA TellAnswer ==
    ASSUME res \in [Ids -> Resource], NEW i \in Ids \cup {None},
           NEW S \in SUBSET Items
    PROVE  IsAnswer(Tell(i, S)) /\ Tell(i, S).id = i
BY DEF IsAnswer, Tell

LEMMA ChangeAnswer ==
    ASSUME res \in [Ids -> Resource], NEW i \in Ids, NEW v \in Resource
    PROVE  IsAnswer(Change(i, v))
<1>1. [res EXCEPT ![i] = v] \in [Ids -> Resource]
  OBVIOUS
<1>2. Change(i, v) = [status |-> "ok", id |-> i, seen |-> {},
                      after |-> [res EXCEPT ![i] = v]]
  BY DEF Change
<1>3. QED
  BY <1>1, <1>2 DEF IsAnswer

LEMMA ListAnswer ==
    ASSUME res \in [Ids -> Resource], NEW n, NEW r,
           r \in Serve_first(n) \/ r \in Serve_find(n)
    PROVE  IsAnswer(r) /\ (r.status = "ok" => r.id \in Ids)
<1>1. CASE r \in Serve_first(n) /\ Named(n) # {}
  <2>1. PICK i \in Named(n) : r = Tell(i, res[i].has)
    BY <1>1 DEF Serve_first
  <2>2. i \in Ids /\ res[i].has \in SUBSET Items
    BY <2>1 DEF Named, Existing, Resource
  <2>3. QED
    BY <2>1, <2>2, TellAnswer
<1>2. CASE r \in Serve_first(n) /\ Named(n) = {}
  BY <1>2, RefuseAnswer DEF Serve_first
<1>3. CASE r \in Serve_find(n)
  <2>1. r = Refuse("NoUnique") \/ r \in Serve_first(n)
    BY <1>3 DEF Serve_find
  <2>2. CASE r = Refuse("NoUnique")
    BY <2>2, RefuseAnswer
  <2>3. QED
    BY <1>1, <1>2, <2>1, <2>2
<1>4. QED
  BY <1>1, <1>2, <1>3

LEMMA PostAnswer ==
    ASSUME res \in [Ids -> Resource], NEW c, c.to \in Names \cup {None},
           c.items \subseteq Items, NEW r \in Serve_post(c)
    PROVE  IsAnswer(r)
<1> DEFINE v == [there |-> TRUE, name |-> c.to, has |-> c.items]
<1>1. v \in Resource
  BY DEF Resource
<1>2. r = Refuse("Conflict") \/ \E i \in Ids : r = Change(i, v)
  BY DEF Serve_post
<1> HIDE DEF v
<1>3. QED
  BY <1>1, <1>2, RefuseAnswer, ChangeAnswer

LEMMA ChangedAnswer ==
    ASSUME res \in [Ids -> Resource], NEW j, j.seen \subseteq Items,
           j.cmd.to \in Names \cup {None}, NEW s, NEW i \in Ids,
           s.do \in Styles \cup {"insert", "associate", "remove", "dissociate",
                                 "configure", "withdraw", "delete", "show"},
           AddedBy(s, j.cmd) \subseteq Items, NEW r \in Serve_change(j, s, i)
    PROVE  IsAnswer(r)
<1> DEFINE old == res[i]
<1>1. old \in Resource /\ old.has \in SUBSET Items /\ old.name \in Names \cup {None}
      /\ old.there \in BOOLEAN
  BY DEF Resource
<1>2. \A S \in SUBSET Items : [old EXCEPT !.has = S] \in Resource
  BY DEF Resource
<1> HIDE DEF old
<1>3. ASSUME NEW S \in SUBSET Items, r = Change(i, [old EXCEPT !.has = S])
      PROVE  IsAnswer(r)
  <2> DEFINE v == [old EXCEPT !.has = S]
  <2>1. v \in Resource
    BY <1>2
  <2> HIDE DEF v
  <2>2. r = Change(i, v)
    BY <1>3 DEF v
  <2>3. QED
    BY <2>1, <2>2, ChangeAnswer
<1>4. CASE ~ old.there
  BY <1>4, RefuseAnswer DEF Serve_change, old
<1>5. CASE old.there /\ s.do \in Styles
  <2> DEFINE S == Written(j, s.do, old.has)
             n == IF j.cmd.to = None THEN old.name ELSE j.cmd.to
             v == [old EXCEPT !.has = S, !.name = n]
  <2>1. S \in SUBSET Items
    <3>1. s.do \in {"replace", "add"} => j.cmd.items \subseteq Items
      BY DEF AddedBy
    <3>2. QED
      BY <1>1, <1>5, <3>1 DEF Written, Styles
  <2>2. n \in Names \cup {None}
    BY <1>1
  <2>3. r = Change(i, v)
    <3>1. Serve_change(j, s, i) =
            {Change(i, [old EXCEPT
                !.has = Written(j, s.do, old.has),
                !.name = IF j.cmd.to = None THEN old.name ELSE j.cmd.to])}
      BY <1>5 DEF Serve_change, old, Styles
    <3>2. QED
      BY <3>1
  <2> HIDE DEF S, n
  <2>4. v \in Resource
    BY <1>1, <2>1, <2>2 DEF Resource
  <2> HIDE DEF v
  <2>5. QED
    BY <2>3, <2>4, ChangeAnswer
<1>6. CASE old.there /\ s.do \in {"insert", "associate"}
  <2>1. s.members \subseteq Items
    BY <1>6 DEF AddedBy
  <2>2. r = Refuse("Conflict") \/ r = Change(i, [old EXCEPT !.has = old.has \cup s.members])
    BY <1>6 DEF Serve_change, old, Styles
  <2>3. QED
    BY <1>1, <1>3, <2>1, <2>2, RefuseAnswer
<1>7. CASE old.there /\ s.do \in {"remove", "dissociate"}
  <2>1. r = Refuse("NotFound") \/ r = Change(i, [old EXCEPT !.has = old.has \ s.members])
    BY <1>7 DEF Serve_change, old, Styles
  <2>2. QED
    BY <1>1, <1>3, <2>1, RefuseAnswer
<1>8. CASE old.there /\ s.do = "configure"
  <2>1. s.members \subseteq Items
    BY <1>8 DEF AddedBy
  <2>2. r = Change(i, [old EXCEPT !.has = old.has \cup s.members])
    BY <1>8 DEF Serve_change, old, Styles
  <2>3. QED
    BY <1>1, <1>3, <2>1, <2>2
<1>9. CASE old.there /\ s.do = "withdraw"
  <2>1. r = Change(i, [old EXCEPT !.has = old.has \ s.members])
    BY <1>9 DEF Serve_change, old, Styles
  <2>2. QED
    BY <1>1, <1>3, <2>1
<1>10. CASE old.there /\ s.do = "delete"
  <2> DEFINE v == [old EXCEPT !.there = FALSE, !.has = {}]
  <2>1. r = Refuse("Conflict") \/ r = Change(i, v)
    BY <1>10 DEF Serve_change, old, Styles
  <2>2. v \in Resource
    BY <1>1 DEF Resource
  <2> HIDE DEF v
  <2>3. QED
    BY <2>1, <2>2, RefuseAnswer, ChangeAnswer
<1>11. CASE old.there /\ s.do = "show"
  <2>1. r = Tell(i, old.has)
    BY <1>11 DEF Serve_change, old, Styles
  <2>2. QED
    BY <1>1, <2>1, TellAnswer
<1>12. QED
  BY <1>1, <1>4, <1>5, <1>6, <1>7, <1>8, <1>9, <1>10, <1>11

(* What the server answers, and what its resources are then.               *)
LEMMA ServedAnswer ==
    ASSUME res \in [Ids -> Resource], NEW j, JobOK(j), j.left # <<>>,
           Head(j.left).do # "raise", NEW r \in Serve(j)
    PROVE  /\ IsAnswer(r)
           /\ r.status = "ok" /\ Head(j.left).do \in {"find", "first"} => r.id \in Ids
           /\ r.status = "ok" /\ Head(j.left).do = "item" => Head(j.left).of \in Items
<1> DEFINE s == Head(j.left)
<1>1. /\ NeedsId(s) => j.id \in Ids
      /\ AddedBy(s, j.cmd) \subseteq Items
      /\ s.do \in Deeds /\ s.do # "raise"
  BY NextStepKnown
<1>2. j.seen \subseteq Items /\ j.cmd.to \in Names \cup {None}
  BY DEF JobOK, IsJob, WellFormed
<1> HIDE DEF s
<1>3. \A i, S : r = Tell(None, {}) => IsAnswer(r)
  BY TellAnswer
<1>4. "ok" # "NotFound" /\ IsAnswer(Refuse("NotFound")) /\ Refuse("NotFound").status = "NotFound"
  BY RefuseAnswer
<1>5. CASE s.do \in {"find", "read", "first"}
  <2>1. r \in Serve_find(s.of) \/ r \in Serve_first(s.of)
    BY <1>5 DEF Serve, s
  <2>2. IsAnswer(r) /\ (r.status = "ok" => r.id \in Ids)
    BY <2>1, ListAnswer
  <2>3. QED
    BY <1>5, <2>2 DEF s
<1>6. CASE s.do = "item"
  <2>1. (r = Tell(None, {}) /\ s.of \in Items) \/ r = Refuse("NotFound")
    BY <1>6 DEF Serve, s
  <2>2. QED
    BY <1>3, <1>4, <1>6, <2>1 DEF s
<1>7. CASE s.do = "member"
  <2>1. r = Tell(None, {}) \/ r = Refuse("NotFound")
    BY <1>7 DEF Serve, s
  <2>2. QED
    BY <1>3, <1>4, <1>7, <2>1 DEF s
<1>8. CASE s.do \in {"list", "survey"}
  <2>1. r = Tell(None, {})
    BY <1>8 DEF Serve, s
  <2>2. QED
    BY <1>3, <1>8, <2>1 DEF s
<1>9. CASE s.do = "post"
  <2>1. r \in Serve_post(j.cmd)
    BY <1>9 DEF Serve, s
  <2>2. j.cmd.items \subseteq Items
    BY <1>1, <1>9 DEF AddedBy
  <2>3. IsAnswer(r)
    BY <1>2, <2>1, <2>2, PostAnswer
  <2>4. QED
    BY <1>9, <2>3 DEF s
<1>10. CASE s.do \notin {"find", "read", "first", "item", "member", "list",
                        "survey", "post"}
  <2>1. s.do \in Styles \cup {"insert", "associate", "remove", "dissociate",
                             "configure", "withdraw", "delete", "show"}
    BY <1>1, <1>10 DEF Deeds
  <2> DEFINE i == IF s.of \in Ids THEN s.of ELSE j.id
  <2>2. r \in Serve_change(j, s, i)
    BY <1>10 DEF Serve, s
  <2>3. i \in Ids
    <3>1. s.of \in Ids \/ NeedsId(s)
      BY <2>1 DEF NeedsId, Writes, Method, Styles
    <3>2. QED
      BY <1>1, <3>1
  <2> HIDE DEF i
  <2>4. IsAnswer(r)
    BY <1>1, <1>2, <2>1, <2>2, <2>3, ChangedAnswer
  <2>5. QED
    BY <1>10, <2>4 DEF s
<1>11. QED
  BY <1>5, <1>6, <1>7, <1>8, <1>9, <1>10

-------------------------------------------------------------------------------
(* All jobs *)

(* A request is the one of the next step.                                  *)
Asked(u) ==
    Pending(u) => /\ job[u].at = "running"
                  /\ job[u].left # <<>>
                  /\ Head(job[u].left).do # "raise"
                  /\ call[u].method = Method(Head(job[u].left))

(* Nothing is counted twice unless a connection broke.                     *)
JobInv(u) ==
    /\ JobOK(job[u])
    /\ Accounted(job[u])
    /\ faults = setup.faults => Exactly(job[u])
    /\ CreatedOnce(job[u])
    /\ Asked(u)

CommandInv ==
    /\ ClientInv
    /\ res \in [Ids -> Resource]
    /\ \E D : job \in [Callers -> D]
    /\ \A u \in Callers : JobInv(u)

LEMMA NewJob ==
    ASSUME NEW c, WellFormed(c)
    PROVE  /\ JobOK(Job(c)) /\ Accounted(Job(c)) /\ Exactly(Job(c))
           /\ CreatedOnce(Job(c))
<1> DEFINE j == Job(c)
<1>1. /\ j = [cmd |-> c, at |-> "ready", left |-> c.steps, id |-> None,
              seen |-> {}, fails |-> 0, did |-> 0]
  BY DEF Job
<1> HIDE DEF j
<1>2. /\ j.cmd = c /\ j.at = "ready" /\ j.left = c.steps /\ j.id = None
      /\ j.seen = {} /\ j.fails = 0 /\ j.did = 0
  BY <1>1
<1>3. c.steps \in Seq(ToSet(c.steps))
  BY DEF WellFormed
<1>4. IsJob(j)
  BY <1>1, <1>2, <1>3 DEF IsJob, IsSeq
<1>5. JobOK(j)
  BY <1>2, <1>4 DEF JobOK, WellFormed
<1>6. Cardinality(ChangesIn(c.steps)) \in Nat
  BY <1>3, ChangesFinite
<1>7. Sum(j) = Changes(c)
  BY <1>2, <1>6 DEF Sum, Changes
<1>8. QED
  BY <1>2, <1>5, <1>6, <1>7 DEF Accounted, Exactly, CreatedOnce, Changes, j

LEMMA InitCommandInv == CommandInit => CommandInv
<1> SUFFICES ASSUME CommandInit PROVE CommandInv
  OBVIOUS
<1>1. ClientInv
  BY InitClientInv DEF CommandInit
<1>2. setup \in Setups
  BY DEF CommandInit, Init
<1>3. res \in [Ids -> Resource]
  BY <1>2, WorkloadAssumption DEF CommandInit
<1>4. ASSUME NEW u \in Callers PROVE JobInv(u)
  <2>1. PICK c \in Workloads[setup.work] : job[u] = Job(c)
    BY DEF CommandInit
  <2>2. WellFormed(c)
    BY <1>2, <2>1, WorkloadAssumption
  <2>3. ~ Pending(u)
    BY DEF CommandInit, Init, Call, Pending
  <2>4. QED
    BY <2>1, <2>2, <2>3, NewJob DEF JobInv, Asked
<1>5. QED
  BY <1>1, <1>3, <1>4 DEF CommandInv, CommandInit

LEMMA FailedCounts ==
    ASSUME NEW j, JobOK(j), j.at = "running", j.left # <<>>, NEW why,
           NEW k, k = Failed(j, why)
    PROVE  /\ Accounted(j) => Accounted(k)
           /\ Exactly(j) => Exactly(k)
           /\ CreatedOnce(j) => CreatedOnce(k)
<1>1. k.cmd = j.cmd /\ k.did = j.did /\ Sum(k) = Sum(j)
  <2>1. k.cmd = j.cmd
    BY FailedJob, Zenon
  <2>2. k.did = j.did
    BY FailedJob, Zenon
  <2>3. Sum(k) = Sum(j)
    BY FailedJob, Zenon
  <2>4. QED
    BY <2>1, <2>2, <2>3
<1>2. CreatedOnce(j) => CreatedOnce(k)
  BY <1>1 DEF CreatedOnce
<1>3. QED
  BY <1>1, <1>2 DEF Accounted, Exactly

(* A new state of one job.                                                 *)
LEMMA JobChanged ==
    ASSUME CommandInv, ClientInv', NEW u \in Callers, NEW k, SetJob(u, k),
           JobOK(k), Accounted(k), CreatedOnce(k),
           faults = setup.faults /\ faults' = setup.faults => Exactly(k),
           Asked(u)', res' \in [Ids -> Resource],
           setup' = setup, faults' \in Nat, faults' <= faults,
           \A v \in Callers : v # u => call'[v] = call[v]
    PROVE  CommandInv'
<1> PICK D : job \in [Callers -> D]
  BY DEF CommandInv
<1>1. /\ job' \in [Callers -> D \cup {k}]
      /\ job'[u] = k
      /\ \A v \in Callers : v # u => job'[v] = job[v]
  BY DEF SetJob
<1>2. faults \in Nat /\ setup.faults \in Nat /\ faults <= setup.faults
  BY CallFacts DEF CommandInv
<1>3. faults' = setup'.faults => faults = setup.faults /\ faults' = setup.faults
  BY <1>2
<1>4. ASSUME NEW v \in Callers PROVE JobInv(v)'
  <2>1. CASE v = u
    <3>1. job'[v] = k /\ Asked(v)'
      BY <1>1, <2>1
    <3>2. faults' = setup'.faults => Exactly(k)
      BY <1>3
    <3>3. QED
      BY <3>1, <3>2 DEF JobInv
  <2>2. CASE v # u
    <3>1. job'[v] = job[v] /\ call'[v] = call[v]
      BY <1>1, <2>2
    <3>2. JobInv(v)
      BY DEF CommandInv
    <3>3. QED
      BY <1>3, <3>1, <3>2 DEF JobInv, Asked, Pending
  <2>3. QED
    BY <2>1, <2>2
<1>5. QED
  BY <1>1, <1>4 DEF CommandInv

(* What a step of the client does to the requests.                         *)
OneRequest(u) ==
    /\ setup' = setup /\ faults' \in Nat /\ faults' <= faults
    /\ call'[u].method = call[u].method
    /\ \A v \in Callers : v # u => call'[v] = call[v]

LEMMA ClientFacts ==
    ASSUME ClientInv, NEW u \in Callers
    PROVE  /\ call[u] \in Calls /\ faults \in Nat
           /\ Fault => faults' \in Nat /\ faults' < faults
           /\ \A c : Update(u, c) => /\ call'[u] = c
                                     /\ \A v \in Callers : v # u => call'[v] = call[v]
           /\ \A c \in Calls : /\ ConnectionFailed(u, c).method = c.method
                               /\ c.method = "POST" => ConnectionFailed(u, c).at = "broken"
<1>1. call[u] \in Calls /\ call \in [Callers -> Calls] /\ faults \in Nat
  BY CallFacts DEF ClientInv, ClientTypeOK
<1>2. Fault => faults' \in Nat /\ faults' < faults
  BY <1>1 DEF Fault
<1>3. \A c \in Calls : /\ ConnectionFailed(u, c).method = c.method
                       /\ c.method = "POST" => ConnectionFailed(u, c).at = "broken"
  BY DEF ConnectionFailed, MayRetry, RetriedMethods, Calls
<1>4. \A c : Update(u, c) => /\ call'[u] = c
                             /\ \A v \in Callers : v # u => call'[v] = call[v]
  BY <1>1 DEF Update
<1>5. QED
  BY <1>1, <1>2, <1>3, <1>4

LEMMA ClientMoves ==
    ASSUME ClientInv, NEW u \in Callers,
           \/ Authenticate(u) \/ Rejected(u) \/ NotReached(u) \/ Refused(u)
           \/ Expire(u)
    PROVE  OneRequest(u) /\ (~ Pending(u) => call' = call)
<1>1. call[u] \in Calls /\ faults \in Nat
      /\ (Fault => faults' \in Nat /\ faults' < faults)
  BY ClientFacts
<1>2. \A c : Update(u, c) /\ c.method = call[u].method
                /\ setup' = setup /\ faults' \in Nat /\ faults' <= faults
             => OneRequest(u)
  BY ClientFacts DEF OneRequest
<1>3. CASE Authenticate(u)
  <2> DEFINE c == [call[u] EXCEPT !.at = "send"]
  <2>1. c.method = call[u].method
    BY <1>1 DEF Calls
  <2>2. Update(u, c)
    BY <1>3 DEF Authenticate
  <2> HIDE DEF c
  <2>3. QED
    BY <1>1, <1>2, <1>3, <2>1, <2>2 DEF Authenticate, Pending
<1>4. CASE Rejected(u)
  <2> DEFINE c == IF call[u].again THEN [call[u] EXCEPT !.at = "broken"]
                  ELSE [call[u] EXCEPT !.at = "login", !.again = TRUE]
  <2>1. c.method = call[u].method
    BY <1>1 DEF Calls
  <2>2. Update(u, c)
    BY <1>4 DEF Rejected
  <2> HIDE DEF c
  <2>3. QED
    BY <1>1, <1>2, <1>4, <2>1, <2>2 DEF Rejected, Pending
<1>5. CASE NotReached(u)
  <2>1. ConnectionFailed(u, call[u]).method = call[u].method
    BY <1>1, ClientFacts
  <2>2. QED
    BY <1>1, <1>2, <1>5, <2>1 DEF NotReached
<1>6. CASE Refused(u)
  <2> DEFINE c == [call[u] EXCEPT !.at = "broken"]
  <2>1. c.method = call[u].method
    BY <1>1 DEF Calls
  <2>2. Update(u, c)
    BY <1>6 DEF Refused
  <2> HIDE DEF c
  <2>3. QED
    BY <1>1, <1>2, <1>6, <2>1, <2>2 DEF Refused
<1>7. CASE Expire(u)
  BY <1>1, <1>7 DEF Expire, OneRequest
<1>8. QED
  BY <1>3, <1>4, <1>5, <1>6, <1>7

LEMMA LostAnswer ==
    ASSUME ClientInv, NEW u \in Callers, AnswerLost(u)
    PROVE  /\ OneRequest(u) /\ faults' < faults
           /\ call[u].method = "POST" => call'[u].at = "broken"
<1> DEFINE c == CarriedOut(call[u])
<1>1. call[u] \in Calls /\ faults \in Nat
      /\ (Fault => faults' \in Nat /\ faults' < faults)
  BY ClientFacts
<1>2. c \in Calls /\ c.method = call[u].method
  BY <1>1, CarriedOutFacts
<1>3. Update(u, ConnectionFailed(u, c))
  BY DEF AnswerLost
<1> HIDE DEF c
<1>4. call'[u] = ConnectionFailed(u, c)
      /\ \A v \in Callers : v # u => call'[v] = call[v]
  BY <1>3, ClientFacts
<1>5. /\ ConnectionFailed(u, c).method = c.method
      /\ c.method = "POST" => ConnectionFailed(u, c).at = "broken"
  BY <1>2, ClientFacts
<1>6. QED
  BY <1>1, <1>2, <1>4, <1>5 DEF AnswerLost, OneRequest

(* The job of a request that was given up, or not.                         *)
LEMMA UnlessStep ==
    ASSUME CommandInv, ClientInv', NEW u \in Callers, OneRequest(u), Pending(u),
           NEW d, JobOK(d), d.at = "running", d.left = job[u].left,
           Accounted(d), CreatedOnce(d) \/ call'[u].at = "broken",
           CreatedOnce(d) \/ (Head(d.left).do = "post" /\ d.did <= 1),
           faults = setup.faults /\ faults' = setup.faults => Exactly(d),
           SetJob(u, Unless(u, d)), res' \in [Ids -> Resource]
    PROVE  CommandInv'
<1>1. JobInv(u) /\ Asked(u) /\ \E D : job \in [Callers -> D]
  BY DEF CommandInv, JobInv
<1>2. d.left # <<>> /\ Head(d.left).do # "raise"
      /\ call[u].method = Method(Head(d.left))
  BY <1>1 DEF Asked
<1> DEFINE k == Unless(u, d)
<1>3. CASE call'[u].at = "broken"
  <2>1. k = Failed(d, "Broken")
    BY <1>3 DEF Unless
  <2> HIDE DEF k
  <2>2. /\ JobOK(k) /\ k.did = d.did
        /\ Head(d.left).do = "post" => k.at = "failed"
    <3>1. JobOK(k)
      BY <1>2, <2>1, FailedJob, Zenon
    <3>2. k.did = d.did
      BY <1>2, <2>1, FailedJob
    <3>3. Head(d.left).do = "post" => k.at = "failed"
      BY <1>2, <2>1, FailedJob, Zenon
    <3>4. QED
      BY <3>1, <3>2, <3>3
  <2>3. Accounted(k) /\ (Exactly(d) => Exactly(k)) /\ (CreatedOnce(d) => CreatedOnce(k))
    <3>1. Accounted(k)
      BY <1>2, <2>1, FailedCounts, Zenon
    <3>2. Exactly(d) => Exactly(k)
      BY <1>2, <2>1, FailedCounts, Zenon
    <3>3. CreatedOnce(d) => CreatedOnce(k)
      BY <1>2, <2>1, FailedCounts, Zenon
    <3>4. QED
      BY <3>1, <3>2, <3>3
  <2>4. CreatedOnce(k)
    BY <2>2, <2>3 DEF CreatedOnce
  <2>5. Asked(u)'
    BY <1>3 DEF Asked, Pending
  <2>6. SetJob(u, k)
    BY DEF k
  <2>7. QED
    BY <2>2, <2>3, <2>4, <2>5, <2>6, JobChanged DEF OneRequest
<1>4. CASE call'[u].at # "broken"
  <2>1. k = d
    BY <1>4 DEF Unless
  <2>2. SetJob(u, d)
    BY <2>1 DEF k
  <2>3. job'[u] = d
    BY <1>1, <2>2 DEF SetJob
  <2>4. Asked(u)'
    BY <1>2, <2>3 DEF Asked, OneRequest
  <2>5. CreatedOnce(d)
    BY <1>4
  <2>6. QED
    BY <2>2, <2>4, <2>5, JobChanged DEF OneRequest
<1>5. QED
  BY <1>3, <1>4

LEMMA NextCommandInv == CommandInv /\ [CommandNext]_vars => CommandInv'
<1> SUFFICES ASSUME CommandInv, [CommandNext]_vars PROVE CommandInv'
  OBVIOUS
<1>1. ClientInv /\ ClientInv' /\ res \in [Ids -> Resource]
      /\ \E D : job \in [Callers -> D]
  BY CommandStepIsClientStep, NextClientInv DEF CommandInv
<1>2. ASSUME NEW u \in Callers PROVE JobInv(u) /\ JobOK(job[u])
  BY DEF CommandInv, JobInv
<1>3. faults \in Nat /\ setup.faults \in Nat /\ faults <= setup.faults
  BY <1>1, ClientAssumption DEF ClientInv, ClientTypeOK, Circumstances
<1>4. CASE UNCHANGED vars
  BY <1>1, <1>4 DEF CommandInv, JobInv, Asked, Pending, vars, clientVars
<1>5. ASSUME NEW u \in Callers, NEW a \in {"running", "done", "failed"},
             SetJob(u, [job[u] EXCEPT !.at = a]), UNCHANGED <<clientVars, res>>,
             ~ Pending(u), a = "done" => job[u].left = <<>>,
             a = "failed" => job[u].left # <<>>,
             job[u].at \in {"ready", "running"}
      PROVE  CommandInv'
  <2> DEFINE j == job[u]
             k == [j EXCEPT !.at = a]
  <2>1. JobOK(j) /\ JobInv(u)
    BY <1>2
  <2> HIDE DEF j
  <2>2. k = [cmd |-> j.cmd, at |-> a, left |-> j.left, id |-> j.id,
             seen |-> j.seen, fails |-> j.fails, did |-> j.did]
    BY <2>1 DEF JobOK, IsJob
  <2> HIDE DEF k
  <2>3. /\ k.cmd = j.cmd /\ k.at = a /\ k.left = j.left /\ k.id = j.id
        /\ k.seen = j.seen /\ k.fails = j.fails /\ k.did = j.did
    BY <2>2
  <2>4. IsJob(k)
    BY <2>1, <2>2, <2>3 DEF JobOK, IsJob
  <2>5. a = "done" => j.left = <<>>
    BY <1>5 DEF j
  <2>6. a = "failed" => j.left # <<>>
    BY <1>5 DEF j
  <2>7. JobOK(k)
    BY <2>1, <2>3, <2>4, <2>5, <2>6 DEF JobOK
  <2>8. Sum(k) = Sum(j)
    BY <2>3 DEF Sum
  <2>9. Accounted(j) /\ (faults = setup.faults => Exactly(j)) /\ CreatedOnce(j)
    BY <2>1 DEF JobInv, j
  <2>10. Accounted(k) /\ (faults = setup.faults => Exactly(k))
    BY <2>3, <2>8, <2>9 DEF Accounted, Exactly
  <2>11. j.at \in {"ready", "running"}
    BY <1>5 DEF j
  <2>12. CreatedOnce(k)
    BY <2>3, <2>9, <2>11 DEF CreatedOnce
  <2>13. SetJob(u, k)
    BY <1>5 DEF j, k
  <2>14. Asked(u)'
    BY <1>5 DEF Asked, Pending, clientVars
  <2>15. /\ setup' = setup /\ faults' = faults /\ call' = call /\ res' = res
    BY <1>5 DEF clientVars
  <2>16. QED
    BY <1>1, <1>3, <2>7, <2>10, <2>12, <2>13, <2>14, <2>15, JobChanged
<1>6. ASSUME NEW u \in Callers, Start(u) PROVE CommandInv'
  <2>1. ~ Pending(u)
    BY <1>2, <1>6 DEF Start, JobInv, Asked
  <2>2. QED
    BY <1>5, <1>6, <2>1 DEF Start
<1>7. ASSUME NEW u \in Callers, Fails(u) PROVE CommandInv'
  BY <1>5, <1>7 DEF Fails, Running
<1>8. ASSUME NEW u \in Callers, Finish(u) PROVE CommandInv'
  BY <1>5, <1>8 DEF Finish, Running
<1>9. ASSUME NEW u \in Callers, NextStep(u) PROVE CommandInv'
  <2>1. /\ job' = job /\ res' = res /\ setup' = setup /\ faults' = faults
        /\ Update(u, Call(Method(Head(job[u].left)), FirstPhase(u)))
    BY <1>9 DEF NextStep, Issue
  <2>2. /\ call'[u] = Call(Method(Head(job[u].left)), FirstPhase(u))
        /\ \A v \in Callers : v # u => call'[v] = call[v]
    BY <1>1, <2>1, ClientFacts
  <2>3. call'[u].method = Method(Head(job[u].left))
    BY <2>2 DEF Call
  <2>4. Asked(u)'
    BY <1>9, <2>1, <2>3 DEF Asked, NextStep, Running
  <2>5. ASSUME NEW v \in Callers PROVE JobInv(v)'
    <3>1. Asked(v)'
      BY <1>2, <2>1, <2>2, <2>4 DEF JobInv, Asked, Pending
    <3>2. QED
      BY <1>2, <2>1, <3>1 DEF JobInv
  <2>6. QED
    BY <1>1, <2>1, <2>5 DEF CommandInv
<1>10. ASSUME NEW u \in Callers, ClientStep(u) PROVE CommandInv'
  <2>1. OneRequest(u) /\ (~ Pending(u) => call' = call) /\ res' = res
    BY <1>1, <1>10, ClientMoves DEF ClientStep
  <2>2. JobInv(u)
    BY <1>2
  <2>3. CASE Pending(u)
    <3>1. SetJob(u, Unless(u, job[u]))
      BY <1>10, <2>3 DEF ClientStep
    <3>2. job[u].at = "running"
      BY <2>2, <2>3 DEF JobInv, Asked
    <3> DEFINE d == job[u]
    <3>3. /\ JobOK(d) /\ Accounted(d) /\ CreatedOnce(d)
          /\ faults = setup.faults => Exactly(d)
      BY <2>2 DEF JobInv
    <3>4. d.at = "running" /\ SetJob(u, Unless(u, d)) /\ d.left = job[u].left
      BY <3>1, <3>2
    <3>5. res' \in [Ids -> Resource]
      BY <1>1, <2>1
    <3> HIDE DEF d
    <3>6. /\ CreatedOnce(d) \/ call'[u].at = "broken"
          /\ CreatedOnce(d) \/ (Head(d.left).do = "post" /\ d.did <= 1)
          /\ faults = setup.faults /\ faults' = setup.faults => Exactly(d)
      BY <3>3, Zenon
    <3>7. OneRequest(u) /\ Pending(u) /\ ClientInv'
      BY <1>1, <2>1, <2>3
    <3>8. QED
      BY <3>3, <3>4, <3>5, <3>6, <3>7, UnlessStep
  <2>4. CASE ~ Pending(u)
    <3>1. job' = job /\ call' = call /\ setup' = setup /\ faults' \in Nat /\ faults' <= faults
      BY <1>10, <2>1, <2>4 DEF ClientStep, OneRequest
    <3>2. faults' = setup'.faults => faults = setup.faults
      BY <1>3, <3>1
    <3>3. ASSUME NEW v \in Callers PROVE JobInv(v)'
      BY <1>2, <3>1, <3>2 DEF JobInv, Asked, Pending
    <3>4. QED
      BY <1>1, <2>1, <3>1, <3>3 DEF CommandInv
  <2>5. QED
    BY <2>3, <2>4
<1>11. ASSUME NEW u \in Callers, Served(u) PROVE CommandInv'
  <2>1. PICK r \in Serve(job[u]) : res' = r.after
                                  /\ SetJob(u, After(Counted(job[u], r), r))
    BY <1>11 DEF Served
  <2> DEFINE j == job[u]
             d == Counted(j, r)
             k == After(d, r)
  <2>2. Pending(u) /\ setup' = setup /\ faults' = faults
        /\ Update(u, [CarriedOut(call[u]) EXCEPT !.at = "answered"])
    BY <1>11 DEF Served, Answered, CanServe, Pending
  <2>3. /\ JobInv(u) /\ JobOK(j) /\ j.at = "running" /\ j.left # <<>>
        /\ Head(j.left).do # "raise"
    BY <1>2, <2>2 DEF JobInv, Asked
  <2>4. /\ IsAnswer(r)
        /\ r.status = "ok" /\ Head(j.left).do \in {"find", "first"} => r.id \in Ids
        /\ r.status = "ok" /\ Head(j.left).do = "item" => Head(j.left).of \in Items
    BY <1>1, <2>1, <2>3, ServedAnswer
  <2>5. call'[u].at = "answered" /\ \A v \in Callers : v # u => call'[v] = call[v]
    <3> DEFINE c == [CarriedOut(call[u]) EXCEPT !.at = "answered"]
    <3>1. CarriedOut(call[u]) \in Calls
      BY <1>1, CallFacts, CarriedOutFacts
    <3>2. c.at = "answered"
      BY <3>1 DEF Calls
    <3> HIDE DEF c
    <3>3. call'[u] = c /\ \A v \in Callers : v # u => call'[v] = call[v]
      BY <1>1, <2>2, ClientFacts DEF c
    <3>4. QED
      BY <3>2, <3>3
  <2>6. Asked(u)'
    BY <2>5 DEF Asked, Pending
  <2>7. Accounted(j) /\ (faults = setup.faults => Exactly(j)) /\ CreatedOnce(j)
    BY <2>3 DEF JobInv
  <2>8. SetJob(u, k)
    BY <2>1
  <2> HIDE DEF j, d, k
  <2>9. /\ JobOK(k) /\ (Accounted(j) => Accounted(k)) /\ (Exactly(j) => Exactly(k))
        /\ (CreatedOnce(j) => CreatedOnce(k))
    <3>1. CASE r.status = "ok"
      <4>1. k = Succeeded(d, r) /\ d = Counted(j, r)
        BY <3>1 DEF k, After, d
      <4>2. /\ r.id \in Ids \cup {None} /\ r.seen \subseteq Items
            /\ Head(j.left).do \in {"find", "first"} => r.id \in Ids
            /\ Head(j.left).do = "item" => Head(j.left).of \in Items
        BY <2>4, <3>1 DEF IsAnswer
      <4>3. /\ JobOK(k) /\ k.cmd = j.cmd
            /\ ChangesIn(j.cmd.steps) # {} => Sum(k) = Sum(j)
            /\ CreatedOnce(j) => CreatedOnce(k)
        BY <2>3, <3>1, <4>1, <4>2, SucceededJob
      <4>4. QED
        BY <4>3 DEF Accounted, Exactly
    <3>2. CASE r.status # "ok"
      <4>1. d = j
        BY <3>2 DEF d, Counted
      <4>2. k = Failed(j, r.status)
        BY <3>2, <4>1 DEF k, After
      <4>3. QED
        BY <2>3, <4>2, FailedJob, FailedCounts
    <3>3. QED
      BY <3>1, <3>2
  <2>10. res' \in [Ids -> Resource]
    BY <2>1, <2>4 DEF IsAnswer
  <2>11. QED
    BY <1>1, <1>3, <2>2, <2>5, <2>6, <2>7, <2>8, <2>9, <2>10, JobChanged
<1>12. ASSUME NEW u \in Callers, ServedInVain(u) PROVE CommandInv'
  <2>1. PICK r \in Serve(job[u]) : res' = r.after
                                  /\ SetJob(u, Unless(u, Counted(job[u], r)))
    BY <1>12 DEF ServedInVain
  <2> DEFINE j == job[u]
             d == Counted(j, r)
  <2>2. /\ Pending(u) /\ OneRequest(u) /\ faults' < faults
        /\ call[u].method = "POST" => call'[u].at = "broken"
    BY <1>1, <1>12, LostAnswer DEF ServedInVain, AnswerLost, CanServe, Pending
  <2>3. /\ JobInv(u) /\ JobOK(j) /\ j.at = "running" /\ j.left # <<>>
        /\ Head(j.left).do # "raise" /\ call[u].method = Method(Head(j.left))
    BY <1>2, <2>2 DEF JobInv, Asked
  <2>4. res' \in [Ids -> Resource]
    BY <1>1, <2>1, <2>3, ServedAnswer DEF IsAnswer
  <2>5. Accounted(j) /\ CreatedOnce(j)
    BY <2>3 DEF JobInv
  <2>6. ~ (faults = setup.faults /\ faults' = setup.faults)
    BY <1>3, <2>2 DEF OneRequest
  <2>7. SetJob(u, Unless(u, d))
    BY <2>1
  <2> HIDE DEF j, d
  <2>8. /\ JobOK(d) /\ d.cmd = j.cmd /\ d.at = "running" /\ d.left = j.left
        /\ d.fails = j.fails
        /\ d.did = j.did \/ (d.did = j.did + 1 /\ Writes(Head(j.left)))
    <3>1. JobOK(d) /\ d.cmd = j.cmd
      BY <2>3, CountedJob DEF d
    <3>2. d.at = j.at /\ d.left = j.left /\ d.fails = j.fails
      BY <2>3, CountedJob DEF d
    <3>3. ASSUME r.status = "ok" /\ Writes(Head(j.left))
          PROVE  d.did = j.did + 1
      <4>1. d = [j EXCEPT !.did = @ + 1]
        BY <3>3 DEF d, Counted
      <4>2. QED
        BY <2>3, <4>1 DEF JobOK, IsJob
    <3>4. ASSUME ~ (r.status = "ok" /\ Writes(Head(j.left)))
          PROVE  d.did = j.did
      BY <3>4 DEF d, Counted
    <3>5. d.at = "running"
      BY <2>3, <3>2
    <3>6. QED
      BY <3>1, <3>2, <3>3, <3>4, <3>5, Zenon
  <2>9. Accounted(d)
    <3>1. j.did \in Nat /\ j.fails \in Nat /\ IsSeq(j.left)
      BY <2>3 DEF JobOK, IsJob
    <3>2. Cardinality(ChangesIn(j.left)) \in Nat
      BY <3>1, ChangesFinite DEF IsSeq
    <3>3. /\ Sum(j) = j.did + j.fails + Cardinality(ChangesIn(j.left))
          /\ Sum(d) = d.did + j.fails + Cardinality(ChangesIn(j.left))
      BY <2>8 DEF Sum
    <3>4. SUFFICES ASSUME ChangesIn(j.cmd.steps) # {}
                   PROVE  Sum(d) >= Changes(j.cmd)
      BY <2>8 DEF Accounted
    <3>5. Sum(j) >= Changes(j.cmd)
      BY <2>5, <3>4 DEF Accounted
    <3>6. Changes(j.cmd) \in Nat
      <4>1. j.cmd.steps \in Seq(ToSet(j.cmd.steps))
        BY <2>3 DEF JobOK, WellFormed
      <4>2. QED
        BY <4>1, ChangesFinite DEF Changes
    <3>7. QED
      BY <2>8, <3>1, <3>2, <3>3, <3>5, <3>6
  <2>10. CreatedOnce(d) \/ (Head(d.left).do = "post" /\ d.did <= 1)
    <3>1. CASE d.did = j.did
      <4>1. d.cmd = j.cmd /\ d.at = j.at /\ d.left = j.left /\ d.did = j.did
        BY <2>3, <2>8, <3>1
      <4>2. CreatedOnce(d)
        BY <2>5, <4>1 DEF CreatedOnce
      <4>3. QED
        BY <4>2
    <3>2. CASE ~ Creates(j.cmd)
      <4>1. d.cmd = j.cmd
        BY <2>8
      <4>2. CreatedOnce(d)
        BY <3>2, <4>1 DEF CreatedOnce
      <4>3. QED
        BY <4>2
    <3>3. CASE d.did = j.did + 1 /\ Creates(j.cmd) /\ Writes(Head(j.left))
      <4>1. Head(j.left).do = "post"
        BY <2>3, <3>3, NextStepKnown
      <4>2. j.did = 0
        BY <2>3, <2>5, <3>3 DEF CreatedOnce
      <4>3. QED
        BY <2>8, <3>3, <4>1, <4>2
    <3>4. QED
      BY <2>8, <3>1, <3>2, <3>3
  <2>11. CreatedOnce(d) \/ call'[u].at = "broken"
    <3>1. Head(j.left).do = "post" => Method(Head(j.left)) = "POST"
      BY DEF Method, Styles
    <3>2. QED
      BY <2>2, <2>3, <2>8, <2>10, <3>1
  <2>12. d.left = job[u].left
    BY <2>8 DEF j
  <2>13. QED
    BY <1>1, <2>2, <2>4, <2>6, <2>7, <2>8, <2>9, <2>10, <2>11, <2>12, UnlessStep
<1>13. QED
  BY <1>4, <1>6, <1>7, <1>8, <1>9, <1>10, <1>11, <1>12 DEF CommandNext

(* A server's resources, a job and its request stay what they are meant to *)
(* be, whatever the commands: ids are known before they are used, lists    *)
(* hold members only, and a pending request is the one of the next step.   *)
THEOREM TypeCorrect == CommandSpec => []TypeOK
<1>1. CommandInv => TypeOK
  <2> SUFFICES ASSUME CommandInv, NEW u \in Callers
               PROVE  /\ ClientTypeOK /\ res \in [Ids -> Resource]
                      /\ JobOK(job[u]) /\ Asked(u)
    BY DEF TypeOK, JobOK, IsJob, Asked, Running, CommandInv, ClientInv
  <2>1. QED
    BY DEF CommandInv, JobInv, ClientInv
<1>2. CommandSpec => []CommandInv
  BY InitCommandInv, NextCommandInv, PTL DEF CommandSpec
<1>3. QED
  BY <1>1, <1>2, PTL

LEMMA CommandInvReports == CommandInv => ReportsTrue
<1> SUFFICES ASSUME CommandInv, NEW u \in Callers
             PROVE  LET j == job[u] IN
        /\ Delivered(u)
        /\ j.at = "done" => j.did + j.fails >= Changes(j.cmd)
        /\ Creates(j.cmd) => j.did <= 1
        /\ faults = setup.faults =>
              /\ j.at = "failed" /\ Changes(j.cmd) = 1 => j.did = 0
              /\ j.at = "done" /\ Changes(j.cmd) > 0 =>
                    j.did + j.fails = Changes(j.cmd)
  BY DEF ReportsTrue
<1> DEFINE j == job[u]
<1>1. Delivered(u)
  BY ClientInvDelivers DEF CommandInv, Delivery
<1>2. /\ JobOK(j) /\ Accounted(j) /\ CreatedOnce(j)
      /\ faults = setup.faults => Exactly(j)
  BY DEF CommandInv, JobInv
<1> HIDE DEF j
<1>3. /\ j.did \in Nat /\ j.fails \in Nat /\ IsSeq(j.left) /\ InOrder(j.left, j.cmd)
      /\ j.at = "done" => j.left = <<>>
      /\ j.at = "failed" => j.left # <<>>
      /\ j.cmd.steps \in Seq(ToSet(j.cmd.steps))
  BY <1>2 DEF JobOK, IsJob, WellFormed
<1>4. /\ IsFiniteSet(ChangesIn(j.cmd.steps)) /\ Changes(j.cmd) \in Nat
      /\ IsFiniteSet(ChangesIn(j.left)) /\ Cardinality(ChangesIn(j.left)) \in Nat
  BY <1>3, ChangesFinite DEF Changes, IsSeq
<1>5. ChangesIn(j.cmd.steps) = {} <=> Changes(j.cmd) = 0
  BY <1>4, FS_EmptySet DEF Changes
<1>6. ASSUME j.at = "done" PROVE Sum(j) = j.did + j.fails
  <2>1. ChangesIn(j.left) = {}
    BY <1>3, <1>6 DEF ChangesIn
  <2>2. Cardinality(ChangesIn(j.left)) = 0
    BY <2>1, FS_EmptySet
  <2>3. QED
    BY <1>3, <2>2 DEF Sum
<1>7. ASSUME j.at = "failed", ChangesIn(j.cmd.steps) # {}
      PROVE  Cardinality(ChangesIn(j.left)) >= 1
  <2> DEFINE q == j.left
  <2>1. PICK S : q \in Seq(S)
    BY <1>3 DEF IsSeq
  <2>2. q # <<>> /\ InOrder(q, j.cmd)
    BY <1>3, <1>7
  <2> HIDE DEF q
  <2>3. Len(q) \in DOMAIN q /\ 1 \in DOMAIN q
    BY <2>1, <2>2, TailFacts
  <2>4. Writes(q[Len(q)])
    BY <1>7, <2>2, <2>3 DEF InOrder
  <2>5. ChangesIn(q) # {}
    BY <2>3, <2>4 DEF ChangesIn
  <2>6. Cardinality(ChangesIn(q)) # 0
    BY <1>4, <2>5, FS_EmptySet DEF q
  <2>7. QED
    BY <1>4, <2>6 DEF q
<1>8. ASSUME j.at = "done" PROVE j.did + j.fails >= Changes(j.cmd)
  <2>1. CASE ChangesIn(j.cmd.steps) = {}
    BY <1>3, <1>5, <2>1
  <2>2. CASE ChangesIn(j.cmd.steps) # {}
    BY <1>2, <1>6, <1>8, <2>2 DEF Accounted
  <2>3. QED
    BY <2>1, <2>2
<1>9. Creates(j.cmd) => j.did <= 1
  BY <1>2 DEF CreatedOnce
<1>10. ASSUME faults = setup.faults, j.at = "failed", Changes(j.cmd) = 1
       PROVE  j.did = 0
  <2>1. ChangesIn(j.cmd.steps) # {}
    BY <1>5, <1>10
  <2>2. Sum(j) = 1
    BY <1>2, <1>10, <2>1 DEF Exactly
  <2>3. Cardinality(ChangesIn(j.left)) >= 1
    BY <1>7, <1>10, <2>1
  <2>4. QED
    BY <1>3, <1>4, <2>2, <2>3 DEF Sum
<1>11. ASSUME faults = setup.faults, j.at = "done", Changes(j.cmd) > 0
       PROVE  j.did + j.fails = Changes(j.cmd)
  <2>1. ChangesIn(j.cmd.steps) # {}
    BY <1>5, <1>11
  <2>2. QED
    BY <1>2, <1>6, <1>11, <2>1 DEF Exactly
<1>12. QED
  BY <1>1, <1>8, <1>9, <1>10, <1>11 DEF j

(* What a command reports is true of the server: a command that ends well  *)
(* has made each of its changes or counted it as failed, a creation (v2_0/ *)
(* client.py:310) has made one at most, and where no connection broke the  *)
(* report is exact - for any number of callers, retries and faults and any *)
(* commands of the shape the classes have.                                 *)
THEOREM ReportsAreTrue == CommandSpec => []ReportsTrue
<1>1. CommandSpec => []CommandInv
  BY InitCommandInv, NextCommandInv, PTL DEF CommandSpec
<1>2. QED
  BY <1>1, CommandInvReports, PTL


-------------------------------------------------------------------------------
(* No command changes what its user has not named *)

(* What is left of a command: every step stays with it, and what it writes *)
(* back it has read late enough.                                           *)
Fits(q, c) ==
    /\ \A k \in DOMAIN q : /\ StaysWith(q[k], c)
                           /\ WritesBack(q[k]) => NeedsQuiet(c)
                           /\ q[k].do = "post" => Creates(c)
    /\ ReadsLate(q, c)

HasLookup(q) == \E k \in DOMAIN q : q[k].do \in {"find", "first"}

HasRead(q) == \E k \in DOMAIN q : q[k].do = "read"

(* t is left when q was, after steps that read no list.                    *)
Continues(t, q) ==
    /\ q = <<>> => t = <<>>
    /\ HasLookup(t) => HasLookup(q)
    /\ HasRead(t) => HasRead(q)
    /\ ReadsFirst(q) => ReadsFirst(t)

LEMMA TailFits ==
    ASSUME NEW c, NEW S, NEW q \in Seq(S), q # <<>>, Fits(q, c)
    PROVE  /\ Fits(Tail(q), c)
           /\ HasLookup(Tail(q)) => HasLookup(q)
           /\ HasRead(Tail(q)) => HasRead(q)
<1> DEFINE t == Tail(q)
<1>1. /\ Len(q) \in Nat /\ DOMAIN q = 1..Len(q) /\ DOMAIN t = 1..(Len(q) - 1)
      /\ \A k \in DOMAIN t : t[k] = q[k + 1]
  BY TailFacts
<1> HIDE DEF t
<1>2. \A k \in DOMAIN t : k \in Nat \ {0} /\ k + 1 \in DOMAIN q
  BY <1>1
<1>3. \A k \in DOMAIN t : /\ StaysWith(t[k], c)
                          /\ WritesBack(t[k]) => NeedsQuiet(c)
                          /\ t[k].do = "post" => Creates(c)
  BY <1>1, <1>2 DEF Fits
<1>4. ASSUME NEW k \in DOMAIN t
      PROVE  /\ Reads(t[k]) =>
                    \A g \in DOMAIN t : k < g => t[g].do \notin {"find", "first"}
             /\ Reads(t[k]) \/ WritesBack(t[k]) =>
                    \A f \in 1..(k - 1) : ~ Writes(t[f])
             /\ t[k].do = "read" => c.names = {t[k].of}
  <2>1. t[k] = q[k + 1] /\ k + 1 \in DOMAIN q /\ k \in Nat \ {0}
    BY <1>1, <1>2
  <2>2. ASSUME Reads(t[k]), NEW g \in DOMAIN t, k < g
        PROVE  t[g].do \notin {"find", "first"}
    <3>1. t[g] = q[g + 1] /\ g + 1 \in DOMAIN q /\ k + 1 < g + 1
      BY <1>1, <1>2, <2>1, <2>2
    <3>2. QED
      BY <2>1, <2>2, <3>1 DEF Fits, ReadsLate
  <2>3. ASSUME Reads(t[k]) \/ WritesBack(t[k]), NEW f \in 1..(k - 1)
        PROVE  ~ Writes(t[f])
    <3>1. f \in DOMAIN t /\ t[f] = q[f + 1] /\ f + 1 \in 1..((k + 1) - 1)
      BY <1>1, <2>1
    <3>2. QED
      BY <2>1, <2>3, <3>1 DEF Fits, ReadsLate
  <2>4. t[k].do = "read" => c.names = {t[k].of}
    BY <2>1 DEF Fits, ReadsLate
  <2>5. QED
    BY <2>2, <2>3, <2>4
<1>5. Fits(t, c)
  BY <1>3, <1>4 DEF Fits, ReadsLate
<1>6. QED
  BY <1>1, <1>2, <1>5 DEF HasLookup, HasRead, t

(* A step that reads no list leaves no list to be read first.              *)
LEMMA TailReadsFirst ==
    ASSUME NEW S, NEW q \in Seq(S), q # <<>>, ReadsFirst(q), ~ Reads(Head(q))
    PROVE  ReadsFirst(Tail(q))
<1> SUFFICES ASSUME NEW k \in DOMAIN Tail(q), WritesBack(Tail(q)[k])
             PROVE  \E f \in 1..(k - 1) : Reads(Tail(q)[f])
  BY DEF ReadsFirst
<1>1. k + 1 \in DOMAIN q /\ Tail(q)[k] = q[k + 1] /\ k \in 1..(Len(q) - 1)
      /\ Len(q) \in Nat
  BY TailFacts
<1>2. PICK f \in 1..((k + 1) - 1) : Reads(q[f])
  BY <1>1 DEF ReadsFirst
<1>3. f # 1
  BY <1>2, TailFacts
<1>4. f - 1 \in 1..(k - 1) /\ Tail(q)[f - 1] = q[(f - 1) + 1] /\ (f - 1) + 1 = f
  BY <1>1, <1>2, <1>3, TailFacts
<1>5. QED
  BY <1>2, <1>4

LEMMA TailContinues ==
    ASSUME NEW c, NEW S, NEW q \in Seq(S), q # <<>>, Fits(q, c), ~ Reads(Head(q))
    PROVE  Continues(Tail(q), q)
BY TailFits, TailReadsFirst DEF Continues

LEMMA ContinuesTwice ==
    ASSUME NEW q, NEW t, NEW w, Continues(t, q), Continues(w, t)
    PROVE  Continues(w, q)
BY DEF Continues

LEMMA WritesReadsNothing ==
    ASSUME NEW s, Writes(s)
    PROVE  /\ ~ Reads(s) /\ s.do \notin {"find", "first", "read", "survey"}
           /\ Method(s) # "GET"
BY DEF Writes, Method, Reads, Styles

(* Once a command changes something it reads no list any more, and no step *)
(* but the first writes one back.                                          *)
LEMMA ChangingSteps ==
    ASSUME NEW c, NEW S, NEW q \in Seq(S), q # <<>>, Fits(q, c), Writes(Head(q))
    PROVE  /\ ~ HasRead(q)
           /\ ~ ReadsFirst(q) => WritesBack(Head(q))
           /\ WritesBack(Head(q)) => ~ ReadsFirst(q)
           /\ ReadsFirst(Tail(q))
<1>1. /\ Len(q) \in Nat /\ DOMAIN q = 1..Len(q) /\ 1 \in DOMAIN q /\ Head(q) = q[1]
      /\ DOMAIN Tail(q) = 1..(Len(q) - 1)
      /\ \A k \in DOMAIN Tail(q) : Tail(q)[k] = q[k + 1]
  BY TailFacts
<1>2. \A k \in DOMAIN q : Reads(q[k]) \/ WritesBack(q[k]) => k = 1
  <2> SUFFICES ASSUME NEW k \in DOMAIN q, Reads(q[k]) \/ WritesBack(q[k]), k # 1
               PROVE  FALSE
    OBVIOUS
  <2>1. 1 \in 1..(k - 1)
    BY <1>1
  <2>2. ~ Writes(q[1])
    BY <2>1 DEF Fits, ReadsLate
  <2>3. QED
    BY <1>1, <2>2
<1>3. ~ Reads(q[1])
  BY <1>1, WritesReadsNothing
<1>4. ~ HasRead(q)
  BY <1>2, <1>3 DEF HasRead, Reads
<1>5. ~ ReadsFirst(q) => WritesBack(Head(q))
  BY <1>1, <1>2 DEF ReadsFirst
<1>6. WritesBack(Head(q)) => ~ ReadsFirst(q)
  BY <1>1 DEF ReadsFirst
<1>7. ASSUME NEW k \in DOMAIN Tail(q) PROVE ~ WritesBack(Tail(q)[k])
  <2>1. k + 1 \in DOMAIN q /\ k + 1 # 1 /\ Tail(q)[k] = q[k + 1]
    BY <1>1
  <2>2. QED
    BY <1>2, <2>1
<1>8. ReadsFirst(Tail(q))
  BY <1>7 DEF ReadsFirst
<1>9. QED
  BY <1>4, <1>5, <1>6, <1>8

(* After a list has been read no resource is looked up.                    *)
LEMMA ReadLast ==
    ASSUME NEW c, NEW S, NEW q \in Seq(S), q # <<>>, Fits(q, c), Reads(Head(q))
    PROVE  /\ ~ HasLookup(Tail(q))
           /\ Head(q).do = "read" => HasRead(q) /\ c.names = {Head(q).of}
           /\ Head(q).do = "show" => Head(q).of = None
<1>1. /\ 1 \in DOMAIN q /\ Head(q) = q[1] /\ Len(q) \in Nat
      /\ DOMAIN q = 1..Len(q) /\ DOMAIN Tail(q) = 1..(Len(q) - 1)
      /\ \A k \in DOMAIN Tail(q) : Tail(q)[k] = q[k + 1]
  BY TailFacts
<1>2. \A k \in DOMAIN Tail(q) : k + 1 \in DOMAIN q /\ 1 < k + 1
  BY <1>1
<1>3. \A g \in DOMAIN q : 1 < g => q[g].do \notin {"find", "first"}
  BY <1>1 DEF Fits, ReadsLate
<1>4. ~ HasLookup(Tail(q))
  BY <1>1, <1>2, <1>3 DEF HasLookup
<1>5. Head(q).do = "read" => HasRead(q) /\ c.names = {Head(q).of}
  BY <1>1 DEF HasRead, Fits, ReadsLate
<1>6. Head(q).do = "show" => Head(q).of = None
  BY <1>1 DEF Fits, StaysWith
<1>7. QED
  BY <1>4, <1>5, <1>6

(* A list that is to be written back without a look-up of its resource: it *)
(* is known which.                                                         *)
LEMMA IdBeforeList ==
    ASSUME NEW c, NEW S, NEW q \in Seq(S), Fits(q, c), ~ ReadsFirst(q), ~ HasLookup(q)
    PROVE  /\ ~ LooksUp(q)
           /\ NeedsQuiet(c)
<1>1. PICK k \in DOMAIN q : WritesBack(q[k])
  BY DEF ReadsFirst
<1>2. StaysWith(q[k], c) /\ NeedsQuiet(c)
  BY <1>1 DEF Fits
<1>3. q[k].of = None /\ None \notin Ids
  BY <1>1, <1>2, WorkloadAssumption DEF StaysWith, WritesBack
<1>4. NeedsId(q[k])
  BY <1>1, <1>3 DEF WritesBack, NeedsId, Writes, Method, Styles
<1>5. ASSUME LooksUp(q) PROVE FALSE
  <2>1. PICK f \in 1..(k - 1) : q[f].do \in {"find", "first"}
    BY <1>4, <1>5 DEF LooksUp
  <2>2. f \in DOMAIN q
    BY <1>1, <2>1
  <2>3. QED
    BY <2>1, <2>2 DEF HasLookup
<1>6. QED
  BY <1>2, <1>5

(* The steps that purge goes on with.                                      *)
LEMMA DeleteEachFits ==
    ASSUME NEW S \in SUBSET Ids
    PROVE  LET q == DeleteEach(S)
           IN  Fits(q, Purge) /\ ReadsFirst(q) /\ ~ HasRead(q)
<1> DEFINE q == DeleteEach(S)
<1>1. \A k \in DOMAIN q : q[k].do = "delete"
  BY DEF DeleteEach, Step
<1> HIDE DEF q
<1>2. Purge.to = None
  BY DEF Purge, Command
<1>3. ASSUME NEW k \in DOMAIN q PROVE StaysWith(q[k], Purge)
  BY <1>1, <1>2 DEF StaysWith, Styles
<1>4. \A k \in DOMAIN q : ~ Reads(q[k]) /\ ~ WritesBack(q[k])
  BY <1>1 DEF Reads, WritesBack
<1>5. ReadsLate(q, Purge)
  BY <1>1, <1>4 DEF ReadsLate
<1>6. QED
  BY <1>1, <1>3, <1>4, <1>5 DEF Fits, ReadsFirst, HasRead, q

Busy(j) == j.at = "running" /\ j.left # <<>>

(* The resource a job works on has a name its user has given.              *)
IdKnown(j, rs) ==
    Busy(j) /\ j.id \in Ids =>
        /\ rs[j.id].name \in Names
        /\ rs[j.id].name \in j.cmd.names \cup {j.cmd.to}
        /\ HasRead(j.left) => rs[j.id].name \in j.cmd.names

(* Members S, as they were read, and T, as they are.                       *)
Between(c, S, T) ==
    /\ c.style = "add" => S \subseteq T /\ T \subseteq S \cup c.items
    /\ c.style = "cut" => T \subseteq S /\ S \subseteq T \cup c.items

(* A list that has been read and not yet been written back is still true   *)
(* of the server, or, if the writing is tried again, differs from it by    *)
(* members the user has given.                                             *)
ListKnown(j, rs) ==
    Busy(j) /\ ~ ReadsFirst(j.left) =>
        /\ j.id \in Ids /\ ~ HasLookup(j.left)
        /\ rs[j.id].there => Between(j.cmd, j.seen, rs[j.id].has)

NamesIn(c, rs) ==
    c.names \cup ({c.to} \ {None}) \cup {rs[i].name : i \in c.names \cap Ids}

Clash(c, d, rs) ==
    /\ NeedsQuiet(c) \/ NeedsQuiet(d)
    /\ NamesIn(c, rs) \cap NamesIn(d, rs) # {}

HaveNames(rs) == \A i \in Ids : rs[i].there => rs[i].name \in Names

(* What the next step of j does to the server: it makes resource i out of  *)
(* nothing, or changes it to v.                                            *)
Posted(j, i, v) ==
    /\ Head(j.left).do = "post"
    /\ res[i] = Unused
    /\ v = [there |-> TRUE, name |-> j.cmd.to, has |-> j.cmd.items]

Target(j) == IF Head(j.left).of \in Ids THEN Head(j.left).of ELSE j.id

Adding == {"insert", "associate", "configure"}
Removing == {"remove", "dissociate", "withdraw"}

Changed(j, i, v) ==
    LET s == Head(j.left)
        old == res[i]
    IN  /\ Writes(s) /\ s.do # "post" /\ i = Target(j) /\ old.there
        /\ v.name = old.name \/ (j.cmd.to # None /\ v.name = j.cmd.to)
        /\ \/ s.do \in Styles /\ v.there /\ v.has = Written(j, s.do, old.has)
           \/ s.do \in Adding /\ v.there /\ v.has = old.has \cup s.members
           \/ s.do \in Removing /\ v.there /\ v.has = old.has \ s.members
           \/ s.do = "delete" /\ ~ v.there /\ v.has = {}

(* What the resources may be after it.                                     *)
Leads(j, rs) ==
    \/ rs = res
    \/ \E i \in Ids : \E v : /\ Posted(j, i, v) \/ Changed(j, i, v)
                             /\ rs = [res EXCEPT ![i] = v]

LEMMA PostEffect ==
    ASSUME res \in [Ids -> Resource], NEW j, Head(j.left).do = "post",
           NEW r \in Serve_post(j.cmd)
    PROVE  Leads(j, r.after)
<1> DEFINE v == [there |-> TRUE, name |-> j.cmd.to, has |-> j.cmd.items]
<1>1. r = Refuse("Conflict") \/ \E i \in Ids : res[i] = Unused /\ r = Change(i, v)
  BY DEF Serve_post
<1> HIDE DEF v
<1>2. CASE r = Refuse("Conflict")
  BY <1>2 DEF Refuse, Leads
<1>3. CASE \E i \in Ids : res[i] = Unused /\ r = Change(i, v)
  <2>1. PICK i \in Ids : res[i] = Unused /\ r = Change(i, v)
    BY <1>3
  <2>2. r.after = [res EXCEPT ![i] = v]
    BY <2>1 DEF Change
  <2>3. Posted(j, i, v)
    BY <2>1 DEF Posted, v
  <2>4. QED
    BY <2>2, <2>3 DEF Leads
<1>4. QED
  BY <1>1, <1>2, <1>3

LEMMA ChangeEffect ==
    ASSUME res \in [Ids -> Resource], NEW j, NEW i \in Ids, i = Target(j),
           NEW s, s = Head(j.left), Writes(s), s.do # "post",
           s.do \in Styles \cup Adding \cup Removing \cup {"delete"},
           NEW r \in Serve_change(j, s, i)
    PROVE  Leads(j, r.after)
<1> DEFINE old == res[i]
<1>1. old = [there |-> old.there, name |-> old.name, has |-> old.has]
  BY DEF Resource
<1> HIDE DEF old
<1>2. \A why : r = Refuse(why) => Leads(j, r.after)
  BY DEF Refuse, Leads
<1>3. ASSUME NEW v, r = Change(i, v), old.there,
             v.name = old.name \/ (j.cmd.to # None /\ v.name = j.cmd.to),
             \/ s.do \in Styles /\ v.there /\ v.has = Written(j, s.do, old.has)
             \/ s.do \in Adding /\ v.there /\ v.has = old.has \cup s.members
             \/ s.do \in Removing /\ v.there /\ v.has = old.has \ s.members
             \/ s.do = "delete" /\ ~ v.there /\ v.has = {}
      PROVE  Leads(j, r.after)
  <2>1. r.after = [res EXCEPT ![i] = v]
    BY <1>3 DEF Change
  <2>2. Changed(j, i, v)
    BY <1>3 DEF Changed, old
  <2>3. QED
    BY <2>1, <2>2 DEF Leads
<1>4. \A S : /\ [old EXCEPT !.has = S].name = old.name
             /\ [old EXCEPT !.has = S].there = old.there
             /\ [old EXCEPT !.has = S].has = S
  BY <1>1
<1>5. CASE ~ old.there
  BY <1>2, <1>5 DEF Serve_change, old
<1>6. CASE old.there /\ s.do \in Styles
  <2> DEFINE S == Written(j, s.do, old.has)
             n == IF j.cmd.to = None THEN old.name ELSE j.cmd.to
             v == [old EXCEPT !.has = S, !.name = n]
  <2>1. r = Change(i, v)
    BY <1>6 DEF Serve_change, old, Styles
  <2>2. n = old.name \/ (j.cmd.to # None /\ n = j.cmd.to)
    OBVIOUS
  <2> HIDE DEF S, n
  <2>3. v.name = n /\ v.there = old.there /\ v.has = S
    BY <1>1
  <2> HIDE DEF v
  <2>4. QED
    BY <1>3, <1>6, <2>1, <2>2, <2>3 DEF S
<1>7. CASE old.there /\ s.do \in Adding
  <2> DEFINE v == [old EXCEPT !.has = old.has \cup s.members]
  <2>1. r = Refuse("Conflict") \/ r = Change(i, v)
    BY <1>7 DEF Serve_change, old, Styles, Adding
  <2>2. v.name = old.name /\ v.there = old.there /\ v.has = old.has \cup s.members
    BY <1>4
  <2> HIDE DEF v
  <2>3. QED
    BY <1>2, <1>3, <1>7, <2>1, <2>2
<1>8. CASE old.there /\ s.do \in Removing
  <2> DEFINE v == [old EXCEPT !.has = old.has \ s.members]
  <2>1. r = Refuse("NotFound") \/ r = Change(i, v)
    BY <1>8 DEF Serve_change, old, Styles, Removing
  <2>2. v.name = old.name /\ v.there = old.there /\ v.has = old.has \ s.members
    BY <1>4
  <2> HIDE DEF v
  <2>3. QED
    BY <1>2, <1>3, <1>8, <2>1, <2>2
<1>9. CASE old.there /\ s.do = "delete"
  <2> DEFINE v == [old EXCEPT !.there = FALSE, !.has = {}]
  <2>1. r = Refuse("Conflict") \/ r = Change(i, v)
    BY <1>9 DEF Serve_change, old, Styles
  <2>2. v.name = old.name /\ ~ v.there /\ v.has = {}
    BY <1>1
  <2> HIDE DEF v
  <2>3. QED
    BY <1>2, <1>3, <1>9, <2>1, <2>2
<1>10. QED
  BY <1>5, <1>6, <1>7, <1>8, <1>9

(* A request leaves the server as it is, or makes or changes one resource. *)
LEMMA ServedEffect ==
    ASSUME res \in [Ids -> Resource], NEW j, JobOK(j), j.left # <<>>,
           Head(j.left).do # "raise", NEW r \in Serve(j)
    PROVE  Leads(j, r.after)
<1> DEFINE s == Head(j.left)
<1>1. (NeedsId(s) => j.id \in Ids) /\ s.do \in Deeds /\ s.do # "raise"
  BY NextStepKnown
<1> HIDE DEF s
<1>2. (\A why : r = Refuse(why) => Leads(j, r.after))
      /\ \A i, S : r = Tell(i, S) => Leads(j, r.after)
  BY DEF Refuse, Tell, Leads
<1>3. CASE s.do \in {"find", "read", "first"}
  <2>1. r \in Serve_find(s.of) \/ r \in Serve_first(s.of)
    BY <1>3 DEF Serve, s
  <2>2. r = Refuse("NoUnique") \/ r \in Serve_first(s.of)
    BY <2>1 DEF Serve_find
  <2>3. r = Refuse("NoUnique") \/ r = Refuse("NotFound")
        \/ \E i \in Named(s.of) : r = Tell(i, res[i].has)
    BY <2>2 DEF Serve_first
  <2>4. QED
    BY <1>2, <2>3
<1>4. CASE s.do \in {"item", "member", "list", "survey"}
  BY <1>2, <1>4 DEF Serve, s
<1>5. CASE s.do = "post"
  <2>1. r \in Serve_post(j.cmd) /\ Head(j.left).do = "post"
    BY <1>5 DEF Serve, s
  <2>2. QED
    BY <2>1, PostEffect
<1>6. CASE s.do \notin {"find", "read", "first", "item", "member", "list",
                        "survey", "post"}
  <2>1. r \in Serve_change(j, s, Target(j))
    BY <1>6 DEF Serve, s, Target
  <2>2. s.do \in Styles \cup Adding \cup Removing \cup {"delete", "show"}
    BY <1>1, <1>6 DEF Deeds, Adding, Removing
  <2>3. Target(j) \in Ids
    <3>1. s.of \in Ids \/ NeedsId(s)
      BY <2>2 DEF NeedsId, Writes, Method, Styles, Adding, Removing
    <3>2. Target(j) = IF s.of \in Ids THEN s.of ELSE j.id
      BY DEF Target, s
    <3>3. QED
      BY <1>1, <3>1, <3>2
  <2>4. CASE s.do = "show"
    <3>1. r = Refuse("NotFound") \/ r = Tell(Target(j), res[Target(j)].has)
      BY <2>1, <2>4 DEF Serve_change, Styles
    <3>2. QED
      BY <1>2, <3>1
  <2>5. CASE s.do # "show"
    <3>1. Writes(s) /\ s.do # "post"
      BY <1>6, <2>2, <2>5 DEF Writes, Method, Styles, Adding, Removing
    <3>2. s = Head(j.left)
      BY DEF s
    <3>3. QED
      BY <2>1, <2>2, <2>3, <2>5, <3>1, <3>2, ChangeEffect
  <2>6. QED
    BY <2>4, <2>5
<1>7. QED
  BY <1>3, <1>4, <1>5, <1>6

(* What a look-up finds has the name looked for.                           *)
LEMMA LookedUp ==
    ASSUME res \in [Ids -> Resource], NEW n, NEW r,
           r \in Serve_first(n) \/ r \in Serve_find(n), r.status = "ok"
    PROVE  \E i \in Ids : res[i].there /\ res[i].name = n
                          /\ r = Tell(i, res[i].has)
<1>1. \A why : why # "ok" /\ r = Refuse(why) => FALSE
  BY DEF Refuse
<1>2. r = Refuse("NoUnique") \/ r \in Serve_first(n)
  BY DEF Serve_find
<1>3. r \in Serve_first(n)
  BY <1>1, <1>2
<1>4. PICK i \in Named(n) : r = Tell(i, res[i].has)
  BY <1>1, <1>3 DEF Serve_first
<1>5. QED
  BY <1>4 DEF Named, Existing

(* A list that is read is that of the resource the job works on: the name  *)
(* is still the one it was found by, and nothing else has it.              *)
LEMMA ListSeen ==
    ASSUME res \in [Ids -> Resource], NEW j, JobOK(j), Busy(j),
           Fits(j.left, j.cmd), IdKnown(j, res), NEW r \in Serve(j),
           r.status = "ok", Reads(Head(j.left)), j.id \in Ids, res[j.id].there
    PROVE  r.seen = res[j.id].has
<1> DEFINE s == Head(j.left)
           i == j.id
<1> PICK S : j.left \in Seq(S)
  BY DEF JobOK, IsJob, IsSeq
<1>1. /\ s.do = "read" => HasRead(j.left) /\ j.cmd.names = {s.of}
      /\ s.do = "show" => s.of = None
  BY ReadLast DEF Busy
<1>2. s.do = "read" => res[i].name = s.of
  BY <1>1 DEF IdKnown
<1>3. i \in Ids /\ res[i].there
  OBVIOUS
<1> HIDE DEF s, i
<1>4. CASE s.do = "read"
  <2>1. r \in Serve_find(s.of)
    BY <1>4 DEF Serve, s
  <2>2. PICK g \in Ids : res[g].there /\ res[g].name = s.of /\ r = Tell(g, res[g].has)
    BY <2>1, LookedUp
  <2>3. g \in Named(s.of) /\ i \in Named(s.of)
    BY <1>2, <1>3, <1>4, <2>2 DEF Named, Existing
  <2>4. ~ (Cardinality(Named(s.of)) > 1)
    <3>1. SUFFICES ASSUME Cardinality(Named(s.of)) > 1 PROVE FALSE
      OBVIOUS
    <3>2. r = Refuse("NoUnique")
      BY <2>1, <3>1 DEF Serve_find
    <3>3. QED
      BY <3>2 DEF Refuse
  <2>5. IsFiniteSet(Named(s.of))
    <3>1. Named(s.of) \subseteq Ids
      BY DEF Named, Existing
    <3>2. QED
      BY <3>1, WorkloadAssumption, FS_Subset
  <2>6. g = i
    <3>1. Cardinality(Named(s.of)) \in Nat /\ Cardinality(Named(s.of)) # 0
      BY <2>3, <2>5, FS_CardinalityType, FS_EmptySet
    <3>2. Cardinality(Named(s.of)) = 1
      BY <2>4, <3>1
    <3>3. QED
      BY <2>3, <2>5, <3>2, FS_Singleton
  <2>7. QED
    BY <2>2, <2>6 DEF Tell, i
<1>5. CASE s.do = "show"
  <2>1. r \in Serve_change(j, s, IF s.of \in Ids THEN s.of ELSE j.id)
    BY <1>5 DEF Serve, s
  <2>2. r \in Serve_change(j, s, i)
    BY <1>1, <1>5, <2>1, WorkloadAssumption DEF i
  <2>3. r = Tell(i, res[i].has)
    BY <1>3, <1>5, <2>2 DEF Serve_change, Styles
  <2>4. QED
    BY <2>3 DEF Tell, i
<1>6. QED
  BY <1>4, <1>5 DEF Reads, s

(* What a command changes has a name its user has given, and was found by  *)
(* it, or is given by its id, or is all there is.                          *)
LEMMA TargetNamed ==
    ASSUME res \in [Ids -> Resource], NEW j, JobOK(j), Busy(j),
           Fits(j.left, j.cmd), IdKnown(j, res), HaveNames(res),
           NEW i \in Ids, NEW w, Changed(j, i, w)
    PROVE  /\ res[i].name \in Names
           /\ res[i].name \in NamesIn(j.cmd, res)
           /\ j.id = i \/ i \in j.cmd.names \/ j.cmd = Purge
           /\ Head(j.left).do = "delete" => res[i].name \in j.cmd.names
<1> DEFINE s == Head(j.left)
           c == j.cmd
<1> PICK S : j.left \in Seq(S)
  BY DEF JobOK, IsJob, IsSeq
<1>1. StaysWith(s, c)
  BY TailFacts DEF Busy, Fits
<1>2. res[i].name \in Names /\ Writes(s) /\ i = (IF s.of \in Ids THEN s.of ELSE j.id)
  BY DEF Changed, HaveNames, Target
<1>3. i = j.id => res[i].name \in c.names \cup {c.to}
  BY DEF IdKnown
<1> HIDE DEF s, c
<1>4. c = Purge => c.names = Names
  BY DEF Purge, Command
<1>5. None \notin Ids /\ None \notin Names
  BY WorkloadAssumption
<1>6. CASE s.of \in Ids
  <2>1. i \in c.names \/ c = Purge
    BY <1>1, <1>2, <1>6 DEF StaysWith
  <2>2. s.do = "delete" => c = Purge
    BY <1>1, <1>5, <1>6 DEF StaysWith
  <2>3. res[i].name \in NamesIn(c, res)
    BY <1>2, <1>4, <2>1 DEF NamesIn
  <2>4. QED
    BY <1>2, <1>4, <2>1, <2>2, <2>3 DEF c, s
<1>7. CASE s.of \notin Ids
  <2>1. i = j.id /\ res[i].name \in c.names \cup {c.to}
    BY <1>2, <1>3, <1>7
  <2>2. res[i].name \in NamesIn(c, res)
    BY <1>2, <1>5, <2>1 DEF NamesIn
  <2>3. s.do = "delete" => res[i].name \in c.names
    BY <1>1, <1>2, <1>5, <2>1 DEF StaysWith
  <2>4. QED
    BY <1>2, <2>1, <2>2, <2>3 DEF c, s
<1>8. QED
  BY <1>6, <1>7

LEMMA TargetWorked ==
    ASSUME NEW k, Busy(k), IdKnown(k, res), k.id \in Ids,
           res[k.id].name \in Names
    PROVE  res[k.id].name \in NamesIn(k.cmd, res)
BY WorkloadAssumption DEF NamesIn, IdKnown

(* A change leaves what another job knows as it is, unless the two clash.  *)
LEMMA OthersKnow ==
    ASSUME res \in [Ids -> Resource], NEW j, JobOK(j), Busy(j),
           Fits(j.left, j.cmd), IdKnown(j, res), HaveNames(res),
           NEW k, Fits(k.left, k.cmd), IdKnown(k, res), ListKnown(k, res),
           Busy(k) => ~ Clash(j.cmd, k.cmd, res),
           NEW i \in Ids, NEW w, Changed(j, i, w),
           NEW rs, rs = [res EXCEPT ![i] = w]
    PROVE  IdKnown(k, rs) /\ ListKnown(k, rs)
<1> SUFFICES ASSUME Busy(k) PROVE IdKnown(k, rs) /\ ListKnown(k, rs)
  BY DEF IdKnown, ListKnown
<1>1. rs[i] = w /\ \A g \in Ids : g # i => rs[g] = res[g]
  OBVIOUS
<1>2. CASE k.id # i
  <2>1. k.id \in Ids => rs[k.id] = res[k.id]
    BY <1>1, <1>2
  <2>2. IdKnown(k, rs)
    BY <2>1 DEF IdKnown
  <2>3. ListKnown(k, rs)
    BY <2>1 DEF ListKnown
  <2>4. QED
    BY <2>2, <2>3
<1>3. CASE k.id = i
  <2>1. res[i].name \in Names /\ res[i].name \in NamesIn(j.cmd, res)
    BY TargetNamed
  <2>2. res[i].name \in NamesIn(k.cmd, res)
    BY <1>3, <2>1, TargetWorked
  <2>3. ~ NeedsQuiet(j.cmd) /\ ~ NeedsQuiet(k.cmd)
    BY <2>1, <2>2 DEF Clash
  <2>4. w.name = res[i].name
    BY <2>3 DEF Changed, NeedsQuiet
  <2>5. IdKnown(k, rs)
    BY <1>1, <1>3, <2>4 DEF IdKnown
  <2>6. ReadsFirst(k.left)
    BY <2>3 DEF Fits, ReadsFirst
  <2>7. QED
    BY <2>5, <2>6 DEF ListKnown
<1>4. QED
  BY <1>2, <1>3

(* The job itself knows what it has changed, should it have to try again.  *)
LEMMA WriterKnows ==
    ASSUME res \in [Ids -> Resource], NEW j, JobOK(j), Busy(j),
           Fits(j.left, j.cmd), IdKnown(j, res), ListKnown(j, res),
           HaveNames(res), NEW i \in Ids, NEW w, Changed(j, i, w),
           NEW rs, rs = [res EXCEPT ![i] = w]
    PROVE  IdKnown(j, rs) /\ ListKnown(j, rs)
<1> DEFINE s == Head(j.left)
           c == j.cmd
           q == j.left
           T == j.seen
<1> PICK S : q \in Seq(S)
  BY DEF JobOK, IsJob, IsSeq
<1>1. rs[i] = w /\ \A g \in Ids : g # i => rs[g] = res[g]
  OBVIOUS
<1>2. /\ ~ HasRead(q) /\ (~ ReadsFirst(q) => WritesBack(s))
  BY ChangingSteps DEF Busy, Changed
<1>3. StaysWith(s, c)
  BY TailFacts DEF Busy, Fits
<1>4. c.to \in Names \cup {None}
  BY DEF JobOK, WellFormed
<1>5. CASE j.id # i
  <2>1. j.id \in Ids => rs[j.id] = res[j.id]
    BY <1>1, <1>5
  <2>2. IdKnown(j, rs)
    BY <2>1 DEF IdKnown
  <2>3. ListKnown(j, rs)
    BY <2>1 DEF ListKnown
  <2>4. QED
    BY <2>2, <2>3
<1>6. CASE j.id = i
  <2>1. w.name = res[i].name \/ (c.to # None /\ w.name = c.to)
    BY DEF Changed
  <2>2. res[i].name \in Names /\ res[i].name \in c.names \cup {c.to}
    BY <1>6 DEF IdKnown
  <2>3. w.name \in Names /\ w.name \in c.names \cup {c.to}
    BY <1>4, <2>1, <2>2
  <2>4. IdKnown(j, rs)
    BY <1>1, <1>2, <1>6, <2>3 DEF IdKnown
  <2>5. ASSUME ~ ReadsFirst(q) PROVE Between(c, T, w.has)
    <3>1. s.do \in {"add", "cut"} /\ s.do = c.style
      BY <1>2, <1>3, <2>5 DEF WritesBack, StaysWith, Styles
    <3>2. w.has = Written(j, s.do, res[i].has)
      BY <3>1 DEF Changed, Adding, Removing
    <3>3. CASE s.do = "add"
      <4>1. w.has = T \cup c.items
        BY <3>2, <3>3 DEF Written
      <4>2. QED
        BY <3>1, <3>3, <4>1 DEF Between
    <3>4. CASE s.do = "cut"
      <4>1. w.has = T \ c.items
        BY <3>2, <3>4 DEF Written
      <4>2. QED
        BY <3>1, <3>4, <4>1 DEF Between
    <3>5. QED
      BY <3>1, <3>3, <3>4
  <2>6. ListKnown(j, rs)
    BY <1>1, <1>6, <2>5 DEF ListKnown
  <2>7. QED
    BY <2>4, <2>6
<1>7. QED
  BY <1>5, <1>6

(* No job knows of a resource that has not been made.                      *)
LEMMA NobodyKnows ==
    ASSUME res \in [Ids -> Resource], NEW k, IdKnown(k, res), ListKnown(k, res),
           NEW i \in Ids, res[i] = Unused, NEW w,
           NEW rs, rs = [res EXCEPT ![i] = w]
    PROVE  IdKnown(k, rs) /\ ListKnown(k, rs)
<1>1. \A g \in Ids : g # i => rs[g] = res[g]
  OBVIOUS
<1>2. res[i].name \notin Names
  BY WorkloadAssumption DEF Unused
<1>3. Busy(k) /\ k.id \in Ids => rs[k.id] = res[k.id]
  BY <1>1, <1>2 DEF IdKnown
<1>4. IdKnown(k, rs)
  BY <1>3 DEF IdKnown
<1>5. ListKnown(k, rs)
  BY <1>3 DEF ListKnown
<1>6. QED
  BY <1>4, <1>5

(* A change adds no name to what a job works on, unless the two clash.     *)
LEMMA NamesKept ==
    ASSUME res \in [Ids -> Resource], NEW j, JobOK(j), Busy(j),
           Fits(j.left, j.cmd), IdKnown(j, res), HaveNames(res),
           NEW c, c = j.cmd \/ ~ Clash(j.cmd, c, res),
           NEW i \in Ids, NEW w, Changed(j, i, w),
           NEW rs, rs = [res EXCEPT ![i] = w]
    PROVE  NamesIn(c, rs) \subseteq NamesIn(c, res)
<1>1. rs[i] = w /\ \A g \in Ids : g # i => rs[g] = res[g]
  OBVIOUS
<1>2. w.name = res[i].name \/ (j.cmd.to # None /\ w.name = j.cmd.to)
  BY DEF Changed
<1>3. ASSUME i \in c.names PROVE w.name \in NamesIn(c, res)
  <2>1. res[i].name \in NamesIn(c, res) /\ res[i].name \in NamesIn(j.cmd, res)
    BY <1>3, TargetNamed DEF NamesIn
  <2>2. CASE w.name = res[i].name
    BY <2>1, <2>2
  <2>3. CASE j.cmd.to # None /\ w.name = j.cmd.to
    <3>1. NeedsQuiet(j.cmd)
      BY <2>3 DEF NeedsQuiet
    <3>2. c = j.cmd
      BY <2>1, <3>1 DEF Clash
    <3>3. QED
      BY <2>3, <3>2 DEF NamesIn
  <2>4. QED
    BY <1>2, <2>2, <2>3
<1>4. ASSUME NEW g \in c.names \cap Ids PROVE rs[g].name \in NamesIn(c, res)
  <2>1. CASE g = i
    BY <1>1, <1>3, <2>1
  <2>2. CASE g # i
    BY <1>1, <2>2 DEF NamesIn
  <2>3. QED
    BY <2>1, <2>2
<1>5. QED
  BY <1>4 DEF NamesIn

(* A resource made under a name makes two other jobs clash only if one of  *)
(* them clashed with its maker.                                            *)
LEMMA PostedApart ==
    ASSUME res \in [Ids -> Resource], NEW p, NEW c, NEW d, NeedsQuiet(p),
           p.to # None, ~ Clash(p, c, res), ~ Clash(p, d, res),
           ~ Clash(c, d, res), NEW i \in Ids, NEW w, w.name = p.to,
           NEW rs, rs = [res EXCEPT ![i] = w]
    PROVE  ~ Clash(c, d, rs)
<1>1. rs[i] = w /\ \A g \in Ids : g # i => rs[g] = res[g]
  OBVIOUS
<1>2. p.to \in NamesIn(p, res)
  BY DEF NamesIn
<1>3. p.to \notin NamesIn(c, res) /\ p.to \notin NamesIn(d, res)
  BY <1>2 DEF Clash
<1>4. \A e : /\ NamesIn(e, rs) \subseteq NamesIn(e, res) \cup {p.to}
             /\ p.to \in NamesIn(e, rs) /\ p.to \notin NamesIn(e, res) =>
                    res[i].name \in NamesIn(e, res)
  <2> SUFFICES ASSUME NEW e
               PROVE  /\ NamesIn(e, rs) \subseteq NamesIn(e, res) \cup {p.to}
                      /\ p.to \in NamesIn(e, rs) /\ p.to \notin NamesIn(e, res) =>
                             res[i].name \in NamesIn(e, res)
    OBVIOUS
  <2>1. \A g \in e.names \cap Ids :
            rs[g].name = res[g].name \/ (g = i /\ rs[g].name = p.to)
    BY <1>1
  <2>2. NamesIn(e, rs) \subseteq NamesIn(e, res) \cup {p.to}
    BY <2>1 DEF NamesIn
  <2>3. ASSUME p.to \in NamesIn(e, rs), p.to \notin NamesIn(e, res)
        PROVE  res[i].name \in NamesIn(e, res)
    <3>1. PICK g \in e.names \cap Ids : p.to = rs[g].name
      BY <2>3 DEF NamesIn
    <3>2. rs[g].name # res[g].name
      BY <2>3, <3>1 DEF NamesIn
    <3>3. g = i
      BY <2>1, <3>1, <3>2
    <3>4. QED
      BY <3>1, <3>3 DEF NamesIn
  <2>4. QED
    BY <2>2, <2>3
<1>5. SUFFICES ASSUME NEW n \in NamesIn(c, rs) \cap NamesIn(d, rs)
               PROVE  NamesIn(c, res) \cap NamesIn(d, res) # {}
  BY DEF Clash
<1>6. CASE n = p.to
  <2>1. res[i].name \in NamesIn(c, res)
    BY <1>3, <1>4, <1>6
  <2>2. res[i].name \in NamesIn(d, res)
    BY <1>3, <1>4, <1>6
  <2>3. QED
    BY <2>1, <2>2
<1>7. CASE n # p.to
  BY <1>4, <1>7
<1>8. QED
  BY <1>6, <1>7

(* A change is one the command may make.                                   *)
LEMMA ChangeAllowed ==
    ASSUME res \in [Ids -> Resource], NEW j, JobOK(j), Busy(j),
           Fits(j.left, j.cmd), IdKnown(j, res), ListKnown(j, res),
           HaveNames(res), NEW i \in Ids, NEW w, Changed(j, i, w)
    PROVE  /\ j.id = i \/ i \in j.cmd.names \/ j.cmd = Purge
           /\ Allows(j.cmd, res[i], w)
<1> DEFINE s == Head(j.left)
           c == j.cmd
           H == res[i].has
           T == j.seen
<1> PICK S : j.left \in Seq(S)
  BY DEF JobOK, IsJob, IsSeq
<1>1. StaysWith(s, c)
  BY TailFacts DEF Busy, Fits
<1>2. /\ j.id = i \/ i \in c.names \/ c = Purge
      /\ s.do = "delete" => res[i].name \in c.names
  BY TargetNamed
<1>3. H \subseteq Items
  BY DEF Resource
<1>4. WritesBack(s) => Between(c, T, H)
  <2> SUFFICES ASSUME WritesBack(s) PROVE Between(c, T, H)
    OBVIOUS
  <2>1. ~ ReadsFirst(j.left)
    BY ChangingSteps DEF Busy, Changed
  <2>2. s.of \notin Ids
    BY <1>1, WorkloadAssumption DEF StaysWith, WritesBack
  <2>3. j.id = i /\ res[i].there
    BY <2>2 DEF Changed, Target
  <2>4. QED
    BY <2>1, <2>3 DEF ListKnown
<1>5. /\ w.name = res[i].name \/ w.name = c.to
      /\ \/ s.do \in Styles /\ w.there /\ w.has = Written(j, s.do, H)
         \/ s.do \in Adding /\ w.there /\ w.has = H \cup s.members
         \/ s.do \in Removing /\ w.there /\ w.has = H \ s.members
         \/ s.do = "delete" /\ ~ w.there /\ w.has = {}
  BY DEF Changed
<1> DEFINE Added == IF c.style \in {"add", "replace"} THEN c.items ELSE {}
           Lost == CASE c.style = "cut" -> c.items
                     [] c.style = "replace" -> Items
                     [] OTHER -> {}
<1> HIDE DEF s, c, H, T
<1>6. ASSUME w.there, w.has \ H \subseteq Added, H \ w.has \subseteq Lost
      PROVE  Allows(c, res[i], w)
  BY <1>6, <1>5 DEF Allows, H
<1> SUFFICES Allows(c, res[i], w)
  BY <1>2 DEF c
<1>7. CASE s.do \in Styles
  <2>1. w.there /\ w.has = Written(j, s.do, H)
    BY <1>5, <1>7 DEF Adding, Removing, Styles
  <2>2. CASE s.do = "keep"
    <3>1. w.has = H
      BY <2>1, <2>2 DEF Written, c
    <3>2. QED
      BY <1>6, <2>1, <3>1
  <2>3. CASE s.do = "replace"
    <3>1. c.style = "replace" /\ w.has = c.items
      BY <1>1, <2>1, <2>3 DEF Written, StaysWith, Styles, c
    <3>2. QED
      BY <1>6, <1>3, <2>1, <3>1
  <2>4. CASE s.do = "add"
    <3>1. c.style = "add"
      BY <1>1, <2>4 DEF StaysWith, Styles
    <3>2. w.has = T \cup c.items
      BY <2>1, <2>4 DEF Written, c, T
    <3>3. T \subseteq H /\ H \subseteq T \cup c.items
      BY <1>4, <2>4, <3>1 DEF WritesBack, Between
    <3>4. QED
      BY <1>6, <2>1, <3>1, <3>2, <3>3
  <2>5. CASE s.do = "cut"
    <3>1. c.style = "cut"
      BY <1>1, <2>5 DEF StaysWith, Styles
    <3>2. w.has = T \ c.items
      BY <2>1, <2>5 DEF Written, c, T
    <3>3. H \subseteq T /\ T \subseteq H \cup c.items
      BY <1>4, <2>5, <3>1 DEF WritesBack, Between
    <3>4. QED
      BY <1>6, <2>1, <3>1, <3>2, <3>3
  <2>6. QED
    BY <1>7, <2>2, <2>3, <2>4, <2>5 DEF Styles
<1>8. CASE s.do \in Adding
  <2>1. w.there /\ w.has = H \cup s.members
    BY <1>5, <1>8 DEF Adding, Removing, Styles
  <2>2. c.style = "add" /\ s.members \subseteq c.items
    BY <1>1, <1>8 DEF StaysWith, Adding
  <2>3. QED
    BY <1>6, <2>1, <2>2
<1>9. CASE s.do \in Removing
  <2>1. w.there /\ w.has = H \ s.members
    BY <1>5, <1>9 DEF Adding, Removing, Styles
  <2>2. c.style = "cut" /\ s.members \subseteq c.items
    BY <1>1, <1>9 DEF StaysWith, Removing
  <2>3. QED
    BY <1>6, <2>1, <2>2
<1>10. CASE s.do = "delete"
  <2>1. ~ w.there /\ w.has = {}
    BY <1>5, <1>10 DEF Adding, Removing, Styles
  <2>2. QED
    BY <1>2, <1>5, <1>10, <2>1 DEF Allows, H
<1>11. QED
  BY <1>5, <1>7, <1>8, <1>9, <1>10

(* What a job knows it still knows when it goes on and reads no list.      *)
LEMMA GoesOn ==
    ASSUME NEW j, NEW k, NEW rs, IdKnown(j, rs), ListKnown(j, rs),
           k.cmd = j.cmd, k.id = j.id, k.seen = j.seen,
           k.at = "running" => j.at = "running",
           Continues(k.left, j.left)
    PROVE  IdKnown(k, rs) /\ ListKnown(k, rs)
<1>1. Busy(k) => Busy(j)
  BY DEF Busy, Continues
<1>2. IdKnown(k, rs)
  BY <1>1 DEF IdKnown, Continues
<1>3. ListKnown(k, rs)
  BY <1>1 DEF ListKnown, Continues
<1>4. QED
  BY <1>2, <1>3

LEMMA ContinuesSame == ASSUME NEW q PROVE Continues(q, q)
BY DEF Continues

(* The steps after one that has failed.                                    *)
LEMMA SkippedContinues ==
    ASSUME NEW c, NEW S, NEW q \in Seq(S), q # <<>>, InOrder(q, c), Fits(q, c),
           Head(q).catch # {}, NEW t, t = SubSeq(q, Head(q).skip + 1, Len(q))
    PROVE  Fits(t, c) /\ Continues(t, q) /\ Head(q).do # "post"
<1>1. /\ IF Head(q).do = "find"
         THEN Head(q).skip = 2 /\ 1 < Len(q) /\ Writes(q[1 + 1])
         ELSE Head(q).do \in {"delete", "dissociate"} /\ Head(q).skip = 1
      /\ Len(q) \in Nat /\ Head(q) = q[1]
  BY TailFacts DEF InOrder
<1>2. ~ Reads(Head(q)) /\ Head(q).do # "post"
  BY <1>1 DEF Reads
<1>3. Tail(q) \in Seq(S) /\ Fits(Tail(q), c) /\ Continues(Tail(q), q)
  BY <1>2, TailFacts, TailFits, TailContinues
<1>4. CASE Head(q).do = "find"
  <2>1. Head(q).skip = 2 /\ Len(q) >= 2 /\ Writes(q[1 + 1])
    BY <1>1, <1>4
  <2>2. t = Tail(Tail(q)) /\ Tail(q) # <<>>
    BY <2>1, SkipFacts
  <2>3. Head(Tail(q)) = q[1 + 1]
    BY <1>3, <2>1, <2>2, TailFacts
  <2>4. ~ Reads(Head(Tail(q)))
    BY <2>1, <2>3, WritesReadsNothing
  <2>5. Fits(t, c) /\ Continues(t, Tail(q))
    BY <1>3, <2>2, <2>4, TailFits, TailContinues
  <2>6. QED
    BY <1>2, <1>3, <2>5, ContinuesTwice
<1>5. CASE Head(q).do # "find"
  <2>1. t = Tail(q)
    BY <1>1, <1>5, SkipFacts
  <2>2. QED
    BY <1>2, <1>3, <2>1
<1>6. QED
  BY <1>4, <1>5

(* A step of a job that fails.                                             *)
LEMMA FailedKnows ==
    ASSUME NEW j, JobOK(j), Busy(j), Fits(j.left, j.cmd), NEW rs,
           IdKnown(j, rs), ListKnown(j, rs), NEW why,
           NEW k, k = Failed(j, why)
    PROVE  /\ k.cmd = j.cmd /\ k.at \in {"running", "failed"}
           /\ Fits(k.left, k.cmd) /\ IdKnown(k, rs) /\ ListKnown(k, rs)
           /\ Head(j.left).do = "post" => ~ Busy(k)
<1> DEFINE q == j.left
           c == j.cmd
           t == SubSeq(q, Head(q).skip + 1, Len(q))
           n == j.fails + 1
<1> PICK S : q \in Seq(S)
  BY DEF JobOK, IsJob, IsSeq
<1>1. q # <<>> /\ InOrder(q, c) /\ Fits(q, c) /\ j.at = "running"
  BY DEF JobOK, Busy
<1>2. CASE why \notin Head(q).catch
  <2>1. k = [j EXCEPT !.at = "failed"]
    BY <1>2 DEF Failed
  <2>2. /\ k.cmd = c /\ k.at = "failed" /\ k.left = q
    BY <2>1 DEF JobOK, IsJob
  <2>3. ~ Busy(k)
    BY <2>2 DEF Busy
  <2>4. QED
    BY <1>1, <2>2, <2>3 DEF IdKnown, ListKnown
<1>3. CASE why \in Head(q).catch
  <2>1. k = [j EXCEPT !.fails = n, !.left = t]
    BY <1>3 DEF Failed
  <2> HIDE DEF n, t
  <2>2. /\ k.cmd = j.cmd /\ k.at = j.at /\ k.left = t /\ k.id = j.id
        /\ k.seen = j.seen
    BY <2>1 DEF JobOK, IsJob
  <2>3. t = SubSeq(q, Head(q).skip + 1, Len(q)) /\ Head(q).catch # {}
    BY <1>3 DEF t
  <2> HIDE DEF q, c
  <2>4. Fits(t, c) /\ Continues(t, q) /\ Head(q).do # "post"
    BY <1>1, <2>3, SkippedContinues
  <2>5. IdKnown(k, rs) /\ ListKnown(k, rs)
    BY <2>2, <2>4, GoesOn DEF q
  <2>6. QED
    BY <1>1, <2>2, <2>4, <2>5 DEF q, c
<1>4. QED
  BY <1>2, <1>3

(* A list that has been read: which, and of what.                          *)
LEMMA ReaderKnows ==
    ASSUME res \in [Ids -> Resource], NEW j, JobOK(j), Busy(j),
           Fits(j.left, j.cmd), IdKnown(j, res), NEW r \in Serve(j),
           r.status = "ok", Reads(Head(j.left)),
           NEW k, JobOK(k), k.cmd = j.cmd, k.id = j.id, k.seen = r.seen,
           k.left = Tail(j.left)
    PROVE  Fits(k.left, k.cmd) /\ IdKnown(k, res) /\ ListKnown(k, res)
<1> PICK S : j.left \in Seq(S)
  BY DEF JobOK, IsJob, IsSeq
<1>1. Tail(j.left) \in Seq(S) /\ j.left # <<>>
  BY TailFacts DEF Busy
<1>2. /\ Fits(k.left, k.cmd) /\ (HasRead(k.left) => HasRead(j.left))
      /\ ~ HasLookup(k.left)
  <2>1. ~ HasLookup(Tail(j.left))
    BY <1>1, ReadLast
  <2>2. Fits(Tail(j.left), j.cmd) /\ (HasRead(Tail(j.left)) => HasRead(j.left))
    BY <1>1, TailFits
  <2>3. QED
    BY <2>1, <2>2
<1>3. IdKnown(k, res)
  BY <1>2 DEF IdKnown, Busy
<1>4. ASSUME ~ ReadsFirst(k.left) PROVE k.id \in Ids
  <2>1. ~ LooksUp(k.left)
    BY <1>1, <1>2, <1>4, IdBeforeList
  <2>2. QED
    BY <2>1 DEF JobOK
<1>5. ASSUME k.id \in Ids, res[k.id].there PROVE Between(k.cmd, k.seen, res[k.id].has)
  <2>1. k.seen = res[k.id].has
    BY <1>5, ListSeen
  <2>2. QED
    BY <2>1 DEF Between
<1>6. ListKnown(k, res)
  BY <1>2, <1>4, <1>5 DEF ListKnown
<1>7. QED
  BY <1>2, <1>3, <1>6

(* A resource that has been looked up.                                     *)
LEMMA FinderKnows ==
    ASSUME res \in [Ids -> Resource], HaveNames(res), NEW j, JobOK(j), Busy(j),
           Fits(j.left, j.cmd), ListKnown(j, res), NEW r \in Serve(j),
           r.status = "ok", Head(j.left).do \in {"find", "first"},
           NEW k, k.cmd = j.cmd, k.id = r.id, k.left = Tail(j.left)
    PROVE  Fits(k.left, k.cmd) /\ IdKnown(k, res) /\ ListKnown(k, res)
<1> DEFINE n == Head(j.left).of
<1> PICK S : j.left \in Seq(S)
  BY DEF JobOK, IsJob, IsSeq
<1>1. StaysWith(Head(j.left), j.cmd) /\ j.left # <<>> /\ HasLookup(j.left)
  BY TailFacts DEF Busy, Fits, HasLookup
<1>2. n \in j.cmd.names
  BY <1>1 DEF StaysWith
<1> HIDE DEF n
<1>3. r \in Serve_first(n) \/ r \in Serve_find(n)
  BY DEF Serve, n
<1>4. PICK i \in Ids : res[i].there /\ res[i].name = n /\ r = Tell(i, res[i].has)
  BY <1>3, LookedUp
<1>5. k.id = i /\ res[i].name \in Names
  BY <1>4 DEF Tell, HaveNames
<1>6. IdKnown(k, res)
  BY <1>2, <1>4, <1>5 DEF IdKnown
<1>7. ReadsFirst(j.left)
  BY <1>1 DEF ListKnown
<1>8. ReadsFirst(k.left) /\ Fits(k.left, k.cmd)
  BY <1>1, <1>7, TailReadsFirst, TailFits DEF Reads
<1>9. QED
  BY <1>6, <1>8 DEF ListKnown

(* A step that succeeds.                                                   *)
LEMMA SucceededFields ==
    ASSUME NEW j, JobOK(j), NEW r, NEW d, d = Counted(j, r),
           NEW k, k = Succeeded(d, r)
    PROVE  /\ k.cmd = j.cmd /\ k.at = j.at
           /\ k.id = IF Head(j.left).do \in {"find", "first"} THEN r.id ELSE j.id
           /\ k.seen = IF Head(j.left).do \in {"read", "show"} THEN r.seen ELSE j.seen
           /\ k.left = IF Head(j.left).do = "survey" THEN DeleteEach(Existing)
                       ELSE Tail(j.left)
<1> DEFINE q == j.left
           t == IF Head(q).do = "survey" THEN DeleteEach(Existing) ELSE Tail(q)
           i == IF Head(q).do \in {"find", "first"} THEN r.id ELSE j.id
           S == IF Head(q).do \in {"read", "show"} THEN r.seen ELSE j.seen
<1>1. /\ JobOK(d) /\ d.cmd = j.cmd /\ d.at = j.at /\ d.left = q /\ d.id = j.id
      /\ d.seen = j.seen
  BY CountedJob
<1>2. k = [d EXCEPT !.id = i, !.seen = S, !.left = t]
  BY <1>1 DEF Succeeded
<1> HIDE DEF t, i, S
<1>3. k.cmd = d.cmd /\ k.at = d.at /\ k.id = i /\ k.seen = S /\ k.left = t
  BY <1>1, <1>2 DEF JobOK, IsJob
<1>4. QED
  BY <1>1, <1>3 DEF t, i, S

LEMMA SucceededKnows ==
    ASSUME res \in [Ids -> Resource], HaveNames(res), NEW j, JobOK(j), Busy(j),
           Fits(j.left, j.cmd), Head(j.left).do # "raise",
           NEW r \in Serve(j), r.status = "ok", NEW rs,
           IdKnown(j, rs), ListKnown(j, rs), ~ Writes(Head(j.left)) => rs = res,
           NEW k, k = Succeeded(Counted(j, r), r)
    PROVE  /\ k.cmd = j.cmd /\ k.at = "running"
           /\ Fits(k.left, k.cmd) /\ IdKnown(k, rs) /\ ListKnown(k, rs)
           /\ Head(j.left).do = "post" => ~ Busy(k)
<1> DEFINE s == Head(j.left)
<1> PICK S : j.left \in Seq(S)
  BY DEF JobOK, IsJob, IsSeq
<1>1. /\ k.cmd = j.cmd /\ k.at = "running"
      /\ k.id = IF s.do \in {"find", "first"} THEN r.id ELSE j.id
      /\ k.seen = IF s.do \in {"read", "show"} THEN r.seen ELSE j.seen
      /\ k.left = IF s.do = "survey" THEN DeleteEach(Existing) ELSE Tail(j.left)
  BY SucceededFields DEF Busy
<1>2. JobOK(k)
  <2>1. IsAnswer(r) /\ (s.do \in {"find", "first"} => r.id \in Ids)
        /\ (s.do = "item" => s.of \in Items)
    BY ServedAnswer DEF Busy
  <2>2. QED
    BY <2>1, SucceededJob DEF IsAnswer, Busy
<1>3. j.left # <<>> /\ j.at = "running"
  BY DEF Busy
<1>4. StaysWith(s, j.cmd) /\ (s.do = "post" => Creates(j.cmd))
  BY <1>3, TailFacts DEF Fits
<1> HIDE DEF s
<1>5. (s.do \in {"find", "first", "survey"} \/ Reads(s)) => rs = res
  BY WritesReadsNothing DEF s
<1>6. CASE s.do \in {"find", "first"}
  <2>1. k.id = r.id /\ k.left = Tail(j.left) /\ rs = res
    BY <1>1, <1>5, <1>6
  <2>2. QED
    BY <1>1, <1>6, <2>1, FinderKnows DEF s
<1>7. CASE Reads(s)
  <2>1. k.id = j.id /\ k.seen = r.seen /\ k.left = Tail(j.left) /\ rs = res
    BY <1>1, <1>5, <1>7 DEF Reads
  <2>2. Fits(k.left, k.cmd) /\ IdKnown(k, rs) /\ ListKnown(k, rs)
    BY <1>1, <1>2, <1>7, <2>1, ReaderKnows DEF s
  <2>3. s.do # "post"
    BY <1>7 DEF Reads
  <2>4. QED
    BY <1>1, <2>2, <2>3 DEF s
<1>8. CASE s.do = "survey"
  <2>1. k.left = DeleteEach(Existing) /\ k.id = j.id
    BY <1>1, <1>8
  <2>2. k.cmd = Purge
    BY <1>1, <1>4, <1>8 DEF StaysWith
  <2>3. Existing \in SUBSET Ids
    BY DEF Existing
  <2>4. Fits(k.left, k.cmd) /\ ReadsFirst(k.left) /\ ~ HasRead(k.left)
    BY <2>1, <2>2, <2>3, DeleteEachFits
  <2>5. IdKnown(k, rs) /\ ListKnown(k, rs)
    BY <1>1, <1>3, <2>1, <2>4 DEF IdKnown, ListKnown, Busy
  <2>6. QED
    BY <1>1, <1>8, <2>4, <2>5 DEF s
<1>9. CASE s.do \notin {"find", "first", "survey"} /\ ~ Reads(s)
  <2>1. k.id = j.id /\ k.seen = j.seen /\ k.left = Tail(j.left)
    BY <1>1, <1>9 DEF Reads
  <2>2. Fits(k.left, k.cmd) /\ Continues(k.left, j.left)
    BY <1>1, <1>3, <1>9, <2>1, TailFits, TailContinues DEF s
  <2>3. IdKnown(k, rs) /\ ListKnown(k, rs)
    BY <1>1, <1>3, <2>1, <2>2, GoesOn
  <2>4. ASSUME s.do = "post" PROVE ~ Busy(k)
    <3>1. InOrder(j.left, j.cmd)
      BY DEF JobOK
    <3>2. Writes(s) /\ Creates(j.cmd)
      BY <1>4, <2>4 DEF Writes, Method, Styles
    <3>3. 1 \in DOMAIN j.left /\ s = j.left[1]
      BY <1>3, TailFacts DEF s
    <3>4. 1 = Len(j.left)
      BY <3>1, <3>2, <3>3, Zenon DEF InOrder
    <3>5. Tail(j.left) \in Seq(S) /\ Len(Tail(j.left)) = Len(j.left) - 1
      BY <1>3, TailFacts
    <3>6. Len(Tail(j.left)) = 0
      BY <3>4, <3>5
    <3>7. k.left = <<>>
      BY <2>1, <3>5, <3>6, EmptySeq
    <3>8. QED
      BY <3>7 DEF Busy
  <2>5. QED
    BY <1>1, <2>2, <2>3, <2>4 DEF s
<1>10. QED
  BY <1>6, <1>7, <1>8, <1>9

JobKnown(j, rs) ==
    /\ Fits(j.left, j.cmd)
    /\ j.at = "ready" => ReadsFirst(j.left) /\ j.id = None
    /\ IdKnown(j, rs) /\ ListKnown(j, rs)

Apart(rs) ==
    \A u, v \in Callers :
        u # v /\ Busy(job[u]) /\ Busy(job[v]) => ~ Clash(job[u].cmd, job[v].cmd, rs)

NamedInv ==
    /\ CommandInv
    /\ ~ setup.careless => /\ HaveNames(res)
                           /\ \A u \in Callers : JobKnown(job[u], res)
                           /\ Apart(res)

LEMMA NewJobKnown ==
    ASSUME NEW c, WellFormed(c), NEW rs
    PROVE  JobKnown(Job(c), rs) /\ ~ Busy(Job(c))
<1> DEFINE j == Job(c)
<1>1. /\ j.cmd = c /\ j.at = "ready" /\ j.left = c.steps /\ j.id = None
  BY DEF Job
<1> HIDE DEF j
<1>2. Fits(c.steps, c) /\ ReadsFirst(c.steps)
  <2>1. ASSUME NEW k \in DOMAIN c.steps, c.steps[k].do = "post" PROVE Creates(c)
    BY <2>1 DEF Creates
  <2>2. ASSUME NEW k \in DOMAIN c.steps, WritesBack(c.steps[k]) PROVE NeedsQuiet(c)
    BY <2>2 DEF NeedsQuiet, WritesBack
  <2>3. QED
    BY <2>1, <2>2 DEF Fits, WellFormed
<1>3. ~ Busy(j)
  BY <1>1 DEF Busy
<1>4. QED
  BY <1>1, <1>2, <1>3 DEF JobKnown, IdKnown, ListKnown, j

LEMMA InitNamedInv == CommandInit => NamedInv
<1> SUFFICES ASSUME CommandInit PROVE NamedInv
  OBVIOUS
<1>1. CommandInv
  BY InitCommandInv
<1>2. setup \in Setups /\ res = setup.resources
  BY DEF CommandInit, Init
<1>3. HaveNames(res)
  BY <1>2, WorkloadAssumption DEF HaveNames
<1>4. ASSUME NEW u \in Callers PROVE JobKnown(job[u], res) /\ ~ Busy(job[u])
  <2>1. PICK c \in Workloads[setup.work] : job[u] = Job(c)
    BY DEF CommandInit
  <2>2. WellFormed(c)
    BY <1>2, <2>1, WorkloadAssumption
  <2>3. QED
    BY <2>1, <2>2, NewJobKnown
<1>5. QED
  BY <1>1, <1>3, <1>4 DEF NamedInv, Apart

LEMMA SameAsOverlaps ==
    ASSUME NEW c, NEW d
    PROVE  Clash(c, d, res) <=> Overlaps(c, d)
BY DEF Clash, Overlaps, NamesIn, NamesOf

LEMMA ClashSymmetric ==
    ASSUME NEW c, NEW d, NEW rs, Clash(c, d, rs)
    PROVE  Clash(d, c, rs)
BY DEF Clash

(* What a request leaves of what is known, and whom it may concern.        *)
Harmless(u, rs) ==
    LET j == job[u]
    IN  /\ HaveNames(rs)
        /\ \A v \in Callers : IdKnown(job[v], rs) /\ ListKnown(job[v], rs)
        /\ \A v, w \in Callers :
              v # w /\ Busy(job[v]) /\ Busy(job[w])
              /\ (Head(j.left).do = "post" => v # u /\ w # u)
              => ~ Clash(job[v].cmd, job[w].cmd, rs)
        /\ ~ Writes(Head(j.left)) => rs = res
        /\ \A i \in Ids : res[i].there /\ rs[i] # res[i] =>
              /\ j.id = i \/ i \in j.cmd.names \/ j.cmd = Purge
              /\ Allows(j.cmd, res[i], rs[i])

LEMMA ChangeHarmless ==
    ASSUME NamedInv, ~ setup.careless, NEW u \in Callers, Busy(job[u]),
           NEW i \in Ids, NEW w, Changed(job[u], i, w),
           NEW rs, rs = [res EXCEPT ![i] = w]
    PROVE  Harmless(u, rs)
<1> DEFINE j == job[u]
<1>1. /\ res \in [Ids -> Resource] /\ HaveNames(res) /\ Apart(res)
      /\ \A v \in Callers : JobOK(job[v]) /\ JobKnown(job[v], res)
  BY DEF NamedInv, CommandInv, JobInv
<1>2. /\ JobOK(j) /\ Busy(j) /\ Fits(j.left, j.cmd) /\ IdKnown(j, res)
      /\ ListKnown(j, res) /\ Changed(j, i, w)
  BY <1>1 DEF JobKnown
<1>3. rs[i] = w /\ \A g \in Ids : g # i => rs[g] = res[g]
  BY <1>1
<1>4. ASSUME NEW v \in Callers, v # u, Busy(job[v])
      PROVE  ~ Clash(j.cmd, job[v].cmd, res)
  BY <1>1, <1>4 DEF Apart
<1>5. /\ j.id = i \/ i \in j.cmd.names \/ j.cmd = Purge
      /\ Allows(j.cmd, res[i], w)
  BY <1>1, <1>2, ChangeAllowed
<1>6. HaveNames(rs)
  <2>1. w.name = res[i].name \/ (j.cmd.to # None /\ w.name = j.cmd.to)
    BY <1>2 DEF Changed
  <2>2. res[i].name \in Names /\ j.cmd.to \in Names \cup {None}
    BY <1>1, <1>2 DEF Changed, HaveNames, JobOK, WellFormed
  <2>3. w.name \in Names
    BY <2>1, <2>2
  <2>4. QED
    BY <1>1, <1>3, <2>3 DEF HaveNames
<1>7. ASSUME NEW v \in Callers
      PROVE  IdKnown(job[v], rs) /\ ListKnown(job[v], rs)
  <2>1. CASE v = u
    BY <1>1, <1>2, <2>1, WriterKnows
  <2>2. CASE v # u
    <3> DEFINE k == job[v]
    <3>1. /\ Fits(k.left, k.cmd) /\ IdKnown(k, res) /\ ListKnown(k, res)
          /\ Busy(k) => ~ Clash(j.cmd, k.cmd, res)
      BY <1>1, <1>4, <2>2 DEF JobKnown
    <3> HIDE DEF j, k
    <3>2. IdKnown(k, rs) /\ ListKnown(k, rs)
      BY <1>1, <1>2, <3>1, OthersKnow
    <3>3. QED
      BY <3>2 DEF k
  <2>3. QED
    BY <2>1, <2>2
<1>8. ASSUME NEW v \in Callers, Busy(job[v])
      PROVE  NamesIn(job[v].cmd, rs) \subseteq NamesIn(job[v].cmd, res)
  <2>1. job[v].cmd = j.cmd \/ ~ Clash(j.cmd, job[v].cmd, res)
    BY <1>4, <1>8
  <2> HIDE DEF j
  <2>2. QED
    BY <1>1, <1>2, <2>1, NamesKept
<1>9. ASSUME NEW v \in Callers, NEW x \in Callers, v # x, Busy(job[v]), Busy(job[x])
      PROVE  ~ Clash(job[v].cmd, job[x].cmd, rs)
  <2>1. ~ Clash(job[v].cmd, job[x].cmd, res)
    BY <1>1, <1>9 DEF Apart
  <2>2. /\ NamesIn(job[v].cmd, rs) \subseteq NamesIn(job[v].cmd, res)
        /\ NamesIn(job[x].cmd, rs) \subseteq NamesIn(job[x].cmd, res)
    BY <1>8, <1>9
  <2>3. QED
    BY <2>1, <2>2 DEF Clash
<1>10. Writes(Head(j.left))
  BY <1>2 DEF Changed
<1>11. QED
  BY <1>3, <1>5, <1>6, <1>7, <1>9, <1>10 DEF Harmless

LEMMA PostHarmless ==
    ASSUME NamedInv, ~ setup.careless, NEW u \in Callers, Busy(job[u]),
           NEW i \in Ids, NEW w, Posted(job[u], i, w),
           NEW rs, rs = [res EXCEPT ![i] = w]
    PROVE  Harmless(u, rs)
<1> DEFINE j == job[u]
<1>1. /\ res \in [Ids -> Resource] /\ HaveNames(res) /\ Apart(res)
      /\ \A v \in Callers : JobOK(job[v]) /\ JobKnown(job[v], res)
  BY DEF NamedInv, CommandInv, JobInv
<1>2. /\ JobOK(j) /\ Busy(j) /\ Fits(j.left, j.cmd) /\ Head(j.left).do = "post"
      /\ res[i] = Unused /\ w.name = j.cmd.to
  BY <1>1 DEF JobKnown, Posted
<1>3. rs[i] = w /\ \A g \in Ids : g # i => rs[g] = res[g]
  BY <1>1
<1>4. j.cmd.to \in Names /\ j.cmd.to # None
  <2>1. PICK S : j.left \in Seq(S)
    BY <1>2 DEF JobOK, IsJob, IsSeq
  <2>2. StaysWith(Head(j.left), j.cmd)
    BY <1>2, <2>1, TailFacts DEF Busy, Fits
  <2>3. QED
    BY <1>2, <2>2 DEF StaysWith, JobOK, WellFormed
<1>5. HaveNames(rs)
  BY <1>1, <1>2, <1>3, <1>4 DEF HaveNames
<1>6. ASSUME NEW v \in Callers
      PROVE  IdKnown(job[v], rs) /\ ListKnown(job[v], rs)
  BY <1>1, <1>2, NobodyKnows DEF JobKnown
<1>7. NeedsQuiet(j.cmd)
  BY <1>4 DEF NeedsQuiet
<1>8. ASSUME NEW v \in Callers, NEW x \in Callers, v # x, Busy(job[v]), Busy(job[x]),
             v # u, x # u
      PROVE  ~ Clash(job[v].cmd, job[x].cmd, rs)
  <2>1. /\ ~ Clash(j.cmd, job[v].cmd, res) /\ ~ Clash(j.cmd, job[x].cmd, res)
        /\ ~ Clash(job[v].cmd, job[x].cmd, res)
    BY <1>1, <1>2, <1>8 DEF Apart
  <2> HIDE DEF j
  <2>2. QED
    BY <1>1, <1>2, <1>4, <1>7, <2>1, PostedApart
<1>9. Writes(Head(j.left))
  BY <1>2 DEF Writes, Method, Styles
<1>10. \A g \in Ids : res[g].there => rs[g] = res[g]
  BY <1>2, <1>3 DEF Unused
<1>11. QED
  BY <1>2, <1>5, <1>6, <1>8, <1>9, <1>10 DEF Harmless

LEMMA RequestHarmless ==
    ASSUME NamedInv, ~ setup.careless, NEW u \in Callers, Pending(u),
           NEW r \in Serve(job[u])
    PROVE  Harmless(u, r.after)
<1> DEFINE j == job[u]
           rs == r.after
<1>1. /\ res \in [Ids -> Resource] /\ HaveNames(res) /\ Apart(res)
      /\ \A v \in Callers : JobOK(job[v]) /\ JobKnown(job[v], res)
      /\ Busy(j) /\ Head(j.left).do # "raise"
  BY DEF NamedInv, CommandInv, JobInv, Asked, Busy
<1>2. Leads(j, rs)
  BY <1>1, ServedEffect DEF Busy
<1> HIDE DEF rs
<1>3. CASE rs = res
  BY <1>1, <1>3 DEF Harmless, Apart, JobKnown, rs
<1>4. CASE \E i \in Ids : \E v : /\ Posted(j, i, v) \/ Changed(j, i, v)
                                 /\ rs = [res EXCEPT ![i] = v]
  <2>1. PICK i \in Ids : \E v : /\ Posted(j, i, v) \/ Changed(j, i, v)
                                /\ rs = [res EXCEPT ![i] = v]
    BY <1>4
  <2>2. PICK v : /\ Posted(j, i, v) \/ Changed(j, i, v)
                 /\ rs = [res EXCEPT ![i] = v]
    BY <2>1
  <2>3. QED
    BY <1>1, <2>2, PostHarmless, ChangeHarmless DEF rs
<1>5. QED
  BY <1>2, <1>3, <1>4 DEF Leads

(* A job that has moved on after a request, or without one.                *)
LEMMA JobMoved ==
    ASSUME NamedInv, CommandInv', setup' = setup, NEW u \in Callers, NEW k,
           SetJob(u, k),
           ~ setup.careless =>
              /\ Harmless(u, res') \/ res' = res
              /\ JobKnown(k, res') /\ k.cmd = job[u].cmd
              /\ Busy(k) => Busy(job[u])
              /\ Head(job[u].left).do = "post" /\ res' # res => ~ Busy(k)
    PROVE  NamedInv'
<1> SUFFICES ASSUME ~ setup.careless
             PROVE  (HaveNames(res) /\ Apart(res)
                     /\ \A v \in Callers : JobKnown(job[v], res))'
  BY DEF NamedInv
<1>1. /\ HaveNames(res) /\ Apart(res) /\ (\A v \in Callers : JobKnown(job[v], res))
      /\ \E D : job \in [Callers -> D]
  BY DEF NamedInv, CommandInv
<1>2. job'[u] = k /\ \A v \in Callers : v # u => job'[v] = job[v]
  BY <1>1 DEF SetJob
<1>3. /\ Harmless(u, res') \/ res' = res
      /\ JobKnown(k, res') /\ k.cmd = job[u].cmd
      /\ Busy(k) => Busy(job[u])
      /\ Head(job[u].left).do = "post" /\ res' # res => ~ Busy(k)
  OBVIOUS
<1>4. HaveNames(res')
  BY <1>1, <1>3 DEF Harmless
<1>5. ASSUME NEW v \in Callers PROVE JobKnown(job'[v], res')
  <2>1. CASE v = u
    BY <1>2, <1>3, <2>1
  <2>2. CASE v # u
    <3>1. IdKnown(job[v], res') /\ ListKnown(job[v], res')
      BY <1>1, <1>3 DEF Harmless, JobKnown
    <3>2. QED
      BY <1>1, <1>2, <2>2, <3>1 DEF JobKnown
  <2>3. QED
    BY <2>1, <2>2
<1>6. ASSUME NEW v \in Callers
      PROVE  job'[v].cmd = job[v].cmd /\ (Busy(job'[v]) => Busy(job[v]))
  BY <1>2, <1>3
<1>7. ASSUME NEW v \in Callers, NEW x \in Callers, v # x,
             Busy(job'[v]), Busy(job'[x])
      PROVE  ~ Clash(job[v].cmd, job[x].cmd, res')
  <2>1. Busy(job[v]) /\ Busy(job[x])
    BY <1>6, <1>7
  <2>2. CASE res' = res
    BY <1>1, <1>7, <2>1, <2>2 DEF Apart
  <2>3. CASE res' # res
    <3>1. Head(job[u].left).do = "post" => v # u /\ x # u
      BY <1>2, <1>3, <1>7, <2>3
    <3>2. QED
      BY <1>3, <1>7, <2>1, <2>3, <3>1 DEF Harmless
  <2>4. QED
    BY <2>2, <2>3
<1>8. \A v, x \in Callers : v # x /\ Busy(job'[v]) /\ Busy(job'[x]) =>
          ~ Clash(job'[v].cmd, job'[x].cmd, res')
  BY <1>6, <1>7
<1>9. Apart(res)'
  BY <1>8 DEF Apart
<1>10. QED
  BY <1>4, <1>5, <1>9

LEMMA SetupStays == [Next]_clientVars => setup' = setup
BY DEF Next, clientVars, Issue, Authenticate, Rejected, Answered, AnswerLost,
       NotReached, Refused, Expire

LEMMA StateOfJob ==
    ASSUME NEW j, JobOK(j), NEW a, NEW k, k = [j EXCEPT !.at = a]
    PROVE  k.cmd = j.cmd /\ k.at = a /\ k.left = j.left /\ k.id = j.id /\ k.seen = j.seen
BY DEF JobOK, IsJob

LEMMA StartNamed ==
    ASSUME NamedInv, CommandInv', setup' = setup, NEW u \in Callers, Start(u)
    PROVE  NamedInv'
<1> SUFFICES ASSUME ~ setup.careless
             PROVE  (HaveNames(res) /\ Apart(res)
                     /\ \A v \in Callers : JobKnown(job[v], res))'
  BY DEF NamedInv
<1> DEFINE k == [job[u] EXCEPT !.at = "running"]
<1>1. /\ HaveNames(res) /\ Apart(res)
      /\ \A v \in Callers : JobKnown(job[v], res) /\ JobOK(job[v])
      /\ \E D : job \in [Callers -> D]
  BY DEF NamedInv, CommandInv, JobInv
<1>2. /\ res' = res /\ job[u].at = "ready" /\ SetJob(u, k)
      /\ \A v \in Callers : Running(v) => ~ Overlaps(job[u].cmd, job[v].cmd)
  BY DEF Start
<1>3. k.cmd = job[u].cmd /\ k.at = "running" /\ k.left = job[u].left
      /\ k.id = job[u].id /\ k.seen = job[u].seen
  BY <1>1, StateOfJob
<1> HIDE DEF k
<1>4. job'[u] = k /\ \A v \in Callers : v # u => job'[v] = job[v]
  BY <1>1, <1>2 DEF SetJob
<1>5. JobKnown(k, res)
  <2>1. Fits(k.left, k.cmd) /\ ReadsFirst(k.left) /\ k.id \notin Ids
    BY <1>1, <1>2, <1>3, WorkloadAssumption DEF JobKnown
  <2>2. QED
    BY <1>3, <2>1 DEF JobKnown, IdKnown, ListKnown
<1>6. ASSUME NEW v \in Callers, v # u, Busy(job[v])
      PROVE  ~ Clash(k.cmd, job[v].cmd, res) /\ ~ Clash(job[v].cmd, k.cmd, res)
  <2>1. ~ Overlaps(job[u].cmd, job[v].cmd)
    BY <1>2, <1>6 DEF Busy, Running
  <2>2. ~ Clash(k.cmd, job[v].cmd, res)
    BY <1>3, <2>1, SameAsOverlaps
  <2>3. QED
    BY <2>2, ClashSymmetric
<1>7. ASSUME NEW v \in Callers, NEW x \in Callers, v # x, Busy(job'[v]), Busy(job'[x])
      PROVE  ~ Clash(job'[v].cmd, job'[x].cmd, res)
  <2>1. CASE v = u
    BY <1>4, <1>6, <1>7, <2>1
  <2>2. CASE x = u
    BY <1>4, <1>6, <1>7, <2>2
  <2>3. CASE v # u /\ x # u
    BY <1>1, <1>4, <1>7, <2>3 DEF Apart
  <2>4. QED
    BY <2>1, <2>2, <2>3
<1>8. Apart(res)'
  BY <1>2, <1>7 DEF Apart
<1>9. ASSUME NEW v \in Callers PROVE JobKnown(job'[v], res')
  BY <1>1, <1>2, <1>4, <1>5
<1>10. QED
  BY <1>1, <1>2, <1>8, <1>9

LEMMA EndNamed ==
    ASSUME NamedInv, CommandInv', setup' = setup, NEW u \in Callers,
           res' = res, NEW a \in {"done", "failed"},
           SetJob(u, [job[u] EXCEPT !.at = a])
    PROVE  NamedInv'
<1> DEFINE k == [job[u] EXCEPT !.at = a]
<1>1. JobOK(job[u]) /\ (~ setup.careless => JobKnown(job[u], res))
  BY DEF NamedInv, CommandInv, JobInv
<1>2. k.cmd = job[u].cmd /\ k.at = a /\ k.left = job[u].left
  BY <1>1, StateOfJob
<1>3. SetJob(u, k)
  OBVIOUS
<1> HIDE DEF k
<1>4. ~ Busy(k)
  BY <1>2 DEF Busy
<1>5. ~ setup.careless => JobKnown(k, res')
  BY <1>1, <1>2, <1>4 DEF JobKnown, IdKnown, ListKnown
<1>6. QED
  BY <1>2, <1>3, <1>4, <1>5, JobMoved

(* A request that may have been given up.                                  *)
LEMMA UnlessNamed ==
    ASSUME NamedInv, CommandInv', setup' = setup, NEW u \in Callers, Pending(u),
           NEW d, JobOK(d), d.cmd = job[u].cmd, d.at = job[u].at,
           d.left = job[u].left, d.id = job[u].id, d.seen = job[u].seen,
           ~ setup.careless => Harmless(u, res') \/ res' = res,
           Head(d.left).do = "post" /\ res' # res => call'[u].at = "broken",
           SetJob(u, Unless(u, d))
    PROVE  NamedInv'
<1> DEFINE k == Unless(u, d)
<1>1. SetJob(u, k)
  OBVIOUS
<1>2. k = IF call'[u].at = "broken" THEN Failed(d, "Broken") ELSE d
  BY DEF Unless
<1> HIDE DEF k
<1>3. Busy(job[u]) /\ job[u].at # "ready"
  BY DEF NamedInv, CommandInv, JobInv, Asked, Busy
<1>4. ASSUME ~ setup.careless
      PROVE  /\ JobKnown(k, res') /\ k.cmd = job[u].cmd
             /\ Head(job[u].left).do = "post" /\ res' # res => ~ Busy(k)
  <2>1. /\ JobKnown(job[u], res)
        /\ Harmless(u, res') => IdKnown(job[u], res') /\ ListKnown(job[u], res')
    BY <1>4 DEF NamedInv, Harmless
  <2>2. Fits(job[u].left, job[u].cmd) /\ IdKnown(job[u], res') /\ ListKnown(job[u], res')
    BY <1>4, <2>1 DEF JobKnown
  <2>3. /\ Fits(d.left, d.cmd) /\ IdKnown(d, res') /\ ListKnown(d, res')
        /\ Busy(d) /\ d.at # "ready"
    BY <1>3, <2>2 DEF IdKnown, ListKnown, Busy
  <2>4. CASE call'[u].at = "broken"
    <3>1. k = Failed(d, "Broken")
      BY <1>2, <2>4
    <3>2. /\ k.cmd = d.cmd /\ k.at \in {"running", "failed"}
          /\ Fits(k.left, k.cmd) /\ IdKnown(k, res') /\ ListKnown(k, res')
          /\ Head(d.left).do = "post" => ~ Busy(k)
      BY <2>3, <3>1, FailedKnows
    <3>3. QED
      BY <3>2 DEF JobKnown
  <2>5. CASE call'[u].at # "broken"
    BY <1>2, <2>3, <2>5 DEF JobKnown
  <2>6. QED
    BY <2>4, <2>5
<1>5. QED
  BY <1>1, <1>3, <1>4, JobMoved

LEMMA ServedNamed ==
    ASSUME NamedInv, CommandInv', setup' = setup, NEW u \in Callers, Pending(u),
           NEW r \in Serve(job[u]), res' = r.after,
           SetJob(u, After(Counted(job[u], r), r))
    PROVE  NamedInv'
<1> DEFINE j == job[u]
           k == After(Counted(j, r), r)
<1>1. SetJob(u, k)
  OBVIOUS
<1>2. /\ r.status = "ok" => k = Succeeded(Counted(j, r), r)
      /\ r.status # "ok" => k = Failed(j, r.status)
  BY DEF After, Counted
<1> HIDE DEF k
<1>3. /\ Busy(j) /\ JobOK(j) /\ res \in [Ids -> Resource]
      /\ Head(j.left).do # "raise"
  BY DEF NamedInv, CommandInv, JobInv, Asked, Busy
<1>4. ~ setup.careless => Harmless(u, res')
  BY RequestHarmless
<1>5. ASSUME ~ setup.careless
      PROVE  /\ JobKnown(k, res') /\ k.cmd = j.cmd
             /\ Head(j.left).do = "post" => ~ Busy(k)
  <2>1. /\ Fits(j.left, j.cmd) /\ HaveNames(res)
        /\ IdKnown(j, res') /\ ListKnown(j, res')
        /\ ~ Writes(Head(j.left)) => res' = res
    BY <1>4, <1>5 DEF NamedInv, JobKnown, Harmless
  <2>2. r \in Serve(j)
    OBVIOUS
  <2> HIDE DEF j
  <2>3. /\ k.cmd = j.cmd /\ k.at \in {"running", "failed"}
        /\ Fits(k.left, k.cmd) /\ IdKnown(k, res') /\ ListKnown(k, res')
        /\ Head(j.left).do = "post" => ~ Busy(k)
    <3>1. CASE r.status = "ok"
      BY <1>2, <1>3, <2>1, <2>2, <3>1, SucceededKnows
    <3>2. CASE r.status # "ok"
      BY <1>2, <1>3, <2>1, <3>2, FailedKnows
    <3>3. QED
      BY <3>1, <3>2
  <2>4. QED
    BY <2>3 DEF JobKnown
<1>6. QED
  BY <1>1, <1>3, <1>4, <1>5, JobMoved

LEMMA NextNamedInv == NamedInv /\ [CommandNext]_vars => NamedInv'
<1> SUFFICES ASSUME NamedInv, [CommandNext]_vars PROVE NamedInv'
  OBVIOUS
<1>1. CommandInv' /\ setup' = setup
  BY NextCommandInv, CommandStepIsClientStep, SetupStays DEF NamedInv
<1>2. ASSUME job' = job, res' = res PROVE NamedInv'
  BY <1>1, <1>2 DEF NamedInv, Apart
<1>3. CASE UNCHANGED vars
  BY <1>2, <1>3 DEF vars
<1>4. ASSUME NEW u \in Callers, Start(u) PROVE NamedInv'
  BY <1>1, <1>4, StartNamed
<1>5. ASSUME NEW u \in Callers, Fails(u) PROVE NamedInv'
  BY <1>1, <1>5, EndNamed DEF Fails
<1>6. ASSUME NEW u \in Callers, Finish(u) PROVE NamedInv'
  BY <1>1, <1>6, EndNamed DEF Finish
<1>7. ASSUME NEW u \in Callers, NextStep(u) PROVE NamedInv'
  BY <1>2, <1>7 DEF NextStep
<1>8. ASSUME NEW u \in Callers, ClientStep(u) PROVE NamedInv'
  <2>1. CASE Pending(u)
    <3>1. SetJob(u, Unless(u, job[u])) /\ res' = res
      BY <1>8, <2>1 DEF ClientStep
    <3>2. JobOK(job[u])
      BY DEF NamedInv, CommandInv, JobInv
    <3>3. QED
      BY <1>1, <2>1, <3>1, <3>2, UnlessNamed
  <2>2. CASE ~ Pending(u)
    BY <1>2, <1>8, <2>2 DEF ClientStep
  <2>3. QED
    BY <2>1, <2>2
<1>9. ASSUME NEW u \in Callers, Served(u) PROVE NamedInv'
  <2>1. PICK r \in Serve(job[u]) : res' = r.after
                                  /\ SetJob(u, After(Counted(job[u], r), r))
    BY <1>9 DEF Served
  <2>2. Pending(u)
    BY <1>9 DEF Served, Answered, CanServe, Pending
  <2>3. QED
    BY <1>1, <2>1, <2>2, ServedNamed
<1>10. ASSUME NEW u \in Callers, ServedInVain(u) PROVE NamedInv'
  <2>1. PICK r \in Serve(job[u]) : res' = r.after
                                  /\ SetJob(u, Unless(u, Counted(job[u], r)))
    BY <1>10 DEF ServedInVain
  <2> DEFINE d == Counted(job[u], r)
  <2>2. Pending(u) /\ AnswerLost(u)
    BY <1>10 DEF ServedInVain, AnswerLost, CanServe, Pending
  <2>3. call[u].method = "POST" => call'[u].at = "broken"
    BY <2>2, LostAnswer DEF NamedInv, CommandInv
  <2>4. JobOK(job[u]) /\ call[u].method = Method(Head(job[u].left))
    BY <2>2 DEF NamedInv, CommandInv, JobInv, Asked
  <2>5. /\ JobOK(d) /\ d.cmd = job[u].cmd /\ d.at = job[u].at
        /\ d.left = job[u].left /\ d.id = job[u].id /\ d.seen = job[u].seen
    <3> DEFINE j == job[u]
    <3>1. d = Counted(j, r) /\ JobOK(j)
      BY <2>4
    <3> HIDE DEF d, j
    <3>2. /\ JobOK(d) /\ d.cmd = j.cmd /\ d.at = j.at
          /\ d.left = j.left /\ d.id = j.id /\ d.seen = j.seen
      BY <3>1, CountedJob
    <3>3. QED
      BY <3>2 DEF j
  <2>6. Head(d.left).do = "post" => call'[u].at = "broken"
    <3>1. \A s : s.do = "post" => Method(s) = "POST"
      BY DEF Method, Styles
    <3>2. QED
      BY <2>3, <2>4, <2>5, <3>1
  <2>7. ~ setup.careless => Harmless(u, res')
    BY <2>1, <2>2, RequestHarmless
  <2>8. SetJob(u, Unless(u, d))
    BY <2>1
  <2> HIDE DEF d
  <2>9. QED
    BY <1>1, <2>2, <2>5, <2>6, <2>7, <2>8, UnlessNamed
<1>11. QED
  BY <1>3, <1>4, <1>5, <1>6, <1>7, <1>8, <1>9, <1>10 DEF CommandNext

(* Without careless users no command changes a resource, or members, its   *)
(* user has not named, although most lists are read and written back as a  *)
(* whole (osc/v2/fwaas/firewallgroup.py:169) - for any callers, resources  *)
(* and faults, and any commands of the shape the classes have.             *)
THEOREM OnlyNamedChange == CommandSpec => ChangesOnlyNamed
<1> DEFINE Kept == ~ setup.careless =>
              \A i \in Ids : res[i].there /\ res'[i] # res[i] =>
                  \E u \in Callers : /\ Running(u)
                                     /\ \/ job[u].id = i
                                        \/ i \in job[u].cmd.names
                                        \/ job[u].cmd = Purge
                                     /\ Allows(job[u].cmd, res[i], res'[i])
<1>1. NamedInv /\ [CommandNext]_vars => [Kept]_vars
  <2> SUFFICES ASSUME NamedInv, CommandNext, ~ setup.careless,
                      NEW i \in Ids, res[i].there, res'[i] # res[i]
               PROVE  \E u \in Callers : /\ Running(u)
                                         /\ \/ job[u].id = i
                                            \/ i \in job[u].cmd.names
                                            \/ job[u].cmd = Purge
                                         /\ Allows(job[u].cmd, res[i], res'[i])
    OBVIOUS
  <2>1. PICK u \in Callers : Served(u) \/ ServedInVain(u)
    BY DEF CommandNext, Start, NextStep, Fails, Finish, ClientStep
  <2>2. PICK r \in Serve(job[u]) : res' = r.after
    BY <2>1 DEF Served, ServedInVain
  <2>3. Pending(u)
    BY <2>1 DEF Served, ServedInVain, Answered, AnswerLost, CanServe, Pending
  <2>4. Harmless(u, res')
    BY <2>2, <2>3, RequestHarmless
  <2>5. Running(u)
    BY <2>3 DEF NamedInv, CommandInv, JobInv, Asked, Running
  <2>6. QED
    BY <2>4, <2>5 DEF Harmless
<1>2. CommandSpec => []NamedInv
  BY InitNamedInv, NextNamedInv, PTL DEF CommandSpec
<1>3. QED
  BY <1>1, <1>2, PTL DEF CommandSpec, ChangesOnlyNamed

-------------------------------------------------------------------------------
(* The classes are well formed whatever their options *)

IsSteps(q) == q \in Seq(ToSet(q))

(* A step that only looks at what the user has named. *)
Look(s, c) ==
    /\ s.do \in {"find", "first", "read", "show", "item", "member", "list", "raise"}
    /\ s.catch = {}
    /\ StaysWith(s, c)
    /\ s.do = "read" => c.names = {s.of}

FindsIn(q) == \E k \in DOMAIN q : q[k].do \in {"find", "first"}
ReadsIn(q) == \E k \in DOMAIN q : Reads(q[k])
ItemsIn(q) == {q[k].of : k \in {f \in DOMAIN q : q[f].do = "item"}}

(* What a command does before its change. *)
Preamble(q, c) ==
    /\ IsSteps(q)
    /\ \A k \in DOMAIN q :
        /\ Look(q[k], c)
        /\ q[k].do \in {"show", "member"} =>
              \E f \in 1 .. (k - 1) : q[f].do \in {"find", "first"}
        /\ q[k].do \in {"find", "first"} => \A f \in 1 .. (k - 1) : ~ Reads(q[f])

(* t is q, followed by r. *)
Spliced(t, q, r) ==
    /\ IsSteps(t)
    /\ Len(q) \in Nat /\ Len(r) \in Nat
    /\ DOMAIN q = 1 .. Len(q) /\ DOMAIN r = 1 .. Len(r)
    /\ DOMAIN t = 1 .. (Len(q) + Len(r))
    /\ \A k \in DOMAIN q : k \in DOMAIN t /\ t[k] = q[k]
    /\ \A k \in DOMAIN r : Len(q) + k \in DOMAIN t /\ t[Len(q) + k] = r[k]
    /\ \A k \in DOMAIN t : k \in DOMAIN q \/ \E f \in DOMAIN r : k = Len(q) + f

LEMMA AreSteps ==
    ASSUME NEW n \in Nat, NEW S, NEW t \in [1 .. n -> S]
    PROVE  IsSteps(t)
<1>1. t \in [1 .. n -> ToSet(t)]
  BY DEF ToSet
<1>2. [1 .. n -> ToSet(t)] \subseteq Seq(ToSet(t))
  BY SeqDef
<1>3. t \in Seq(ToSet(t))
  BY <1>1, <1>2
<1>4. QED
  BY <1>3 DEF IsSteps

LEMMA Together ==
    ASSUME NEW q, NEW r, NEW t, IsSteps(q), IsSteps(r), t = q \o r
    PROVE  Spliced(t, q, r)
<1> DEFINE S == ToSet(q) \cup ToSet(r)
           n == Len(q) + Len(r)
<1>1. q \in Seq(S) /\ r \in Seq(S)
  BY SeqMonotonic DEF IsSteps
<1>2. /\ t \in Seq(S) /\ Len(t) = Len(q) + Len(r)
      /\ \A i \in 1 .. Len(q) + Len(r) :
            t[i] = IF i <= Len(q) THEN q[i] ELSE r[i - Len(q)]
  BY <1>1, ConcatProperties
<1>3. /\ Len(q) \in Nat /\ Len(r) \in Nat
      /\ DOMAIN q = 1 .. Len(q) /\ DOMAIN r = 1 .. Len(r)
      /\ t \in [1 .. (Len(q) + Len(r)) -> S]
      /\ DOMAIN t = 1 .. (Len(q) + Len(r))
  BY <1>1, <1>2, LenProperties
<1>4. IsSteps(t)
  <2>1. t \in [1 .. n -> S] /\ n \in Nat
    BY <1>3
  <2> HIDE DEF n
  <2>2. QED
    BY <2>1, AreSteps
<1>5. ASSUME NEW k \in DOMAIN q PROVE k \in DOMAIN t /\ t[k] = q[k]
  BY <1>2, <1>3
<1>6. ASSUME NEW k \in DOMAIN r
      PROVE  Len(q) + k \in DOMAIN t /\ t[Len(q) + k] = r[k]
  <2>1. Len(q) + k \in 1 .. (Len(q) + Len(r)) /\ ~ (Len(q) + k <= Len(q))
    BY <1>3
  <2>2. (Len(q) + k) - Len(q) = k
    BY <1>3
  <2>3. QED
    BY <1>2, <1>3, <2>1, <2>2
<1>7. ASSUME NEW k \in DOMAIN t, k \notin DOMAIN q
      PROVE  \E f \in DOMAIN r : k = Len(q) + f
  <2>1. k - Len(q) \in 1 .. Len(r) /\ k = Len(q) + (k - Len(q))
    BY <1>3, <1>7
  <2>2. QED
    BY <1>3, <2>1
<1>8. QED
  BY <1>3, <1>4, <1>5, <1>6, <1>7 DEF Spliced

(* Preambles are put together from preambles. *)
LEMMA Joined ==
    ASSUME NEW c, NEW q, NEW r, Preamble(q, c), Preamble(r, c),
           ~ ReadsIn(q) \/ ~ FindsIn(r)
    PROVE  /\ Preamble(q \o r, c)
           /\ FindsIn(q \o r) <=> FindsIn(q) \/ FindsIn(r)
           /\ ReadsIn(q \o r) <=> ReadsIn(q) \/ ReadsIn(r)
           /\ ItemsIn(q) \cup ItemsIn(r) \subseteq ItemsIn(q \o r)
<1> DEFINE t == q \o r
<1>1. /\ IsSteps(t)
      /\ Len(q) \in Nat /\ Len(r) \in Nat
      /\ DOMAIN q = 1 .. Len(q) /\ DOMAIN r = 1 .. Len(r)
      /\ DOMAIN t = 1 .. (Len(q) + Len(r))
      /\ \A k \in DOMAIN q : k \in DOMAIN t /\ t[k] = q[k]
      /\ \A k \in DOMAIN r : Len(q) + k \in DOMAIN t /\ t[Len(q) + k] = r[k]
      /\ \A k \in DOMAIN t : k \in DOMAIN q \/ \E f \in DOMAIN r : k = Len(q) + f
  <2> DEFINE u == t
  <2>1. u = q \o r /\ IsSteps(q) /\ IsSteps(r)
    BY DEF Preamble
  <2> HIDE DEF u
  <2>2. QED
    BY <2>1, Together DEF u, Spliced
<1> HIDE DEF t
<1>2. ASSUME NEW k \in DOMAIN t
      PROVE  /\ Look(t[k], c)
             /\ t[k].do \in {"show", "member"} =>
                    \E f \in 1 .. (k - 1) : t[f].do \in {"find", "first"}
             /\ t[k].do \in {"find", "first"} => \A f \in 1 .. (k - 1) : ~ Reads(t[f])
  <2>1. CASE k \in DOMAIN q
    <3>1. \A f \in 1 .. (k - 1) : f \in DOMAIN q
      BY <1>1, <2>1
    <3>2. QED
      BY <1>1, <2>1, <3>1 DEF Preamble
  <2>2. CASE \E g \in DOMAIN r : k = Len(q) + g
    <3>1. PICK g \in DOMAIN r : k = Len(q) + g
      BY <2>2
    <3>2. t[k] = r[g] /\ g \in 1 .. Len(r)
      BY <1>1, <3>1
    <3>3. ASSUME t[k].do \in {"show", "member"}
          PROVE  \E f \in 1 .. (k - 1) : t[f].do \in {"find", "first"}
      <4>1. PICK f \in 1 .. (g - 1) : r[f].do \in {"find", "first"}
        BY <3>2, <3>3 DEF Preamble
      <4>2. Len(q) + f \in 1 .. (k - 1) /\ f \in DOMAIN r
        BY <1>1, <3>1, <3>2
      <4>3. t[Len(q) + f] = r[f]
        BY <1>1, <4>2
      <4>4. QED
        BY <4>1, <4>2, <4>3
    <3>4. ASSUME t[k].do \in {"find", "first"}, NEW f \in 1 .. (k - 1)
          PROVE  ~ Reads(t[f])
      <4>1. ~ ReadsIn(q)
        BY <3>2, <3>4 DEF FindsIn
      <4>2. CASE f \in DOMAIN q
        BY <1>1, <4>1, <4>2 DEF ReadsIn
      <4>3. CASE f \notin DOMAIN q
        <5> DEFINE e == f - Len(q)
        <5>1. f \in Nat /\ f > Len(q) /\ f < Len(q) + g /\ g <= Len(r)
          BY <1>1, <3>1, <3>2, <3>4, <4>3
        <5>2. /\ e \in 1 .. (g - 1) /\ e \in 1 .. Len(r) /\ f = Len(q) + e
          BY <1>1, <3>2, <5>1
        <5>4. t[f] = r[e]
          BY <1>1, <5>2
        <5>5. QED
          BY <1>1, <3>2, <3>4, <5>2, <5>4 DEF Preamble
      <4>4. QED
        BY <4>2, <4>3
    <3>5. QED
      BY <3>2, <3>3, <3>4 DEF Preamble
  <2>3. QED
    BY <1>1, <2>1, <2>2
<1>3. Preamble(t, c)
  BY <1>1, <1>2 DEF Preamble
<1>4. FindsIn(t) <=> FindsIn(q) \/ FindsIn(r)
  BY <1>1 DEF FindsIn
<1>5. ReadsIn(t) <=> ReadsIn(q) \/ ReadsIn(r)
  BY <1>1 DEF ReadsIn
<1>6. ItemsIn(q) \cup ItemsIn(r) \subseteq ItemsIn(t)
  BY <1>1 DEF ItemsIn
<1>7. QED
  BY <1>3, <1>4, <1>5, <1>6 DEF t

LEMMA LookOnly ==
    ASSUME NEW s, s.do \in {"find", "first", "read", "show", "item", "member",
                            "list", "raise", "survey"}
    PROVE  ~ Writes(s)
BY DEF Writes, Method, Styles

LEMMA Single ==
    ASSUME NEW c, NEW s, Look(s, c), s.do \notin {"show", "member"}
    PROVE  /\ Preamble(<<s>>, c)
           /\ FindsIn(<<s>>) <=> s.do \in {"find", "first"}
           /\ ReadsIn(<<s>>) <=> Reads(s)
<1>1. DOMAIN <<s>> = {1} /\ <<s>>[1] = s
  OBVIOUS
<1>2. IsSteps(<<s>>)
  BY <1>1 DEF IsSteps, ToSet
<1>3. Preamble(<<s>>, c)
  BY <1>1, <1>2 DEF Preamble
<1>4. QED
  BY <1>1, <1>3 DEF FindsIn, ReadsIn

(* The steps of the language a preamble is made of. *)
LEMMA Steps ==
    ASSUME NEW c, NEW n \in c.names
    PROVE  /\ Look(Find(n), c) /\ Look(First(n), c)
           /\ c.names = {n} => Look(Read(n), c)
           /\ Look(Show, c) /\ Look(Raise, c) /\ Look(List, c)
           /\ \A x : Look(Member(x), c)
BY LookOnly DEF Look, StaysWith, Find, First, Read, Show, Raise, List, Member, Step,
                Styles

LEMMA Bases ==
    ASSUME NEW c, NEW n \in c.names
    PROVE  /\ Preamble(<<Find(n)>>, c) /\ FindsIn(<<Find(n)>>) /\ ~ ReadsIn(<<Find(n)>>)
           /\ Preamble(<<First(n)>>, c) /\ FindsIn(<<First(n)>>)
           /\ c.names = {n} => /\ Preamble(<<Read(n)>>, c) /\ ReadsIn(<<Read(n)>>)
                               /\ ~ FindsIn(<<Read(n)>>)
           /\ Preamble(<<Raise>>, c) /\ ~ FindsIn(<<Raise>>)
BY Single, Steps DEF Find, First, Read, Raise, Step, Reads

LEMMA FindThenLook ==
    ASSUME NEW c, NEW n \in c.names, NEW x
    PROVE  /\ Preamble(<<Find(n), Show>>, c) /\ FindsIn(<<Find(n), Show>>)
           /\ ReadsIn(<<Find(n), Show>>)
           /\ Preamble(<<Find(n), List>>, c)
           /\ Preamble(<<Find(n), Member(x), Member(x)>>, c)
<1>1. ASSUME NEW s, Look(s, c), s.do \in {"show", "list", "member"}
      PROVE  Preamble(<<Find(n), s>>, c) /\ FindsIn(<<Find(n), s>>)
  <2> DEFINE q == <<Find(n), s>>
  <2>1. DOMAIN q = {1, 2} /\ q[1] = Find(n) /\ q[2] = s /\ IsSteps(q)
    BY DEF IsSteps, ToSet
  <2>2. Look(Find(n), c) /\ Find(n).do = "find"
    BY Steps DEF Find, Step
  <2> HIDE DEF q
  <2>3. 1 \in 1 .. (2 - 1) /\ 1 .. (1 - 1) = {}
    OBVIOUS
  <2>4. Preamble(q, c)
    BY <1>1, <2>1, <2>2, <2>3 DEF Preamble
  <2>5. QED
    BY <2>1, <2>2, <2>4 DEF q, FindsIn
<1>2. Preamble(<<Find(n), Show>>, c) /\ FindsIn(<<Find(n), Show>>)
  BY <1>1, Steps DEF Show, Step
<1>3. Preamble(<<Find(n), List>>, c)
  BY <1>1, Steps DEF List, Step
<1>4. ReadsIn(<<Find(n), Show>>)
  <2>1. 2 \in DOMAIN <<Find(n), Show>> /\ Reads(<<Find(n), Show>>[2])
    BY DEF Reads, Show, Step
  <2>2. QED
    BY <2>1 DEF ReadsIn
<1>5. Preamble(<<Find(n), Member(x), Member(x)>>, c)
  <2> DEFINE q == <<Find(n), Member(x), Member(x)>>
  <2>1. /\ DOMAIN q = {1, 2, 3} /\ q[1] = Find(n) /\ q[2] = Member(x)
        /\ q[3] = Member(x) /\ IsSteps(q)
    BY DEF IsSteps, ToSet
  <2>2. /\ Look(Find(n), c) /\ Find(n).do = "find"
        /\ Look(Member(x), c) /\ Member(x).do = "member"
    BY Steps DEF Find, Member, Step
  <2> HIDE DEF q
  <2>3. 1 \in 1 .. (2 - 1) /\ 1 \in 1 .. (3 - 1) /\ 1 .. (1 - 1) = {}
    OBVIOUS
  <2>4. Preamble(q, c)
    BY <2>1, <2>2, <2>3 DEF Preamble
  <2>5. QED
    BY <2>4 DEF q
<1>6. QED
  BY <1>2, <1>3, <1>4, <1>5

LEMMA Items1 ==
    ASSUME NEW c, NEW M, NEW xs \in Seq(M)
    PROVE  /\ Preamble(Lookups(xs), c)
           /\ ~ FindsIn(Lookups(xs)) /\ ~ ReadsIn(Lookups(xs))
           /\ ToSet(xs) \subseteq ItemsIn(Lookups(xs))
           /\ DOMAIN Lookups(xs) = 1 .. Len(xs) /\ Len(xs) \in Nat
           /\ \A k \in 1 .. Len(xs) : Lookups(xs)[k] = Step("item", xs[k], {})
<1> DEFINE q == Lookups(xs)
<1>1. /\ Len(xs) \in Nat /\ DOMAIN xs = 1 .. Len(xs)
      /\ DOMAIN q = 1 .. Len(xs)
      /\ \A k \in 1 .. Len(xs) : q[k] = Step("item", xs[k], {})
  BY DEF Lookups
<1>2. \A k \in DOMAIN q : q[k].do = "item" /\ q[k].of = xs[k] /\ q[k].catch = {}
  BY <1>1 DEF Step
<1>3. IsSteps(q)
  <2>1. q \in [1 .. Len(xs) -> ToSet(q)]
    BY <1>1 DEF Lookups, ToSet
  <2>2. QED
    BY <1>1, <2>1, AreSteps
<1> HIDE DEF q
<1>4. Preamble(q, c)
  BY <1>2, <1>3, LookOnly DEF Preamble, Look, StaysWith, Styles
<1>5. ~ FindsIn(q) /\ ~ ReadsIn(q)
  BY <1>2 DEF FindsIn, ReadsIn, Reads
<1>6. ToSet(xs) \subseteq ItemsIn(q)
  BY <1>1, <1>2 DEF ToSet, ItemsIn
<1>7. QED
  BY <1>1, <1>4, <1>5, <1>6 DEF q

-------------------------------------------------------------------------------
(* Commands that only look, and commands that change one thing at the end *)

LEMMA OnlyLooks ==
    ASSUME NEW c, c.to \in Names \cup {None}, Preamble(c.steps, c)
    PROVE  WellFormed(c)
<1> DEFINE q == c.steps
<1>1. /\ q \in Seq(ToSet(q)) /\ DOMAIN q = 1 .. Len(q) /\ Len(q) \in Nat
  BY DEF Preamble, IsSteps
<1>2. ASSUME NEW k \in DOMAIN q
      PROVE  /\ Look(q[k], c) /\ StaysWith(q[k], c) /\ ~ Writes(q[k])
             /\ q[k].do \in Deeds /\ q[k].catch = {} /\ ~ WritesBack(q[k])
             /\ q[k].do \notin {"post", "replace", "add", "insert", "associate",
                                "configure", "survey"}
  BY LookOnly DEF Preamble, Look, Deeds, WritesBack, Styles
<1>3. ChangesIn(q) = {}
  BY <1>2 DEF ChangesIn
<1>4. LooksUp(q)
  <2> SUFFICES ASSUME NEW k \in DOMAIN q, NeedsId(q[k])
               PROVE  \E f \in 1 .. (k - 1) : /\ q[f].do \in {"find", "first"}
                                              /\ q[f].catch = {} \/ f + q[f].skip > k
    BY DEF LooksUp
  <2>1. PICK f \in 1 .. (k - 1) : q[f].do \in {"find", "first"}
    BY <1>2 DEF NeedsId, Preamble
  <2>2. f \in DOMAIN q
    BY <1>1
  <2>3. QED
    BY <1>2, <2>1, <2>2
<1>5. KnowsMembers(q, c)
  BY <1>2 DEF KnowsMembers, AddedBy
<1>6. InOrder(q, c)
  BY <1>2, <1>3 DEF InOrder
<1>7. ReadsFirst(q)
  BY <1>2 DEF ReadsFirst
<1>8. ReadsLate(q, c)
  <2>1. ASSUME NEW k \in DOMAIN q, Reads(q[k]), NEW g \in DOMAIN q, k < g
        PROVE  q[g].do \notin {"find", "first"}
    BY <1>1, <2>1 DEF Preamble
  <2>2. \A k \in DOMAIN q : \A f \in 1 .. (k - 1) : ~ Writes(q[f])
    BY <1>1, <1>2
  <2>3. QED
    BY <1>2, <2>1, <2>2 DEF ReadsLate, Look
<1>9. QED
  BY <1>1, <1>2, <1>4, <1>5, <1>6, <1>7, <1>8 DEF WellFormed

(* What a step that changes must find before it. *)
Prepared(s, q, c) ==
    /\ Writes(s) /\ s.do \in Deeds /\ s.catch = {} /\ StaysWith(s, c)
    /\ s.do = "post" \/ s.of \in Ids \/ FindsIn(q)
    /\ AddedBy(s, c) \subseteq Items \cup ItemsIn(q)
    /\ WritesBack(s) => ReadsIn(q)

LEMMA OneChange ==
    ASSUME NEW c, c.to \in Names \cup {None}, NEW q, NEW s,
           c.steps = q \o <<s>>, Preamble(q, c), Prepared(s, q, c)
    PROVE  WellFormed(c)
<1> DEFINE t == c.steps
           n == Len(q) + 1
<1>1. DOMAIN <<s>> = {1} /\ <<s>>[1] = s /\ IsSteps(<<s>>) /\ Len(<<s>>) = 1
  BY DEF IsSteps, ToSet
<1>2. /\ IsSteps(t) /\ DOMAIN t = 1 .. n /\ Len(q) \in Nat /\ n \in Nat
      /\ DOMAIN q = 1 .. Len(q)
      /\ \A k \in DOMAIN q : k \in DOMAIN t /\ t[k] = q[k]
      /\ t[n] = s /\ n \in DOMAIN t
  <2>1. IsSteps(q) /\ t = q \o <<s>>
    BY DEF Preamble
  <2> HIDE DEF t
  <2>2. Spliced(t, q, <<s>>)
    BY <1>1, <2>1, Together
  <2>3. QED
    BY <1>1, <2>2 DEF Spliced
<1>3. Len(t) = n
  <2>1. t \in Seq(ToSet(t))
    BY <1>2 DEF IsSteps
  <2>2. DOMAIN t = 1 .. Len(t) /\ Len(t) \in Nat
    BY <2>1
  <2>3. QED
    BY <1>2, <2>2
<1>4. \A k \in DOMAIN t : k \in DOMAIN q \/ k = n
  BY <1>2
<1>5. \A k \in DOMAIN q : \A f \in 1 .. (k - 1) : f \in DOMAIN q /\ t[f] = q[f]
  BY <1>2
<1>6. \A f \in 1 .. (n - 1) : f \in DOMAIN q /\ t[f] = q[f]
  BY <1>2
<1>7. \A f \in DOMAIN q : f \in 1 .. (n - 1)
  BY <1>2
<1> HIDE DEF t, n
<1>8. ASSUME NEW k \in DOMAIN q
      PROVE  /\ Look(t[k], c) /\ StaysWith(t[k], c) /\ ~ Writes(t[k])
             /\ t[k].do \in Deeds /\ t[k].catch = {} /\ ~ WritesBack(t[k])
             /\ t[k].do \notin {"post", "replace", "add", "insert", "associate",
                                "configure", "survey"}
  <2>1. t[k] = q[k]
    BY <1>2
  <2>2. QED
    BY <2>1, LookOnly DEF Preamble, Look, Deeds, WritesBack, Styles
<1>9. s.do \notin {"find", "first", "read", "show", "item", "member", "list",
                   "raise", "survey"}
  BY LookOnly DEF Prepared
<1>10. LooksUp(t)
  <2> SUFFICES ASSUME NEW k \in DOMAIN t, NeedsId(t[k])
               PROVE  \E f \in 1 .. (k - 1) : /\ t[f].do \in {"find", "first"}
                                              /\ t[f].catch = {} \/ f + t[f].skip > k
    BY DEF LooksUp
  <2>1. CASE k \in DOMAIN q
    <3>1. q[k].do \in {"show", "member"}
      BY <1>2, <1>8, <2>1 DEF NeedsId
    <3>2. PICK f \in 1 .. (k - 1) : q[f].do \in {"find", "first"}
      BY <2>1, <3>1 DEF Preamble
    <3>3. QED
      BY <1>5, <1>8, <2>1, <3>2
  <2>2. CASE k = n
    <3>1. FindsIn(q)
      BY <1>2, <1>9, <2>2 DEF NeedsId, Prepared
    <3>2. PICK f \in DOMAIN q : q[f].do \in {"find", "first"}
      BY <3>1 DEF FindsIn
    <3>3. QED
      BY <1>2, <1>7, <1>8, <2>2, <3>2
  <2>3. QED
    BY <1>4, <2>1, <2>2
<1>11. KnowsMembers(t, c)
  <2> SUFFICES ASSUME NEW k \in DOMAIN t, NEW i \in AddedBy(t[k], c) \ Items
               PROVE  \E f \in 1 .. (k - 1) : t[f].do = "item" /\ t[f].of = i
    BY DEF KnowsMembers
  <2>1. k = n /\ t[k] = s
    BY <1>2, <1>4, <1>8 DEF AddedBy
  <2>2. i \in ItemsIn(q)
    BY <2>1 DEF Prepared
  <2>3. PICK f \in DOMAIN q : q[f].do = "item" /\ q[f].of = i
    BY <2>2 DEF ItemsIn
  <2>4. QED
    BY <1>2, <1>7, <2>1, <2>3
<1>12. InOrder(t, c)
  <2>1. Writes(t[Len(t)])
    BY <1>2, <1>3 DEF Prepared
  <2>2. ASSUME Creates(c) PROVE s.do = "post"
    BY <1>2, <1>4, <1>8, <2>2 DEF Creates, t
  <2>3. QED
    BY <1>2, <1>3, <1>4, <1>8, <1>9, <2>1, <2>2 DEF InOrder, Prepared
<1>13. ReadsFirst(t)
  <2> SUFFICES ASSUME NEW k \in DOMAIN t, WritesBack(t[k])
               PROVE  \E f \in 1 .. (k - 1) : Reads(t[f])
    BY DEF ReadsFirst
  <2>1. k = n /\ t[k] = s
    BY <1>2, <1>4, <1>8
  <2>2. PICK f \in DOMAIN q : Reads(q[f])
    BY <2>1 DEF Prepared, ReadsIn
  <2>3. QED
    BY <1>2, <1>7, <2>1, <2>2
<1>14. ReadsLate(t, c)
  <2>1. ASSUME NEW k \in DOMAIN t, Reads(t[k])
        PROVE  k \in DOMAIN q
    BY <1>2, <1>4, <1>9, <2>1 DEF Reads
  <2>2. ASSUME NEW k \in DOMAIN t, Reads(t[k]), NEW g \in DOMAIN t, k < g
        PROVE  t[g].do \notin {"find", "first"}
    <3>1. k \in DOMAIN q
      BY <2>1, <2>2
    <3>2. CASE g \in DOMAIN q
      <4>1. k \in 1 .. (g - 1) /\ t[k] = q[k] /\ t[g] = q[g]
        BY <1>2, <2>2, <3>1, <3>2
      <4>2. QED
        BY <2>2, <3>2, <4>1 DEF Preamble
    <3>3. QED
      BY <1>2, <1>4, <1>9, <3>2
  <2>3. \A k \in DOMAIN t : \A f \in 1 .. (k - 1) : ~ Writes(t[f])
    BY <1>4, <1>5, <1>6, <1>8
  <2>4. \A k \in DOMAIN t : t[k].do = "read" => c.names = {t[k].of}
    BY <1>2, <1>4, <1>8, <1>9 DEF Look
  <2>5. QED
    BY <2>2, <2>3, <2>4 DEF ReadsLate
<1>15. \A k \in DOMAIN t : StaysWith(t[k], c)
  BY <1>2, <1>4, <1>8 DEF Prepared
<1>16. QED
  BY <1>2, <1>10, <1>11, <1>12, <1>13, <1>14, <1>15 DEF WellFormed, t, IsSteps

-------------------------------------------------------------------------------
(* What the last steps need *)

LEMMA PutFits ==
    ASSUME NEW c, NEW q, NEW st \in Styles, st = "keep" \/ st = c.style, FindsIn(q),
           st \in {"replace", "add"} => c.items \subseteq Items \cup ItemsIn(q),
           st \in {"add", "cut"} => ReadsIn(q)
    PROVE  Prepared(Put(st), q, c)
<1> DEFINE s == Put(st)
<1>1. s.do = st /\ s.of = None /\ s.catch = {}
  BY DEF Put, Step
<1> HIDE DEF s
<1>2. Writes(s) /\ s.do \in Deeds
  BY <1>1 DEF Writes, Method, Deeds
<1>3. StaysWith(s, c)
  BY <1>1, WorkloadAssumption DEF StaysWith, Styles
<1>4. AddedBy(s, c) \subseteq Items \cup ItemsIn(q)
  BY <1>1 DEF AddedBy, Styles
<1>5. Prepared(s, q, c)
  BY <1>1, <1>2, <1>3, <1>4 DEF Prepared, WritesBack
<1>6. QED
  BY <1>5 DEF s

LEMMA PostFits ==
    ASSUME NEW c, NEW q, c.to # None, c.items \subseteq Items \cup ItemsIn(q)
    PROVE  Prepared(Post, q, c)
<1> DEFINE s == Post
<1>1. s.do = "post" /\ s.of = None /\ s.catch = {}
  BY DEF Post, Step
<1> HIDE DEF s
<1>2. Writes(s) /\ s.do \in Deeds
  BY <1>1 DEF Writes, Method, Deeds, Styles
<1>3. StaysWith(s, c)
  BY <1>1, WorkloadAssumption DEF StaysWith, Styles
<1>4. AddedBy(s, c) \subseteq Items \cup ItemsIn(q)
  BY <1>1 DEF AddedBy
<1>5. Prepared(s, q, c)
  BY <1>1, <1>2, <1>3, <1>4 DEF Prepared, WritesBack
<1>6. QED
  BY <1>5 DEF s

LEMMA MembersFit ==
    ASSUME NEW c, NEW q, NEW s, s.catch = {}, s.members \subseteq c.items,
           \/ /\ s.do \in {"insert", "associate", "configure"} /\ c.style = "add"
              /\ s.members \subseteq Items \cup ItemsIn(q)
           \/ s.do \in {"remove", "dissociate", "withdraw"} /\ c.style = "cut",
           IF s.of \in Ids THEN s.of \in c.names ELSE FindsIn(q)
    PROVE  Prepared(s, q, c)
<1>1. Writes(s) /\ s.do \in Deeds
  BY DEF Writes, Method, Deeds, Styles
<1>2. StaysWith(s, c)
  BY DEF StaysWith, Styles
<1>3. AddedBy(s, c) \subseteq Items \cup ItemsIn(q)
  BY DEF AddedBy
<1>4. QED
  BY <1>1, <1>2, <1>3 DEF Prepared, WritesBack

LEMMA StylesGiven ==
    ASSUME NEW M, NEW xs \in Seq(M), NEW flag \in BOOLEAN
    PROVE  /\ SetStyle(xs, flag) \in {"keep", "add", "replace"}
           /\ UnsetStyle(xs, flag) \in {"keep", "cut", "replace"}
           /\ SetStyle(xs, flag) = "add" => xs # <<>>
           /\ UnsetStyle(xs, flag) = "cut" => xs # <<>>
BY DEF SetStyle, UnsetStyle

LEMMA EmptyFits ==
    ASSUME NEW c
    PROVE  Preamble(<<>>, c) /\ ~ FindsIn(<<>>) /\ ~ ReadsIn(<<>>)
<1>1. DOMAIN <<>> = {} /\ IsSteps(<<>>)
  BY DEF IsSteps, ToSet
<1>2. QED
  BY <1>1 DEF Preamble, FindsIn, ReadsIn

LEMMA ReadIfFits ==
    ASSUME NEW c, NEW n, c.names = {n}, NEW st
    PROVE  LET q == ReadIf(Read(n), st)
           IN  /\ Preamble(q, c) /\ ~ FindsIn(q)
               /\ st \in {"add", "cut"} => ReadsIn(q)
BY EmptyFits, Bases DEF ReadIf

(* The beginning of most classes. *)
LEMMA FindItems ==
    ASSUME NEW c, NEW n \in c.names, NEW M, NEW xs \in Seq(M)
    PROVE  LET q == <<Find(n)>> \o Lookups(xs)
           IN  /\ Preamble(q, c) /\ FindsIn(q) /\ ~ ReadsIn(q)
               /\ ToSet(xs) \subseteq ItemsIn(q)
<1> DEFINE f == <<Find(n)>>
           l == Lookups(xs)
<1>1. Preamble(f, c) /\ FindsIn(f) /\ ~ ReadsIn(f)
  BY Bases
<1>2. Preamble(l, c) /\ ~ FindsIn(l) /\ ~ ReadsIn(l) /\ ToSet(xs) \subseteq ItemsIn(l)
  BY Items1
<1> HIDE DEF f, l
<1>3. /\ Preamble(f \o l, c) /\ FindsIn(f \o l) /\ ~ ReadsIn(f \o l)
      /\ ItemsIn(l) \subseteq ItemsIn(f \o l)
  BY <1>1, <1>2, Joined
<1>4. QED
  BY <1>2, <1>3 DEF f, l

LEMMA Pair == ASSUME NEW a, NEW b PROVE <<a>> \o <<b>> = <<a, b>>
<1> DEFINE S == {a, b}
<1>1. <<a>> \in Seq(S) /\ <<b>> \in Seq(S) /\ Len(<<a>>) = 1 /\ Len(<<b>>) = 1
  OBVIOUS
<1>2. /\ <<a>> \o <<b>> \in Seq(S) /\ Len(<<a>> \o <<b>>) = 2
      /\ (<<a>> \o <<b>>)[1] = a /\ (<<a>> \o <<b>>)[2] = b
  BY <1>1, ConcatProperties
<1>3. <<a, b>> \in Seq(S) /\ Len(<<a, b>>) = 2 /\ <<a, b>>[1] = a /\ <<a, b>>[2] = b
  OBVIOUS
<1>4. \A i \in 1 .. 2 : (<<a>> \o <<b>>)[i] = <<a, b>>[i]
  <2>1. \A i \in 1 .. 2 : i = 1 \/ i = 2
    OBVIOUS
  <2>2. QED
    BY <1>2, <1>3, <2>1
<1> DEFINE s == <<a>> \o <<b>>
           t == <<a, b>>
<1> HIDE DEF s, t, S
<1>5. s \in Seq(S) /\ t \in Seq(S) /\ Len(s) = Len(t) /\ Len(s) = 2
  BY <1>2, <1>3 DEF s, t
<1>6. \A i \in 1 .. Len(s) : s[i] = t[i]
  BY <1>4, <1>5 DEF s, t
<1>7. s = t
  BY <1>5, <1>6, SeqEqual
<1>8. QED
  BY <1>7 DEF s, t

-------------------------------------------------------------------------------
(* The shapes most classes share *)

LEMMA CreateFits ==
    ASSUME NEW n \in Names, NEW M, NEW xs \in Seq(M)
    PROVE  WellFormed(Create(n, xs))
<1> DEFINE c == Create(n, xs)
           q == Lookups(xs)
<1>1. c.steps = Append(q, Post) /\ c.items = ToSet(xs) /\ c.to = n
  BY DEF Create, Command
<1> HIDE DEF c
<1>2. Preamble(q, c) /\ ToSet(xs) \subseteq ItemsIn(q)
  BY Items1
<1>3. Append(q, Post) = q \o <<Post>>
  <2>1. q \in Seq(ToSet(q) \cup {Post})
    BY <1>2, SeqMonotonic DEF Preamble, IsSteps
  <2>2. QED
    BY <2>1, AppendIsConcat
<1>4. Prepared(Post, q, c)
  BY <1>1, <1>2, PostFits, WorkloadAssumption
<1>5. WellFormed(c)
  BY <1>1, <1>2, <1>3, <1>4, OneChange
<1>6. QED
  BY <1>5 DEF c

LEMMA RenameFits ==
    ASSUME NEW n, NEW to \in Names \cup {None}
    PROVE  WellFormed(Rename(n, to))
<1> DEFINE c == Rename(n, to)
           q == <<Find(n)>>
<1>1. /\ c.steps = q \o <<Put("keep")>> /\ c.names = {n} /\ c.to = to
  BY Pair DEF Rename, Command
<1> HIDE DEF c
<1>2. Preamble(q, c) /\ FindsIn(q)
  BY <1>1, Bases
<1>3. Prepared(Put("keep"), q, c)
  BY <1>2, PutFits DEF Styles
<1>4. WellFormed(c)
  BY <1>1, <1>2, <1>3, OneChange
<1>5. QED
  BY <1>4 DEF c

LEMMA LooksFit ==
    ASSUME NEW n, NEW x
    PROVE  /\ WellFormed(ShowOne(n)) /\ WellFormed(ListAll)
           /\ WellFormed(ListBgpvpnResAssoc(n))
           /\ WellFormed(ShowBgpvpnResAssoc(n, x))
<1>1. ASSUME NEW c, c.to = None, c.names = {n},
             c.steps \in {<<Find(n), Show>>, <<Find(n), List>>,
                          <<Find(n), Member(x), Member(x)>>}
      PROVE  WellFormed(c)
  BY <1>1, FindThenLook, OnlyLooks
<1>2. WellFormed(ListAll)
  <2> DEFINE c == ListAll
  <2>1. c.steps = <<List>> /\ c.to = None
    BY DEF ListAll, Command
  <2> HIDE DEF c
  <2>2. Look(List, c) /\ List.do = "list"
    BY DEF Look, StaysWith, List, Step, Writes, Method, Styles
  <2>3. WellFormed(c)
    BY <2>1, <2>2, Single, OnlyLooks
  <2>4. QED
    BY <2>3 DEF c
<1>3. QED
  BY <1>1, <1>2 DEF ShowOne, ListBgpvpnResAssoc, ShowBgpvpnResAssoc, Command

LEMMA BulkDeleteFits ==
    ASSUME NEW M, NEW ns \in Seq(M), NEW catch
    PROVE  WellFormed(BulkDelete(ns, catch))
<1> DEFINE c == BulkDelete(ns, catch)
           q == c.steps
           N == 2 * Len(ns)
<1>1. /\ q = [k \in 1 .. N |-> Deletion(ns[(k + 1) \div 2], catch)[2 - (k % 2)]]
      /\ c.names = ToSet(ns) /\ c.items = {} /\ c.style = "keep" /\ c.to = None
  BY DEF BulkDelete, Command
<1>2. Len(ns) \in Nat /\ DOMAIN ns = 1 .. Len(ns) /\ N \in Nat
  OBVIOUS
<1>3. ASSUME NEW k \in 1 .. N
      PROVE  /\ k % 2 = 1 =>
                   /\ q[k].do = "find" /\ q[k].of \in c.names
                   /\ q[k].catch = catch /\ q[k].skip = 2
                   /\ k < N /\ (k + 1) % 2 = 0
             /\ k % 2 # 1 =>
                   /\ q[k].do = "delete" /\ q[k].of = None
                   /\ q[k].catch = catch /\ q[k].skip = 1
                   /\ k > 1 /\ (k - 1) % 2 = 1
  <2> DEFINE n == ns[(k + 1) \div 2]
  <2>1. (k + 1) \div 2 \in 1 .. Len(ns) /\ k % 2 \in {0, 1}
    BY <1>2
  <2>2. n \in c.names
    BY <1>1, <1>2, <2>1 DEF ToSet
  <2>3. q[k] = Deletion(n, catch)[2 - (k % 2)]
    BY <1>1
  <2> HIDE DEF n, q, c
  <2>4. /\ Deletion(n, catch)[1].do = "find" /\ Deletion(n, catch)[1].of = n
        /\ Deletion(n, catch)[1].catch = catch /\ Deletion(n, catch)[1].skip = 2
        /\ Deletion(n, catch)[2].do = "delete" /\ Deletion(n, catch)[2].of = None
        /\ Deletion(n, catch)[2].catch = catch /\ Deletion(n, catch)[2].skip = 1
    BY DEF Deletion, Find, Step
  <2>5. CASE k % 2 = 1
    <3>1. 2 - (k % 2) = 1 /\ k < N /\ (k + 1) % 2 = 0
      BY <1>2, <2>5
    <3>2. QED
      BY <2>2, <2>3, <2>4, <2>5, <3>1
  <2>6. CASE k % 2 = 0
    <3>1. 2 - (k % 2) = 2 /\ k > 1 /\ (k - 1) % 2 = 1
      BY <1>2, <2>6
    <3>2. QED
      BY <2>3, <2>4, <2>6, <3>1
  <2>7. QED
    BY <2>1, <2>5, <2>6
<1>4. DOMAIN q = 1 .. N /\ IsSteps(q) /\ Len(q) = N
  <2>1. DOMAIN q = 1 .. N /\ q \in [1 .. N -> ToSet(q)]
    BY <1>1 DEF ToSet
  <2> HIDE DEF q, N
  <2>2. IsSteps(q)
    BY <1>2, <2>1, AreSteps
  <2>3. q \in Seq(ToSet(q))
    BY <2>2 DEF IsSteps
  <2>4. QED
    BY <1>2, <2>1, <2>2, <2>3
<1> HIDE DEF q, N
<1>5. ASSUME NEW k \in 1 .. N
      PROVE  /\ q[k].do \in {"find", "delete"} /\ q[k].do \in Deeds
             /\ Writes(q[k]) <=> k % 2 # 1
             /\ StaysWith(q[k], c)
  BY <1>1, <1>3, WorkloadAssumption DEF Writes, Method, Styles, Deeds, StaysWith
<1>6. LooksUp(q)
  <2> SUFFICES ASSUME NEW k \in 1 .. N, NeedsId(q[k])
               PROVE  \E f \in 1 .. (k - 1) : /\ q[f].do \in {"find", "first"}
                                              /\ q[f].catch = {} \/ f + q[f].skip > k
    BY <1>4 DEF LooksUp
  <2>1. k % 2 # 1
    BY <1>5 DEF NeedsId
  <2>2. k - 1 \in 1 .. (k - 1) /\ k - 1 \in 1 .. N /\ (k - 1) % 2 = 1
    BY <1>2, <1>3, <2>1
  <2>3. q[k - 1].do = "find" /\ q[k - 1].skip = 2 /\ (k - 1) + 2 > k
    BY <1>3, <2>2
  <2>4. QED
    BY <2>2, <2>3
<1>7. KnowsMembers(q, c) /\ ReadsFirst(q) /\ ReadsLate(q, c)
  BY <1>4, <1>5 DEF KnowsMembers, AddedBy, ReadsFirst, ReadsLate, Reads, WritesBack, Styles
<1>8. InOrder(q, c)
  <2>1. ASSUME NEW k \in 1 .. N
        PROVE  N % 2 = 0 /\ N \in 1 .. N
    BY <1>2 DEF N
  <2>2. ASSUME NEW k \in 1 .. N
        PROVE  Writes(q[N])
    BY <1>5, <2>1
  <2>3. ~ Creates(c)
    BY <1>4, <1>5 DEF Creates, q
  <2>4. ASSUME NEW k \in 1 .. N
        PROVE  IF q[k].do = "find" THEN q[k].skip = 2 /\ k < N /\ Writes(q[k + 1])
               ELSE q[k].do \in {"delete", "dissociate"} /\ q[k].skip = 1
    <3>1. CASE k % 2 = 1
      <4>1. k + 1 \in 1 .. N /\ (k + 1) % 2 = 0
        BY <1>2, <1>3, <3>1
      <4>2. QED
        BY <1>3, <1>5, <3>1, <4>1
    <3>2. CASE k % 2 # 1
      BY <1>3, <3>2
    <3>3. QED
      BY <3>1, <3>2
  <2>5. QED
    BY <1>4, <1>5, <2>2, <2>3, <2>4 DEF InOrder
<1>9. WellFormed(c)
  BY <1>1, <1>4, <1>5, <1>6, <1>7, <1>8 DEF WellFormed, IsSteps, q
<1>10. QED
  BY <1>9 DEF c

-------------------------------------------------------------------------------
(* osc/v2/fwaas *)

LEMMA SetFirewallGroupFits ==
    ASSUME NEW n, NEW M, NEW xs \in Seq(M), NEW wipe \in BOOLEAN,
           NEW to \in Names \cup {None}
    PROVE  WellFormed(SetFirewallGroup(n, xs, wipe, to))
<1> DEFINE c == SetFirewallGroup(n, xs, wipe, to)
           st == SetStyle(xs, wipe)
           p == <<Find(n)>> \o Lookups(xs)
           q == p \o ReadIf(Read(n), st)
<1>1. /\ c.steps = q \o <<Put(st)>> /\ c.names = {n} /\ c.items = ToSet(xs)
      /\ c.style = st /\ c.to = to
  BY DEF SetFirewallGroup, Command
<1> HIDE DEF c, st
<1>2. Preamble(p, c) /\ FindsIn(p) /\ ToSet(xs) \subseteq ItemsIn(p)
  BY <1>1, FindItems
<1>3. /\ Preamble(ReadIf(Read(n), st), c) /\ ~ FindsIn(ReadIf(Read(n), st))
      /\ st \in {"add", "cut"} => ReadsIn(ReadIf(Read(n), st))
  BY <1>1, ReadIfFits
<1> HIDE DEF p
<1>4. /\ Preamble(q, c) /\ FindsIn(q) /\ ToSet(xs) \subseteq ItemsIn(q)
      /\ st \in {"add", "cut"} => ReadsIn(q)
  BY <1>2, <1>3, Joined
<1>5. Prepared(Put(st), q, c)
  BY <1>1, <1>4, PutFits, StylesGiven DEF st, Styles
<1>6. WellFormed(c)
  BY <1>1, <1>4, <1>5, OneChange
<1>7. QED
  BY <1>6 DEF c

(* A list is read before the members given are looked up. *)
LEMMA ReadsThenLooks ==
    ASSUME NEW n, NEW M, NEW xs \in Seq(M), NEW st \in Styles,
           NEW to \in Names \cup {None}
    PROVE  WellFormed(Command(<<Find(n)>> \o ReadIf(Read(n), st) \o Lookups(xs)
                                  \o <<Put(st)>>, {n}, ToSet(xs), st, to))
<1> DEFINE p == <<Find(n)>> \o ReadIf(Read(n), st)
           q == p \o Lookups(xs)
           c == Command(q \o <<Put(st)>>, {n}, ToSet(xs), st, to)
<1>1. /\ c.steps = q \o <<Put(st)>> /\ c.names = {n} /\ c.items = ToSet(xs)
      /\ c.style = st /\ c.to = to
  BY DEF Command
<1> HIDE DEF c
<1>2. /\ Preamble(p, c) /\ FindsIn(p)
      /\ st \in {"add", "cut"} => ReadsIn(p)
  BY <1>1, Bases, ReadIfFits, Joined
<1> HIDE DEF p
<1>3. /\ Preamble(q, c) /\ FindsIn(q) /\ ToSet(xs) \subseteq ItemsIn(q)
      /\ st \in {"add", "cut"} => ReadsIn(q)
  BY <1>2, Items1, Joined
<1>4. Prepared(Put(st), q, c)
  BY <1>1, <1>3, PutFits
<1>5. WellFormed(c)
  BY <1>1, <1>3, <1>4, OneChange
<1>6. QED
  BY <1>5 DEF c, p

(* A resource and members are looked up, then the one is changed. *)
LEMMA FindThenChange ==
    ASSUME NEW c, NEW n, c.names = {n}, NEW M, NEW xs \in Seq(M), NEW s,
           c.steps = <<Find(n)>> \o Lookups(xs) \o <<s>>,
           c.to \in Names \cup {None}, s.of = None, s.catch = {},
           \/ /\ s.do \in {"insert", "associate"} /\ c.style = "add"
              /\ s.members \subseteq c.items \cap ToSet(xs)
           \/ /\ s.do \in {"remove", "dissociate"} /\ c.style = "cut"
              /\ s.members \subseteq c.items
    PROVE  WellFormed(c)
<1> DEFINE q == <<Find(n)>> \o Lookups(xs)
<1>1. Preamble(q, c) /\ FindsIn(q) /\ ToSet(xs) \subseteq ItemsIn(q)
  BY FindItems
<1> HIDE DEF q
<1>2. Prepared(s, q, c)
  BY <1>1, MembersFit, WorkloadAssumption
<1>3. QED
  BY <1>1, <1>2, OneChange DEF q

LEMMA InsertsFit ==
    ASSUME NEW n, NEW M, NEW xs \in Seq(M), NEW x \in M
    PROVE  /\ xs # <<>> => WellFormed(FirewallPolicyInsertRule(n, xs))
           /\ WellFormed(FirewallPolicyRemoveRule(n, x))
           /\ WellFormed(CreateBgpvpnResAssoc(n, x))
           /\ WellFormed(DisassociateFlavor(n, x))
<1>1. <<x>> \in Seq(M) /\ ToSet(<<x>>) = {x}
  BY DEF ToSet
<1>2. ASSUME xs # <<>>
      PROVE  WellFormed(FirewallPolicyInsertRule(n, xs))
  <2> DEFINE c == FirewallPolicyInsertRule(n, xs)
             s == Insert({xs[1]})
  <2>1. xs[1] \in ToSet(xs)
    BY <1>2 DEF ToSet
  <2>2. /\ c.steps = <<Find(n)>> \o Lookups(xs) \o <<s>> /\ c.names = {n}
        /\ c.items = {xs[1]} /\ c.style = "add" /\ c.to = None
        /\ s.do = "insert" /\ s.of = None /\ s.catch = {} /\ s.members = {xs[1]}
    BY DEF FirewallPolicyInsertRule, Command, Insert, Step
  <2> HIDE DEF c, s
  <2>3. WellFormed(c)
    BY <2>1, <2>2, FindThenChange
  <2>4. QED
    BY <2>3 DEF c
<1>3. ASSUME NEW c, NEW s, NEW what \in {"associate", "remove", "dissociate"},
             s = Step(what, None, {x}),
             c = Command(<<Find(n)>> \o Lookups(<<x>>) \o <<s>>, {n}, {x},
                         IF what = "associate" THEN "add" ELSE "cut", None)
      PROVE  WellFormed(c)
  <2>1. /\ c.steps = <<Find(n)>> \o Lookups(<<x>>) \o <<s>> /\ c.names = {n}
        /\ c.items = {x} /\ c.to = None
        /\ c.style = IF what = "associate" THEN "add" ELSE "cut"
        /\ s.do = what /\ s.of = None /\ s.catch = {} /\ s.members = {x}
    BY <1>3 DEF Command, Step
  <2>2. QED
    BY <1>1, <2>1, FindThenChange
<1>4. QED
  BY <1>2, <1>3 DEF FirewallPolicyRemoveRule, CreateBgpvpnResAssoc, DisassociateFlavor,
                    TakeOut, Associate

(* osc/v2/fwaas: whatever options its commands are given, they are of the  *)
(* form that the theorems ask of workloads.                                *)
THEOREM FwaasWellFormed ==
    ASSUME NEW n \in Names, NEW to \in Names \cup {None}, NEW M,
           NEW xs \in Seq(M), NEW ns \in Seq(M), NEW x \in M, NEW wipe \in BOOLEAN,
           NEW all \in BOOLEAN
    PROVE  /\ WellFormed(CreateFirewallGroup(n, xs))
           /\ WellFormed(DeleteFirewallGroup(ns))
           /\ WellFormed(ListFirewallGroup)
           /\ WellFormed(ShowFirewallGroup(n))
           /\ WellFormed(SetFirewallGroup(n, xs, wipe, to))
           /\ WellFormed(UnsetFirewallGroup(n, xs, all))
           /\ WellFormed(CreateFirewallPolicy(n, xs))
           /\ WellFormed(DeleteFirewallPolicy(ns))
           /\ WellFormed(ListFirewallPolicy)
           /\ WellFormed(ShowFirewallPolicy(n))
           /\ WellFormed(SetFirewallPolicy(n, xs, wipe, to))
           /\ WellFormed(UnsetFirewallPolicy(n, xs, all))
           /\ xs # <<>> => WellFormed(FirewallPolicyInsertRule(n, xs))
           /\ WellFormed(FirewallPolicyRemoveRule(n, x))
           /\ WellFormed(CreateFirewallRule(n))
           /\ WellFormed(DeleteFirewallRule(ns))
           /\ WellFormed(ListFirewallRule)
           /\ WellFormed(SetFirewallRule(n, to))
           /\ WellFormed(ShowFirewallRule(n))
           /\ WellFormed(UnsetFirewallRule(n))
<1>1. WellFormed(UnsetFirewallGroup(n, xs, all))
  BY StylesGiven, ReadsThenLooks DEF UnsetFirewallGroup, Styles
<1>2. WellFormed(SetFirewallPolicy(n, xs, wipe, to))
  BY StylesGiven, ReadsThenLooks DEF SetFirewallPolicy, Styles
<1>3. WellFormed(Create(n, xs)) /\ WellFormed(Create(n, <<>>))
  <2>1. <<>> \in Seq(M)
    OBVIOUS
  <2>2. QED
    BY <2>1, CreateFits
<1>4. WellFormed(Rename(n, to)) /\ WellFormed(Rename(n, None))
  BY RenameFits
<1>5. WellFormed(ListAll) /\ WellFormed(ShowOne(n))
  BY LooksFit
<1>6. WellFormed(BulkDelete(ns, Failures))
  BY BulkDeleteFits
<1>7. QED
  BY <1>1, <1>2, <1>3, <1>4, <1>5, <1>6, SetFirewallGroupFits, InsertsFit
     DEF CreateFirewallGroup, DeleteFirewallGroup, ListFirewallGroup,
         ShowFirewallGroup, CreateFirewallPolicy, DeleteFirewallPolicy,
         ListFirewallPolicy, ShowFirewallPolicy, UnsetFirewallPolicy,
         CreateFirewallRule, DeleteFirewallRule, ListFirewallRule, SetFirewallRule,
         ShowFirewallRule, UnsetFirewallRule

-------------------------------------------------------------------------------
(* osc/v2/sfc *)

LEMMA RaiseAfter ==
    ASSUME NEW c, NEW n, c.names = {n}, NEW q, Preamble(q, c), FindsIn(q)
    PROVE  Preamble(q \o <<Read(n), Raise>>, c)
<1> DEFINE f == <<Read(n)>>
           g == <<Raise>>
           r == <<Read(n), Raise>>
<1>1. f \o g = r
  BY Pair
<1>2. Preamble(f, c) /\ ~ FindsIn(f) /\ Preamble(g, c) /\ ~ FindsIn(g)
  BY Bases
<1> HIDE DEF f, g, r
<1>3. Preamble(r, c) /\ ~ FindsIn(r)
  BY <1>1, <1>2, Joined
<1>4. Preamble(q \o r, c)
  BY <1>3, Joined
<1>5. QED
  BY <1>4 DEF r

(* Members are looked up twice; a list that was read ends the command.     *)
LEMMA SetMembersFits ==
    ASSUME NEW n, NEW M, NEW xs \in Seq(M), NEW wipe \in BOOLEAN, NEW items,
           NEW to \in Names \cup {None}, items \subseteq ToSet(xs)
    PROVE  WellFormed([SetSfcPortPairGroup(n, xs, wipe, to) EXCEPT !.items = items])
<1> DEFINE c == [SetSfcPortPairGroup(n, xs, wipe, to) EXCEPT !.items = items]
           st == SetStyle(xs, wipe)
           p == <<Find(n)>> \o Lookups(xs)
           q == p \o Lookups(xs)
<1>1. /\ c.steps = q \o (IF st = "add" THEN <<Read(n), Raise>> ELSE <<Put(st)>>)
      /\ c.names = {n} /\ c.items = items /\ c.style = st /\ c.to = to
  BY DEF SetSfcPortPairGroup, Command
<1>2. st \in {"keep", "add", "replace"}
  BY StylesGiven
<1> HIDE DEF c, st
<1>3. Preamble(p, c) /\ FindsIn(p) /\ ToSet(xs) \subseteq ItemsIn(p)
  BY <1>1, FindItems
<1> HIDE DEF p
<1>4. Preamble(q, c) /\ FindsIn(q) /\ ToSet(xs) \subseteq ItemsIn(q)
  BY <1>3, Items1, Joined
<1> HIDE DEF q
<1>5. CASE st = "add"
  <2>1. Preamble(q \o <<Read(n), Raise>>, c)
    BY <1>1, <1>4, RaiseAfter
  <2>2. WellFormed(c)
    BY <1>1, <1>5, <2>1, OnlyLooks
  <2>3. QED
    BY <2>2 DEF c
<1>6. CASE st # "add"
  <2>1. Prepared(Put(st), q, c)
    BY <1>1, <1>2, <1>4, <1>6, PutFits DEF Styles
  <2>2. WellFormed(c)
    BY <1>1, <1>4, <1>6, <2>1, OneChange
  <2>3. QED
    BY <2>2 DEF c
<1>7. QED
  BY <1>5, <1>6

LEMMA SetPortPairGroupsFits ==
    ASSUME NEW n, NEW M, NEW xs \in Seq(M), NEW wipe \in BOOLEAN,
           NEW to \in Names \cup {None}
    PROVE  WellFormed(SetPortPairGroups(n, xs, wipe, to))
<1> DEFINE c == SetPortPairGroups(n, xs, wipe, to)
           st == SetStyle(xs, wipe)
           p == <<Find(n)>> \o Lookups(xs)
           one == Lookups(<<xs[1]>>)
           more == Lookups(xs) \o <<Put(st)>>
<1>1. /\ c.steps = p \o (CASE st = "add" -> <<Read(n)>> \o one \o <<Raise>>
                           [] st = "replace" /\ xs = <<>> -> <<Raise>>
                           [] OTHER -> more)
      /\ c.names = {n} /\ c.items = LastOf(xs) /\ c.style = st /\ c.to = to
  BY DEF SetPortPairGroups, Command
<1>2. st \in {"keep", "add", "replace"}
  BY StylesGiven
<1>3. LastOf(xs) \subseteq ToSet(xs)
  BY DEF LastOf, Last, ToSet
<1> HIDE DEF c, st, one
<1>4. Preamble(p, c) /\ FindsIn(p) /\ ToSet(xs) \subseteq ItemsIn(p)
  BY <1>1, FindItems
<1> HIDE DEF p
<1>5. CASE st = "add"
  <2>1. Preamble(one, c) /\ ~ FindsIn(one)
    <3>1. <<xs[1]>> \in Seq({xs[1]})
      OBVIOUS
    <3>2. QED
      BY <3>1, Items1 DEF one
  <2>2. Preamble(<<Read(n)>>, c) /\ ~ FindsIn(<<Read(n)>>)
        /\ Preamble(<<Raise>>, c) /\ ~ FindsIn(<<Raise>>)
    BY <1>1, Bases
  <2> DEFINE r == <<Read(n)>> \o one
             t == r \o <<Raise>>
  <2>3. Preamble(r, c) /\ ~ FindsIn(r)
    BY <2>1, <2>2, Joined
  <2> HIDE DEF r
  <2>4. Preamble(t, c) /\ ~ FindsIn(t)
    BY <2>2, <2>3, Joined
  <2>5. c.steps = p \o t
    BY <1>1, <1>5 DEF r
  <2> HIDE DEF t
  <2>6. Preamble(p \o t, c)
    BY <1>4, <2>4, Joined
  <2>7. WellFormed(c)
    BY <1>1, <2>5, <2>6, OnlyLooks
  <2>8. QED
    BY <2>7 DEF c
<1>6. CASE st = "replace" /\ xs = <<>>
  <2>1. Preamble(p \o <<Raise>>, c)
    BY <1>1, <1>4, Bases, Joined
  <2>2. WellFormed(c)
    BY <1>1, <1>6, <2>1, OnlyLooks
  <2>3. QED
    BY <2>2 DEF c
<1>7. CASE st # "add" /\ ~ (st = "replace" /\ xs = <<>>)
  <2> DEFINE q == p \o Lookups(xs)
  <2>1. c.steps = p \o (Lookups(xs) \o <<Put(st)>>)
    BY <1>1, <1>7
  <2>2. p \o (Lookups(xs) \o <<Put(st)>>) = q \o <<Put(st)>>
    <3> DEFINE l == Lookups(xs)
               S == (ToSet(p) \cup ToSet(l)) \cup {Put(st)}
    <3>1. IsSteps(p) /\ IsSteps(l)
      BY <1>4, Items1 DEF Preamble
    <3>2. p \in Seq(S) /\ l \in Seq(S) /\ <<Put(st)>> \in Seq(S)
      BY <3>1, SeqMonotonic DEF IsSteps
    <3> HIDE DEF l, S
    <3>3. (p \o l) \o <<Put(st)>> = p \o (l \o <<Put(st)>>)
      BY <3>2, ConcatAssociative
    <3>4. QED
      BY <3>3 DEF l
  <2>3. Preamble(q, c) /\ FindsIn(q) /\ ToSet(xs) \subseteq ItemsIn(q)
    BY <1>4, Items1, Joined
  <2> HIDE DEF q
  <2>4. Prepared(Put(st), q, c)
    BY <1>1, <1>2, <1>3, <1>7, <2>3, PutFits DEF Styles
  <2>5. WellFormed(c)
    BY <1>1, <2>1, <2>2, <2>3, <2>4, OneChange
  <2>6. QED
    BY <2>5 DEF c
<1>8. QED
  BY <1>5, <1>6, <1>7

LEMMA UnsetMembersFits ==
    ASSUME NEW n, NEW M, NEW xs \in Seq(M), NEW tried, NEW all \in BOOLEAN,
           all => xs = <<>>, xs # <<>> => tried \in Seq(M)
    PROVE  WellFormed(UnsetMembers(n, xs, all, tried))
<1> DEFINE c == UnsetMembers(n, xs, all, tried)
           st == UnsetStyle(xs, all)
           q == <<Find(n)>>
           l == Lookups(tried)
<1>1. /\ c.steps = q \o (IF st = "cut" THEN <<Read(n)>> \o l \o <<Raise>>
                         ELSE <<Put(st)>>)
      /\ c.names = {n} /\ c.items = ToSet(xs) /\ c.style = st /\ c.to = None
  BY DEF UnsetMembers, Command
<1>2. /\ st \in {"keep", "cut", "replace"}
      /\ st = "cut" => tried \in Seq(M)
      /\ st = "replace" => ToSet(xs) = {}
  BY DEF UnsetStyle, ToSet
<1> HIDE DEF c, st
<1>3. Preamble(q, c) /\ FindsIn(q)
  BY <1>1, Bases
<1> HIDE DEF q
<1>4. CASE st = "cut"
  <2>1. Preamble(l, c) /\ ~ FindsIn(l)
    BY <1>2, <1>4, Items1
  <2>2. Preamble(<<Read(n)>>, c) /\ ~ FindsIn(<<Read(n)>>)
        /\ Preamble(<<Raise>>, c) /\ ~ FindsIn(<<Raise>>)
    BY <1>1, Bases
  <2> HIDE DEF l
  <2> DEFINE r == <<Read(n)>> \o l
             t == r \o <<Raise>>
  <2>3. Preamble(r, c) /\ ~ FindsIn(r)
    BY <2>1, <2>2, Joined
  <2> HIDE DEF r
  <2>4. Preamble(t, c) /\ ~ FindsIn(t)
    BY <2>2, <2>3, Joined
  <2>5. c.steps = q \o t
    BY <1>1, <1>4 DEF r
  <2> HIDE DEF t
  <2>6. Preamble(q \o t, c)
    BY <1>3, <2>4, Joined
  <2>7. WellFormed(c)
    BY <1>1, <2>5, <2>6, OnlyLooks
  <2>8. QED
    BY <2>7 DEF c
<1>5. CASE st # "cut"
  <2>1. Prepared(Put(st), q, c)
    BY <1>1, <1>2, <1>3, <1>5, PutFits DEF Styles
  <2>2. WellFormed(c)
    BY <1>1, <1>3, <1>5, <2>1, OneChange
  <2>3. QED
    BY <2>2 DEF c
<1>6. QED
  BY <1>4, <1>5

(* osc/v2/sfc: the same of its commands. --all-... excludes members        *)
(* (sfc_port_pair_group.py:220, sfc_port_chain.py:261).                    *)
THEOREM SfcWellFormed ==
    ASSUME NEW n \in Names, NEW to \in Names \cup {None}, NEW M,
           NEW xs \in Seq(M), NEW wipe \in BOOLEAN, NEW all \in BOOLEAN
    PROVE  /\ WellFormed(CreateSfcFlowClassifier(n, xs))
           /\ WellFormed(DeleteSfcFlowClassifier(n))
           /\ WellFormed(ListSfcFlowClassifier)
           /\ WellFormed(SetSfcFlowClassifier(n, to))
           /\ WellFormed(ShowSfcFlowClassifier(n))
           /\ WellFormed(CreateSfcPortPair(n, xs))
           /\ WellFormed(DeleteSfcPortPair(n))
           /\ WellFormed(ListSfcPortPair)
           /\ WellFormed(SetSfcPortPair(n, to))
           /\ WellFormed(ShowSfcPortPair(n))
           /\ WellFormed(CreateSfcPortPairGroup(n, xs))
           /\ WellFormed(DeleteSfcPortPairGroup(n))
           /\ WellFormed(ListSfcPortPairGroup)
           /\ WellFormed(ShowSfcPortPairGroup(n))
           /\ WellFormed(SetSfcPortPairGroup(n, xs, wipe, to))
           /\ (all => xs = <<>>) => WellFormed(UnsetSfcPortPairGroup(n, xs, all))
           /\ WellFormed(CreateSfcPortChain(n, xs))
           /\ WellFormed(DeleteSfcPortChain(n))
           /\ WellFormed(ListSfcPortChain)
           /\ WellFormed(ShowSfcPortChain(n))
           /\ WellFormed(SetSfcPortChain(n, xs, wipe, to))
           /\ WellFormed(SetPortPairGroups(n, xs, wipe, to))
           /\ (all => xs = <<>>) => WellFormed(UnsetSfcPortChain(n, xs, all))
           /\ WellFormed(UnsetPortPairGroups(n, xs))
<1>1. WellFormed(Create(n, xs))
  BY CreateFits
<1>2. WellFormed(Rename(n, to))
  BY RenameFits
<1>3. WellFormed(ListAll) /\ WellFormed(ShowOne(n))
  BY LooksFit
<1>4. WellFormed(BulkDelete(<<n>>, {}))
  <2>1. <<n>> \in Seq(Names)
    OBVIOUS
  <2>2. QED
    BY <2>1, BulkDeleteFits
<1>5. WellFormed(SetSfcPortPairGroup(n, xs, wipe, to))
  <2> DEFINE c == SetSfcPortPairGroup(n, xs, wipe, to)
             e == [c EXCEPT !.items = ToSet(xs)]
  <2>1. WellFormed(e)
    BY SetMembersFits
  <2>2. c = [steps |-> c.steps, names |-> c.names, items |-> ToSet(xs),
             style |-> c.style, to |-> c.to]
    BY DEF SetSfcPortPairGroup, Command
  <2> HIDE DEF c
  <2>3. e = c
    BY <2>2
  <2> HIDE DEF e
  <2>4. WellFormed(c)
    BY <2>1, <2>3
  <2>5. QED
    BY <2>4 DEF c
<1>6. WellFormed(SetSfcPortChain(n, xs, wipe, to))
  <2>1. LastOf(xs) \subseteq ToSet(xs)
    BY DEF LastOf, Last, ToSet
  <2>2. QED
    BY <2>1, SetMembersFits DEF SetSfcPortChain
<1>7. (all => xs = <<>>) => WellFormed(UnsetSfcPortPairGroup(n, xs, all))
  BY UnsetMembersFits DEF UnsetSfcPortPairGroup
<1>8. (all => xs = <<>>) => WellFormed(UnsetSfcPortChain(n, xs, all))
  <2>1. xs # <<>> => <<xs[1]>> \in Seq(M)
    OBVIOUS
  <2>2. QED
    BY <2>1, UnsetMembersFits DEF UnsetSfcPortChain
<1>9. WellFormed(UnsetPortPairGroups(n, xs))
  BY UnsetMembersFits DEF UnsetPortPairGroups
<1>10. QED
  BY <1>1, <1>2, <1>3, <1>4, <1>5, <1>6, <1>7, <1>8, <1>9, SetPortPairGroupsFits
     DEF CreateSfcFlowClassifier, DeleteSfcFlowClassifier, ListSfcFlowClassifier,
         SetSfcFlowClassifier, ShowSfcFlowClassifier, CreateSfcPortPair,
         DeleteSfcPortPair, ListSfcPortPair, SetSfcPortPair, ShowSfcPortPair,
         CreateSfcPortPairGroup, DeleteSfcPortPairGroup, ListSfcPortPairGroup,
         ShowSfcPortPairGroup, CreateSfcPortChain, DeleteSfcPortChain,
         ListSfcPortChain, ShowSfcPortChain

-------------------------------------------------------------------------------
(* osc/v2/networking_bgpvpn *)

LEMMA Args2BodyFits ==
    ASSUME NEW n, NEW xs \in Seq(Items), NEW style \in {"add", "cut"},
           NEW wipe \in BOOLEAN, NEW to \in Names \cup {None}
    PROVE  WellFormed(Args2Body(n, xs, style, wipe, to))
<1> DEFINE c == Args2Body(n, xs, style, wipe, to)
           st == IF wipe THEN "replace" ELSE IF xs = <<>> THEN "keep" ELSE style
           q == <<Find(n)>> \o (IF xs # <<>> THEN <<Show>> ELSE <<>>)
<1>1. /\ c.steps = q \o <<Put(st)>> /\ c.names = {n}
      /\ c.items = IF wipe THEN {} ELSE ToSet(xs)
      /\ c.style = st /\ c.to = to
  BY DEF Args2Body, Command
<1>2. c.items \subseteq Items /\ st \in Styles
  <2>1. ToSet(xs) \subseteq Items
    BY DEF ToSet
  <2>2. QED
    BY <1>1, <2>1 DEF Styles
<1> HIDE DEF c
<1>3. Preamble(q, c) /\ FindsIn(q) /\ (xs # <<>> => ReadsIn(q))
  <2>1. CASE xs # <<>>
    <3>1. q = <<Find(n), Show>>
      BY <2>1, Pair
    <3>2. /\ Preamble(<<Find(n), Show>>, c) /\ FindsIn(<<Find(n), Show>>)
          /\ ReadsIn(<<Find(n), Show>>)
      BY <1>1, FindThenLook
    <3> HIDE DEF q
    <3>3. QED
      BY <3>1, <3>2
  <2>2. CASE xs = <<>>
    BY <1>1, <2>2, Bases, EmptyFits, Joined
  <2>3. QED
    BY <2>1, <2>2
<1>4. st \in {"add", "cut"} => xs # <<>>
  OBVIOUS
<1> HIDE DEF q, st
<1>5. Prepared(Put(st), q, c)
  BY <1>1, <1>2, <1>3, <1>4, PutFits
<1>6. WellFormed(c)
  BY <1>1, <1>3, <1>5, OneChange
<1>7. QED
  BY <1>6 DEF c

LEMMA CreateBgpvpnFits ==
    ASSUME NEW n \in Names, NEW xs \in Seq(Items)
    PROVE  WellFormed(CreateBgpvpn(n, xs))
<1> DEFINE c == CreateBgpvpn(n, xs)
<1>1. /\ c.steps = <<Post>> /\ c.items = ToSet(xs) /\ c.to = n
      /\ ToSet(xs) \subseteq Items
  BY DEF CreateBgpvpn, Command, ToSet
<1> HIDE DEF c
<1>2. <<>> \o <<Post>> = <<Post>>
  <2>1. <<Post>> \in Seq({Post})
    OBVIOUS
  <2>2. QED
    BY <2>1, ConcatEmptySeq
<1>3. Prepared(Post, <<>>, c)
  BY <1>1, PostFits, WorkloadAssumption
<1>4. WellFormed(c)
  BY <1>1, <1>2, <1>3, EmptyFits, OneChange
<1>5. QED
  BY <1>4 DEF c

(* One step before others. *)
LedBy(s, r, t) ==
    /\ IsSteps(t) /\ Len(r) \in Nat /\ DOMAIN r = 1 .. Len(r)
    /\ DOMAIN t = 1 .. (1 + Len(r)) /\ t[1] = s
    /\ \A k \in DOMAIN r : t[1 + k] = r[k]
    /\ \A k \in DOMAIN t : k = 1 \/ \E f \in DOMAIN r : k = 1 + f

LEMMA Led ==
    ASSUME NEW s, NEW r, IsSteps(r), NEW t, t = <<s>> \o r
    PROVE  LedBy(s, r, t)
<1>1. PICK q : q = <<s>>
  OBVIOUS
<1>2. Len(q) = 1 /\ q[1] = s /\ DOMAIN q = {1} /\ IsSteps(q) /\ t = q \o r
  BY <1>1 DEF IsSteps, ToSet
<1>3. Spliced(t, q, r)
  BY <1>2, Together
<1>4. QED
  BY <1>2, <1>3 DEF Spliced, LedBy

LEMMA DeleteBgpvpnResAssocFits ==
    ASSUME NEW n, NEW M, NEW xs \in Seq(M)
    PROVE  WellFormed(DeleteBgpvpnResAssoc(n, xs))
<1> DEFINE c == DeleteBgpvpnResAssoc(n, xs)
           r == [i \in DOMAIN xs |->
                    [Step("dissociate", None, {xs[i]}) EXCEPT !.catch = Failures]]
           t == <<Find(n)>> \o r
           N == 1 + Len(xs)
<1>1. /\ c.steps = t /\ c.names = {n} /\ c.items = ToSet(xs)
      /\ c.style = "cut" /\ c.to = None
  BY DEF DeleteBgpvpnResAssoc, Command
<1>2. /\ Len(xs) \in Nat /\ DOMAIN xs = 1 .. Len(xs) /\ DOMAIN r = 1 .. Len(xs)
      /\ r \in [1 .. Len(xs) -> ToSet(r)]
  <2>1. Len(xs) \in Nat /\ DOMAIN xs = 1 .. Len(xs) /\ DOMAIN r = DOMAIN xs
    OBVIOUS
  <2>2. r = [k \in DOMAIN r |-> r[k]]
    OBVIOUS
  <2> HIDE DEF r
  <2>3. \A k \in DOMAIN r : r[k] \in ToSet(r)
    BY DEF ToSet
  <2>4. QED
    BY <2>1, <2>2, <2>3
<1>3. \A k \in DOMAIN r :
        /\ r[k].do = "dissociate" /\ r[k].of = None /\ r[k].skip = 1
        /\ r[k].members \subseteq c.items
  BY <1>1 DEF Step, ToSet
<1> HIDE DEF c, r
<1>4. IsSteps(r)
  BY <1>2, AreSteps
<1>5. /\ IsSteps(t) /\ DOMAIN t = 1 .. (1 + Len(r)) /\ t[1] = Find(n)
      /\ \A k \in DOMAIN r : t[1 + k] = r[k]
      /\ \A k \in DOMAIN t : k = 1 \/ \E f \in DOMAIN r : k = 1 + f
  <2>1. t = <<Find(n)>> \o r
    OBVIOUS
  <2> HIDE DEF t
  <2>2. LedBy(Find(n), r, t)
    BY <1>4, <2>1, Led
  <2>3. QED
    BY <2>2 DEF LedBy
<1>6. Len(r) = Len(xs)
  <2>1. r \in Seq(ToSet(r))
    BY <1>4 DEF IsSteps
  <2>2. DOMAIN r = 1 .. Len(r) /\ Len(r) \in Nat
    BY <2>1
  <2>3. QED
    BY <1>2, <2>2
<1>7. DOMAIN t = 1 .. N /\ N \in Nat /\ Len(t) = N
  <2>1. DOMAIN t = 1 .. N /\ N \in Nat
    BY <1>2, <1>5, <1>6
  <2>2. t \in Seq(ToSet(t))
    BY <1>5 DEF IsSteps
  <2>3. DOMAIN t = 1 .. Len(t) /\ Len(t) \in Nat
    BY <2>2
  <2>4. QED
    BY <2>1, <2>3
<1>8. t[1].do = "find" /\ t[1].of = n /\ t[1].catch = {}
  BY <1>5 DEF Find, Step
<1>9. ASSUME NEW k \in 1 .. N, k # 1
      PROVE  /\ t[k].do = "dissociate" /\ t[k].of = None /\ t[k].skip = 1
             /\ t[k].members \subseteq c.items /\ 1 \in 1 .. (k - 1)
  BY <1>2, <1>3, <1>5, <1>7, <1>9
<1> HIDE DEF t, N
<1>10. ASSUME NEW k \in 1 .. N
       PROVE  /\ t[k].do \in {"find", "dissociate"} /\ t[k].do \in Deeds
              /\ Writes(t[k]) <=> k # 1
              /\ StaysWith(t[k], c)
  BY <1>1, <1>8, <1>9, WorkloadAssumption DEF Writes, Method, Styles, Deeds, StaysWith
<1>11. LooksUp(t)
  BY <1>7, <1>8, <1>9, <1>10 DEF LooksUp, NeedsId
<1>12. KnowsMembers(t, c) /\ ReadsFirst(t) /\ ReadsLate(t, c)
  BY <1>7, <1>10 DEF KnowsMembers, AddedBy, ReadsFirst, ReadsLate, Reads, WritesBack,
                     Styles
<1>13. InOrder(t, c)
  <2>1. ~ Creates(c)
    BY <1>1, <1>7, <1>10 DEF Creates
  <2>2. ASSUME ChangesIn(c.steps) # {} PROVE Writes(t[Len(t)])
    <3>1. PICK k \in 1 .. N : k # 1
      BY <1>1, <1>7, <1>10, <2>2 DEF ChangesIn
    <3>2. N \in 1 .. N /\ N # 1
      BY <1>7, <3>1
    <3>3. QED
      BY <1>7, <1>10, <3>2
  <2>3. QED
    BY <1>7, <1>8, <1>9, <1>10, <2>1, <2>2 DEF InOrder
<1>14. WellFormed(c)
  BY <1>1, <1>5, <1>7, <1>10, <1>11, <1>12, <1>13 DEF WellFormed, IsSteps
<1>15. QED
  BY <1>14 DEF c

(* osc/v2/networking_bgpvpn: the same of its commands; targets, which are  *)
(* not looked up, must be such that the server knows them.                 *)
THEOREM BgpvpnWellFormed ==
    ASSUME NEW n \in Names, NEW targets \in Seq(Items), NEW M, NEW xs \in Seq(M),
           NEW ns \in Seq(M), NEW x \in M, NEW wipe \in BOOLEAN,
           NEW to \in Names \cup {None}
    PROVE  /\ WellFormed(CreateBgpvpn(n, targets))
           /\ WellFormed(DeleteBgpvpn(ns))
           /\ WellFormed(ListBgpvpn)
           /\ WellFormed(ShowBgpvpn(n))
           /\ WellFormed(SetBgpvpn(n, targets, wipe, to))
           /\ WellFormed(UnsetBgpvpn(n, targets, wipe))
           /\ WellFormed(CreateBgpvpnResAssoc(n, x))
           /\ WellFormed(DeleteBgpvpnResAssoc(n, xs))
           /\ WellFormed(ListBgpvpnResAssoc(n))
           /\ WellFormed(ShowBgpvpnResAssoc(n, x))
<1>1. WellFormed(SetBgpvpn(n, targets, wipe, to)) /\ WellFormed(UnsetBgpvpn(n, targets, wipe))
  BY Args2BodyFits DEF SetBgpvpn, UnsetBgpvpn
<1>2. WellFormed(ListBgpvpn) /\ WellFormed(ShowBgpvpn(n))
      /\ WellFormed(ListBgpvpnResAssoc(n)) /\ WellFormed(ShowBgpvpnResAssoc(n, x))
  BY LooksFit DEF ListBgpvpn, ShowBgpvpn
<1>3. WellFormed(DeleteBgpvpn(ns))
  BY BulkDeleteFits DEF DeleteBgpvpn
<1>4. WellFormed(CreateBgpvpnResAssoc(n, x))
  <2>1. <<>> \in Seq(M)
    OBVIOUS
  <2>2. QED
    BY <2>1, InsertsFit
<1>5. QED
  BY <1>1, <1>2, <1>3, <1>4, CreateBgpvpnFits, DeleteBgpvpnResAssocFits

-------------------------------------------------------------------------------
(* osc/v2/trunk *)

(* Members are looked up before the resource that is changed. *)
LEMMA LooksThenChange ==
    ASSUME NEW c, NEW n, c.names = {n}, NEW M, NEW xs \in Seq(M), NEW s,
           c.steps = Lookups(xs) \o <<Find(n), s>>,
           c.to \in Names \cup {None}, s.of = None, s.catch = {},
           \/ /\ s.do = "insert" /\ c.style = "add"
              /\ s.members \subseteq c.items \cap ToSet(xs)
           \/ /\ s.do = "remove" /\ c.style = "cut" /\ s.members \subseteq c.items
    PROVE  WellFormed(c)
<1> DEFINE l == Lookups(xs)
           q == l \o <<Find(n)>>
<1>1. q \o <<s>> = l \o <<Find(n), s>>
  <2> DEFINE S == ToSet(l) \cup {Find(n), s}
  <2>1. IsSteps(l)
    BY Items1 DEF Preamble
  <2>2. l \in Seq(S) /\ <<Find(n)>> \in Seq(S) /\ <<s>> \in Seq(S)
    BY <2>1, SeqMonotonic DEF IsSteps
  <2> HIDE DEF l, S
  <2>3. (l \o <<Find(n)>>) \o <<s>> = l \o (<<Find(n)>> \o <<s>>)
    BY <2>2, ConcatAssociative
  <2>4. QED
    BY <2>3, Pair
<1>2. Preamble(l, c) /\ ~ ReadsIn(l) /\ ToSet(xs) \subseteq ItemsIn(l)
  BY Items1
<1>3. c.steps = q \o <<s>>
  BY <1>1
<1> HIDE DEF l
<1>4. Preamble(q, c) /\ FindsIn(q) /\ ToSet(xs) \subseteq ItemsIn(q)
  BY <1>2, Bases, Joined
<1> HIDE DEF q
<1>5. Prepared(s, q, c)
  BY <1>4, MembersFit, WorkloadAssumption
<1>6. QED
  BY <1>3, <1>4, <1>5, OneChange

LEMMA UnsetNetworkTrunkFits ==
    ASSUME NEW n, NEW M, NEW xs \in Seq(M)
    PROVE  /\ WellFormed(UnsetNetworkTrunk(n, xs))
           /\ xs # <<>> => WellFormed(FwInsertRule(n, xs))
<1>1. WellFormed(UnsetNetworkTrunk(n, xs))
  <2> DEFINE c == UnsetNetworkTrunk(n, xs)
             s == TakeOut(ToSet(xs))
  <2>1. /\ c.steps = Lookups(xs) \o <<Find(n), s>> /\ c.names = {n}
        /\ c.items = ToSet(xs) /\ c.style = "cut" /\ c.to = None
        /\ s.do = "remove" /\ s.of = None /\ s.catch = {} /\ s.members = ToSet(xs)
    BY DEF UnsetNetworkTrunk, Command, TakeOut, Step
  <2> HIDE DEF c, s
  <2>2. WellFormed(c)
    BY <2>1, LooksThenChange
  <2>3. QED
    BY <2>2 DEF c
<1>2. ASSUME xs # <<>> PROVE WellFormed(FwInsertRule(n, xs))
  <2> DEFINE c == FwInsertRule(n, xs)
             s == Insert({xs[1]})
  <2>1. xs[1] \in ToSet(xs)
    BY <1>2 DEF ToSet
  <2>2. /\ c.steps = Lookups(xs) \o <<Find(n), s>> /\ c.names = {n}
        /\ c.items = {xs[1]} /\ c.style = "add" /\ c.to = None
        /\ s.do = "insert" /\ s.of = None /\ s.catch = {} /\ s.members = {xs[1]}
    BY DEF FwInsertRule, Command, Insert, Step
  <2> HIDE DEF c, s
  <2>3. WellFormed(c)
    BY <2>1, <2>2, LooksThenChange
  <2>4. QED
    BY <2>3 DEF c
<1>3. QED
  BY <1>1, <1>2

(* The trunk is updated, the subports are looked up, and added. *)
LEMMA SetNetworkTrunkFits ==
    ASSUME NEW n, NEW M, NEW xs \in Seq(M), xs # <<>>, NEW to \in Names \cup {None}
    PROVE  WellFormed(SetNetworkTrunk(n, xs, to))
<1> DEFINE c == SetNetworkTrunk(n, xs, to)
           a == <<Find(n), Put("keep")>>
           l == Lookups(xs)
           q == a \o l
           s == Insert(ToSet(xs))
           t == q \o <<s>>
           m == Len(xs)
           N == m + 3
<1>1. /\ c.steps = t /\ c.names = {n} /\ c.items = ToSet(xs)
      /\ c.style = "add" /\ c.to = to
  BY DEF SetNetworkTrunk, Command
<1>2. /\ s.do = "insert" /\ s.of = None /\ s.catch = {} /\ s.members = ToSet(xs)
  BY DEF Insert, Step
<1>3. /\ m \in Nat /\ DOMAIN l = 1 .. m /\ IsSteps(l) /\ Len(l) = m
      /\ \A k \in 1 .. m : /\ l[k].do = "item" /\ l[k].of = xs[k]
                           /\ l[k].catch = {}
  <2>1. /\ m \in Nat /\ DOMAIN l = 1 .. m /\ IsSteps(l)
        /\ \A k \in 1 .. m : l[k] = Step("item", xs[k], {})
    BY Items1 DEF Preamble
  <2> HIDE DEF l, m
  <2>2. l \in Seq(ToSet(l))
    BY <2>1 DEF IsSteps
  <2>3. DOMAIN l = 1 .. Len(l) /\ Len(l) \in Nat
    BY <2>2
  <2>4. Len(l) = m
    BY <2>1, <2>3
  <2>5. QED
    BY <2>1, <2>4 DEF Step
<1>4. ToSet(xs) = {xs[k] : k \in 1 .. m}
  BY DEF ToSet
<1>5. /\ Len(a) = 2 /\ DOMAIN a = {1, 2} /\ IsSteps(a)
      /\ a[1].do = "find" /\ a[1].of = n /\ a[1].catch = {}
      /\ a[2].do = "keep" /\ a[2].of = None /\ a[2].catch = {}
  <2> DEFINE f == Find(n)
             p == Put("keep")
  <2>1. /\ f.do = "find" /\ f.of = n /\ f.catch = {}
        /\ p.do = "keep" /\ p.of = None /\ p.catch = {}
    BY DEF Find, Put, Step
  <2> HIDE DEF f, p
  <2>2. Len(<<f, p>>) = 2 /\ DOMAIN <<f, p>> = {1, 2} /\ IsSteps(<<f, p>>)
    BY DEF IsSteps, ToSet
  <2>3. QED
    BY <2>1, <2>2 DEF f, p
<1> HIDE DEF s
<1>6. Len(<<s>>) = 1 /\ DOMAIN <<s>> = {1} /\ IsSteps(<<s>>) /\ <<s>>[1] = s
  BY DEF IsSteps, ToSet
<1> HIDE DEF c, a, l, m
<1>7. Spliced(q, a, l)
  BY <1>3, <1>5, Together
<1>8. Len(q) = m + 2 /\ IsSteps(q)
  <2> HIDE DEF q
  <2>1. q \in Seq(ToSet(q)) /\ DOMAIN q = 1 .. (m + 2)
    BY <1>3, <1>5, <1>7 DEF IsSteps, Spliced
  <2>2. DOMAIN q = 1 .. Len(q) /\ Len(q) \in Nat
    BY <2>1
  <2>3. QED
    BY <1>3, <1>7, <2>1, <2>2 DEF Spliced
<1>9. Spliced(t, q, <<s>>)
  <2> HIDE DEF q
  <2>1. QED
    BY <1>6, <1>8, Together
<1> HIDE DEF q, t
<1>10. DOMAIN t = 1 .. N /\ N \in Nat /\ IsSteps(t) /\ Len(t) = N
  <2>1. DOMAIN t = 1 .. N /\ IsSteps(t) /\ N \in Nat
    BY <1>3, <1>6, <1>8, <1>9 DEF Spliced
  <2>2. t \in Seq(ToSet(t))
    BY <2>1 DEF IsSteps
  <2>3. DOMAIN t = 1 .. Len(t) /\ Len(t) \in Nat
    BY <2>2
  <2>4. QED
    BY <2>1, <2>3
<1>11. /\ t[1] = a[1] /\ t[2] = a[2] /\ t[N] = s
       /\ \A k \in 1 .. m : 2 + k \in 1 .. N /\ t[2 + k] = l[k]
  <2>1. /\ \A k \in {1, 2} : k \in DOMAIN q /\ q[k] = a[k]
        /\ \A k \in 1 .. m : 2 + k \in DOMAIN q /\ q[2 + k] = l[k]
    BY <1>3, <1>5, <1>7 DEF Spliced
  <2>2. /\ \A k \in DOMAIN q : k \in DOMAIN t /\ t[k] = q[k]
        /\ t[(m + 2) + 1] = s
    BY <1>6, <1>8, <1>9 DEF Spliced
  <2>3. QED
    BY <1>3, <1>10, <2>1, <2>2
<1>12. \A k \in 1 .. N : k = 1 \/ k = 2 \/ k = N \/ \E f \in 1 .. m : k = 2 + f
  <2> SUFFICES ASSUME NEW k \in 1 .. N, k # 1, k # 2, k # N
               PROVE  \E f \in 1 .. m : k = 2 + f
    OBVIOUS
  <2>1. k - 2 \in 1 .. m /\ k = 2 + (k - 2)
    BY <1>3
  <2>2. QED
    BY <2>1
<1>13. 1 \in 1 .. N /\ 2 \in 1 .. N /\ N \in 1 .. N /\ N # 1 /\ N # 2
  BY <1>3
<1> HIDE DEF N
<1>14. ASSUME NEW k \in 1 .. N
       PROVE  /\ t[k].do \in {"find", "keep", "item", "insert"} /\ t[k].do \in Deeds
              /\ t[k].do = "find" <=> k = 1
              /\ t[k].do = "keep" <=> k = 2
              /\ t[k].do = "insert" <=> k = N
              /\ Writes(t[k]) <=> k \in {2, N}
              /\ t[k].catch = {}
              /\ StaysWith(t[k], c)
  <2>1. CASE k = 1
    BY <1>1, <1>5, <1>11, <1>13, <2>1 DEF Writes, Method, Styles, Deeds, StaysWith
  <2>2. CASE k = 2
    BY <1>1, <1>5, <1>11, <1>13, <2>2, WorkloadAssumption
       DEF Writes, Method, Styles, Deeds, StaysWith
  <2>3. CASE k = N
    BY <1>1, <1>2, <1>11, <1>13, <2>3, WorkloadAssumption
       DEF Writes, Method, Styles, Deeds, StaysWith
  <2>4. ASSUME NEW f \in 1 .. m, k = 2 + f, k # N
        PROVE  t[k] = l[f] /\ k # 1 /\ k # 2
    BY <1>3, <1>11, <2>4
  <2>5. ASSUME NEW f \in 1 .. m, k = 2 + f, k # N
        PROVE  t[k].do = "item" /\ t[k].catch = {} /\ k # 1 /\ k # 2
    BY <1>3, <2>4, <2>5
  <2>6. CASE k # 1 /\ k # 2 /\ k # N
    <3>1. t[k].do = "item" /\ t[k].catch = {}
      BY <1>12, <2>5, <2>6
    <3>2. QED
      BY <2>6, <3>1 DEF Writes, Method, Styles, Deeds, StaysWith
  <2>7. QED
    BY <2>1, <2>2, <2>3, <2>6
<1>15. LooksUp(t)
  <2>1. ASSUME NEW k \in 1 .. N, NeedsId(t[k]) PROVE 1 \in 1 .. (k - 1)
    BY <1>13, <1>14, <2>1 DEF NeedsId
  <2>2. QED
    BY <1>10, <1>13, <1>14, <2>1 DEF LooksUp
<1>16. KnowsMembers(t, c)
  <2> SUFFICES ASSUME NEW k \in 1 .. N, NEW i \in AddedBy(t[k], c)
               PROVE  \E f \in 1 .. (k - 1) : t[f].do = "item" /\ t[f].of = i
    BY <1>10 DEF KnowsMembers
  <2>1. k = N /\ i \in ToSet(xs)
    BY <1>2, <1>11, <1>14 DEF AddedBy
  <2>2. PICK f \in 1 .. m : i = xs[f]
    BY <1>4, <2>1
  <2>3. 2 + f \in 1 .. (N - 1) /\ t[2 + f].do = "item" /\ t[2 + f].of = i
    BY <1>3, <1>11, <2>2 DEF N
  <2>4. QED
    BY <2>1, <2>3
<1>17. ReadsFirst(t) /\ ReadsLate(t, c)
  BY <1>10, <1>14 DEF ReadsFirst, ReadsLate, Reads, WritesBack
<1>18. InOrder(t, c)
  <2>1. ~ Creates(c)
    BY <1>1, <1>10, <1>14 DEF Creates
  <2>2. QED
    BY <1>10, <1>13, <1>14, <2>1 DEF InOrder
<1>19. WellFormed(c)
  BY <1>1, <1>10, <1>14, <1>15, <1>16, <1>17, <1>18 DEF WellFormed, IsSteps
<1>20. QED
  BY <1>19 DEF c

LEMMA SetNetworkTrunkAlone ==
    ASSUME NEW n, NEW to \in Names \cup {None}
    PROVE  WellFormed(SetNetworkTrunk(n, <<>>, to))
<1> DEFINE c == SetNetworkTrunk(n, <<>>, to)
           q == <<Find(n)>>
           t == <<Find(n), Put("keep")>>
<1>1. t \o Lookups(<<>>) \o <<>> = t
  <2>1. Lookups(<<>>) = <<>>
    BY DEF Lookups
  <2>2. t \in Seq({Find(n), Put("keep")})
    OBVIOUS
  <2> HIDE DEF t
  <2>3. t \o <<>> = t
    BY <2>2, ConcatEmptySeq
  <2>4. QED
    BY <2>1, <2>3
<1>2. c.steps = q \o <<Put("keep")>> /\ c.names = {n} /\ c.to = to
  BY <1>1, Pair DEF SetNetworkTrunk, Command
<1> HIDE DEF c
<1>3. Preamble(q, c) /\ FindsIn(q)
  BY <1>2, Bases
<1>4. Prepared(Put("keep"), q, c)
  BY <1>3, PutFits DEF Styles
<1>5. WellFormed(c)
  BY <1>2, <1>3, <1>4, OneChange
<1>6. QED
  BY <1>5 DEF c

(* osc/v2/trunk: the same of its commands, although setting subports is a  *)
(* second change.                                                          *)
THEOREM TrunkWellFormed ==
    ASSUME NEW n \in Names, NEW to \in Names \cup {None}, NEW M,
           NEW xs \in Seq(M), NEW ns \in Seq(M)
    PROVE  /\ WellFormed(CreateNetworkTrunk(n, xs))
           /\ WellFormed(DeleteNetworkTrunk(ns))
           /\ WellFormed(ListNetworkTrunk)
           /\ WellFormed(ShowNetworkTrunk(n))
           /\ WellFormed(ListNetworkSubport(n))
           /\ WellFormed(SetNetworkTrunk(n, xs, to))
           /\ WellFormed(UnsetNetworkTrunk(n, xs))
<1>1. WellFormed(SetNetworkTrunk(n, xs, to))
  BY SetNetworkTrunkFits, SetNetworkTrunkAlone
<1>2. QED
  BY <1>1, CreateFits, BulkDeleteFits, LooksFit, UnsetNetworkTrunkFits
     DEF CreateNetworkTrunk, DeleteNetworkTrunk, ListNetworkTrunk, ShowNetworkTrunk,
         ListNetworkSubport

-------------------------------------------------------------------------------
(* neutron/v2_0 *)

LEMMA GatewaysFit ==
    ASSUME NEW n, NEW x
    PROVE  WellFormed(SetGatewayRouter(n, x)) /\ WellFormed(RemoveGatewayRouter(n))
<1>1. WellFormed(SetGatewayRouter(n, x))
  <2> DEFINE c == SetGatewayRouter(n, x)
             q == <<Find(n)>> \o Lookups(<<x>>)
  <2>1. /\ c.steps = q \o <<Put("replace")>> /\ c.names = {n} /\ c.items = {x}
        /\ c.style = "replace" /\ c.to = None
    BY DEF SetGatewayRouter, Command
  <2> HIDE DEF c
  <2>2. <<x>> \in Seq({x}) /\ ToSet(<<x>>) = {x}
    BY DEF ToSet
  <2>3. Preamble(q, c) /\ FindsIn(q) /\ {x} \subseteq ItemsIn(q)
    BY <2>1, <2>2, FindItems
  <2> HIDE DEF q
  <2>4. Prepared(Put("replace"), q, c)
    BY <2>1, <2>3, PutFits DEF Styles
  <2>5. WellFormed(c)
    BY <2>1, <2>3, <2>4, OneChange
  <2>6. QED
    BY <2>5 DEF c
<1>2. WellFormed(RemoveGatewayRouter(n))
  <2> DEFINE c == RemoveGatewayRouter(n)
             q == <<Find(n)>>
  <2>1. /\ c.steps = q \o <<Put("replace")>> /\ c.names = {n} /\ c.items = {}
        /\ c.style = "replace" /\ c.to = None
    BY Pair DEF RemoveGatewayRouter, Command
  <2> HIDE DEF c
  <2>2. Preamble(q, c) /\ FindsIn(q)
    BY <2>1, Bases
  <2>3. Prepared(Put("replace"), q, c)
    BY <2>1, <2>2, PutFits DEF Styles
  <2>4. WellFormed(c)
    BY <2>1, <2>2, <2>3, OneChange
  <2>5. QED
    BY <2>4 DEF c
<1>3. QED
  BY <1>1, <1>2

LEMMA ToAgentFits ==
    ASSUME NEW i \in Ids, NEW x
    PROVE  /\ WellFormed(ToAgent(i, x, "associate", "add"))
           /\ WellFormed(ToAgent(i, x, "dissociate", "cut"))
<1>1. ASSUME NEW what, NEW style,
             \/ what = "associate" /\ style = "add"
             \/ what = "dissociate" /\ style = "cut"
      PROVE  WellFormed(ToAgent(i, x, what, style))
  <2> DEFINE c == ToAgent(i, x, what, style)
             q == Lookups(<<x>>)
             s == [Step(what, None, {x}) EXCEPT !.of = i]
  <2>1. /\ c.steps = Append(q, s) /\ c.names = {i} /\ c.items = {x}
        /\ c.style = style /\ c.to = None
    BY DEF ToAgent, Command
  <2>2. s.do = what /\ s.of = i /\ s.members = {x} /\ s.catch = {}
    BY DEF Step
  <2> HIDE DEF c, s
  <2>3. <<x>> \in Seq({x}) /\ ToSet(<<x>>) = {x}
    BY DEF ToSet
  <2>4. Preamble(q, c) /\ {x} \subseteq ItemsIn(q)
    BY <2>3, Items1
  <2> HIDE DEF q
  <2>5. Append(q, s) = q \o <<s>>
    <3>1. q \in Seq(ToSet(q) \cup {s})
      BY <2>4, SeqMonotonic DEF Preamble, IsSteps
    <3>2. QED
      BY <3>1, AppendIsConcat
  <2>6. Prepared(s, q, c)
    BY <1>1, <2>1, <2>2, <2>4, MembersFit
  <2>7. WellFormed(c)
    BY <2>1, <2>4, <2>5, <2>6, OneChange
  <2>8. QED
    BY <2>7 DEF c
<1>2. QED
  BY <1>1

LEMMA UpdateFloatingIPFits ==
    ASSUME NEW i \in Ids, NEW S \in SUBSET Items
    PROVE  WellFormed(UpdateFloatingIP(i, S))
<1> DEFINE c == UpdateFloatingIP(i, S)
           s == [Put("replace") EXCEPT !.of = i]
<1>1. /\ c.steps = <<s>> /\ c.names = {i} /\ c.items = S
      /\ c.style = "replace" /\ c.to = None
  BY DEF UpdateFloatingIP, Command
<1>2. s.do = "replace" /\ s.of = i /\ s.catch = {}
  BY DEF Put, Step
<1> HIDE DEF c, s
<1>3. <<>> \o <<s>> = <<s>>
  <2>1. <<s>> \in Seq({s})
    OBVIOUS
  <2>2. QED
    BY <2>1, ConcatEmptySeq
<1>4. Prepared(s, <<>>, c)
  <2>1. Writes(s) /\ s.do \in Deeds
    BY <1>2 DEF Writes, Method, Deeds, Styles
  <2>2. StaysWith(s, c)
    BY <1>1, <1>2 DEF StaysWith, Styles
  <2>3. AddedBy(s, c) \subseteq Items
    BY <1>1, <1>2 DEF AddedBy
  <2>4. QED
    BY <1>2, <2>1, <2>2, <2>3 DEF Prepared, WritesBack
<1>5. WellFormed(c)
  BY <1>1, <1>3, <1>4, EmptyFits, OneChange
<1>6. QED
  BY <1>5 DEF c

LEMMA UpdateCommandFits ==
    ASSUME NEW n, NEW to \in Names \cup {None}
    PROVE  WellFormed(UpdateCommand(n, to))
<1>1. CASE to = None
  <2> DEFINE c == UpdateCommand(n, to)
  <2>1. c.steps = <<Raise>> /\ c.names = {n} /\ c.to = None
    BY <1>1 DEF UpdateCommand, Command
  <2> HIDE DEF c
  <2>2. WellFormed(c)
    BY <2>1, Bases, OnlyLooks
  <2>3. QED
    BY <2>2 DEF c
<1>2. CASE to # None
  BY <1>2, RenameFits DEF UpdateCommand
<1>3. QED
  BY <1>1, <1>2

LEMMA PurgeFits == WellFormed(Purge)
<1> DEFINE c == Purge
           s == Step("survey", None, {})
<1>1. c.steps = <<s>> /\ c.names = Names /\ c.to = None
  BY DEF Purge, Command
<1>2. s.do = "survey" /\ s.of = None /\ s.catch = {}
  BY DEF Step
<1> HIDE DEF s
<1>3. /\ <<s>> \in Seq(ToSet(<<s>>)) /\ DOMAIN <<s>> = {1} /\ <<s>>[1] = s
      /\ Len(<<s>>) = 1
  BY DEF ToSet
<1>4. ~ Writes(s) /\ s.do \in Deeds
  BY <1>2 DEF Writes, Method, Deeds, Styles
<1>5. StaysWith(s, c)
  BY <1>2, <1>4 DEF StaysWith, Styles
<1> HIDE DEF c
<1>6. LooksUp(c.steps) /\ KnowsMembers(c.steps, c)
  BY <1>1, <1>2, <1>3, <1>4 DEF LooksUp, KnowsMembers, NeedsId, AddedBy
<1>7. InOrder(c.steps, c)
  <2>1. ChangesIn(c.steps) = {} /\ ~ Creates(c)
    BY <1>1, <1>2, <1>3, <1>4 DEF ChangesIn, Creates
  <2>2. QED
    BY <1>1, <1>2, <1>3, <1>4, <2>1 DEF InOrder
<1>8. ReadsFirst(c.steps) /\ ReadsLate(c.steps, c)
  BY <1>1, <1>2, <1>3 DEF ReadsFirst, ReadsLate, Reads, WritesBack
<1>9. WellFormed(c)
  BY <1>1, <1>3, <1>5, <1>6, <1>7, <1>8 DEF WellFormed
<1>10. QED
  BY <1>9 DEF c

(* neutron/v2_0: the same of the older commands. A floating IP is given a  *)
(* port by its id, which must be one the server knows.                     *)
THEOREM OlderWellFormed ==
    ASSUME NEW n \in Names, NEW to \in Names \cup {None}, NEW M,
           NEW xs \in Seq(M), NEW ns \in Seq(M), NEW x \in M, NEW i \in Ids,
           NEW port \in Items
    PROVE  /\ WellFormed(CreateCommand(n)) /\ WellFormed(ListCommand)
           /\ WellFormed(ShowCommand(n)) /\ WellFormed(UpdateCommand(n, to))
           /\ WellFormed(DeleteCommand(ns)) /\ WellFormed(Purge)
           /\ WellFormed(AddInterfaceRouter(n, x))
           /\ WellFormed(RemoveInterfaceRouter(n, x))
           /\ WellFormed(SetGatewayRouter(n, x))
           /\ WellFormed(RemoveGatewayRouter(n))
           /\ xs # <<>> => WellFormed(FwInsertRule(n, xs))
           /\ WellFormed(FwRemoveRule(n, x))
           /\ WellFormed(AddNetworkToDhcpAgent(i, x))
           /\ WellFormed(RemoveNetworkFromDhcpAgent(i, x))
           /\ WellFormed(AddRouterToL3Agent(i, x))
           /\ WellFormed(RemoveRouterFromL3Agent(i, x))
           /\ WellFormed(ListNetworksOnDhcpAgent) /\ WellFormed(ListRoutersOnL3Agent)
           /\ WellFormed(ListDhcpAgentsHostingNetwork(n))
           /\ WellFormed(ListL3AgentsHostingRouter(n))
           /\ WellFormed(AddBGPSpeakerToDRAgent(i, x))
           /\ WellFormed(RemoveBGPSpeakerFromDRAgent(i, x))
           /\ WellFormed(ListBGPSpeakersOnDRAgent)
           /\ WellFormed(ListDRAgentsHostingBGPSpeaker(n))
           /\ WellFormed(AddPeerToSpeaker(n, x))
           /\ WellFormed(RemovePeerFromSpeaker(n, x))
           /\ WellFormed(AddNetworkToSpeaker(n, x))
           /\ WellFormed(RemoveNetworkFromSpeaker(n, x))
           /\ WellFormed(ListRoutesAdvertisedBySpeaker(n))
           /\ WellFormed(AssociateFloatingIP(i, port))
           /\ WellFormed(DisassociateFloatingIP(i))
           /\ WellFormed(AssociateFlavor(n, x)) /\ WellFormed(DisassociateFlavor(n, x))
<1>1. <<>> \in Seq(M) /\ <<x>> \in Seq(M) /\ <<x>> # <<>>
  OBVIOUS
<1>2. WellFormed(CreateCommand(n))
  BY <1>1, CreateFits DEF CreateCommand
<1>3. /\ WellFormed(ListCommand) /\ WellFormed(ShowCommand(n))
      /\ WellFormed(ListNetworksOnDhcpAgent) /\ WellFormed(ListRoutersOnL3Agent)
      /\ WellFormed(ListDhcpAgentsHostingNetwork(n))
      /\ WellFormed(ListL3AgentsHostingRouter(n))
      /\ WellFormed(ListBGPSpeakersOnDRAgent)
      /\ WellFormed(ListDRAgentsHostingBGPSpeaker(n))
      /\ WellFormed(ListRoutesAdvertisedBySpeaker(n))
  BY LooksFit
     DEF ListCommand, ShowCommand, ListNetworksOnDhcpAgent, ListRoutersOnL3Agent,
         ListDhcpAgentsHostingNetwork, ListL3AgentsHostingRouter,
         ListBGPSpeakersOnDRAgent, ListDRAgentsHostingBGPSpeaker,
         ListRoutesAdvertisedBySpeaker
<1>4. WellFormed(DeleteCommand(ns))
  BY BulkDeleteFits DEF DeleteCommand
<1>5. /\ WellFormed(AddInterfaceRouter(n, x)) /\ WellFormed(AddPeerToSpeaker(n, x))
      /\ WellFormed(AddNetworkToSpeaker(n, x))
  BY <1>1, InsertsFit DEF AddInterfaceRouter, AddPeerToSpeaker, AddNetworkToSpeaker
<1>6. /\ WellFormed(RemoveInterfaceRouter(n, x)) /\ WellFormed(RemovePeerFromSpeaker(n, x))
      /\ WellFormed(RemoveNetworkFromSpeaker(n, x))
      /\ WellFormed(AssociateFlavor(n, x)) /\ WellFormed(DisassociateFlavor(n, x))
  BY <1>1, InsertsFit
     DEF RemoveInterfaceRouter, RemovePeerFromSpeaker, RemoveNetworkFromSpeaker,
         AssociateFlavor
<1>7. /\ xs # <<>> => WellFormed(FwInsertRule(n, xs))
      /\ WellFormed(FwRemoveRule(n, x))
  BY <1>1, UnsetNetworkTrunkFits DEF FwRemoveRule
<1>8. /\ WellFormed(AddNetworkToDhcpAgent(i, x))
      /\ WellFormed(RemoveNetworkFromDhcpAgent(i, x))
      /\ WellFormed(AddRouterToL3Agent(i, x))
      /\ WellFormed(RemoveRouterFromL3Agent(i, x))
      /\ WellFormed(AddBGPSpeakerToDRAgent(i, x))
      /\ WellFormed(RemoveBGPSpeakerFromDRAgent(i, x))
  BY ToAgentFits
     DEF AddNetworkToDhcpAgent, RemoveNetworkFromDhcpAgent, AddRouterToL3Agent,
         RemoveRouterFromL3Agent, AddBGPSpeakerToDRAgent, RemoveBGPSpeakerFromDRAgent
<1>9. WellFormed(AssociateFloatingIP(i, port)) /\ WellFormed(DisassociateFloatingIP(i))
  BY UpdateFloatingIPFits DEF AssociateFloatingIP, DisassociateFloatingIP
<1>10. QED
  BY <1>2, <1>3, <1>4, <1>5, <1>6, <1>7, <1>8, <1>9, UpdateCommandFits, PurgeFits,
     GatewaysFit

-------------------------------------------------------------------------------
(* common/api.py *)

LEMMA ToSwitchFits ==
    ASSUME NEW on \in BOOLEAN, NEW n, NEW x \in Items
    PROVE  /\ WellFormed(ToSwitch(on, n, "configure", x, "add"))
           /\ WellFormed(ToSwitch(on, n, "withdraw", x, "cut"))
<1>1. ASSUME NEW what, NEW style,
             \/ what = "configure" /\ style = "add"
             \/ what = "withdraw" /\ style = "cut"
      PROVE  WellFormed(ToSwitch(on, n, what, x, style))
  <2> DEFINE c == ToSwitch(on, n, what, x, style)
             q == <<First(n)>>
             s == Step(what, None, {x})
  <2>1. /\ c.steps = IF on THEN q \o <<s>> ELSE <<>>
        /\ c.names = {n} /\ c.items = {x} /\ c.style = style /\ c.to = None
    BY Pair DEF ToSwitch, Command
  <2>2. s.do = what /\ s.of = None /\ s.members = {x} /\ s.catch = {}
    BY DEF Step
  <2> HIDE DEF c, s
  <2>3. Preamble(q, c) /\ FindsIn(q)
    BY <2>1, Bases
  <2> HIDE DEF q
  <2>4. Prepared(s, q, c)
    BY <1>1, <2>1, <2>2, <2>3, MembersFit, WorkloadAssumption
  <2>5. CASE on
    BY <2>1, <2>3, <2>4, <2>5, OneChange DEF c
  <2>6. CASE ~ on
    BY <2>1, <2>6, EmptyFits, OnlyLooks DEF c
  <2>7. QED
    BY <2>5, <2>6
<1>2. QED
  BY <1>1

(* The requests to AFC have that form too: a switch is looked up, then     *)
(* changed, and nothing is sent where is_send_afc is off.                  *)
THEOREM AfcWellFormed ==
    ASSUME NEW on \in BOOLEAN, NEW n, NEW x \in Items
    PROVE  /\ WellFormed(SendConfigToAfc(on, n, x))
           /\ WellFormed(DeleteConfigFromAfc(on, n, x))
           /\ WellFormed(CreateOrUpdateVrf(on, n, x))
           /\ WellFormed(DeleteOrUpdateVrf(on, n, x))
BY ToSwitchFits DEF SendConfigToAfc, DeleteConfigFromAfc, CreateOrUpdateVrf,
                    DeleteOrUpdateVrf

===============================================================================
