-------------------------- MODULE HttpActuatorProofs --------------------------
(***************************************************************************)
(* Proofs about HttpActuator, for any URLs, addresses, bodies and limits.   *)
(***************************************************************************)
EXTENDS HttpActuator, TLAPS

LEMMA TypeInit == Init => TypeOK
  BY HttpConstants DEF Init, TypeOK, Awaiting, Ended

(* A request that ends without an answer is as well typed as before.          *)
LEMMA EndIsTyped ==
  ASSUME TypeOK, pc \in Awaiting, NEW how \in Ended \ {"ok"}, End(how)
  PROVE  TypeOK'
  BY DEF TypeOK, End, Awaiting, Ended

(* Every step of the request, its timer and its network keeps the types.      *)
LEMMA TypeNext == TypeOK /\ [Next]_vars => TypeOK'
<1> SUFFICES ASSUME TypeOK, [Next]_vars PROVE TypeOK'
  OBVIOUS
<1>1. ASSUME NEW addresses \in SUBSET Addresses, Resolve(addresses) PROVE TypeOK'
  <2>1. CASE End("unavailable") \/ End("invalid_target")
    BY <1>1, <2>1, EndIsTyped DEF Resolve, Awaiting, Ended
  <2>2. CASE /\ pc' = "sending" /\ at' = Normal[url]
             /\ UNCHANGED <<url, method, hops, peer, body, answer, clock>>
    <3>1. url \in Urls /\ Normal[url] \in Urls /\ Normal[Normal[url]] = Normal[url]
      BY HttpConstants DEF TypeOK
    <3> QED BY <1>1, <2>2, <3>1 DEF Resolve, TypeOK, Awaiting
  <2> QED BY <1>1, <2>1, <2>2 DEF Resolve
<1>2. ASSUME NEW location \in Urls \cup Plaintext, NEW keeps \in BOOLEAN,
             Redirect(location, keeps)
      PROVE  TypeOK'
  <2>1. CASE End("redirect_error") \/ End("unavailable")
    BY <1>2, <2>1, EndIsTyped DEF Redirect, Awaiting, Ended
  <2>2. CASE /\ hops # MaxRedirects /\ location \notin Plaintext
             /\ at' = Normal[location] /\ hops' = hops + 1
             /\ method' = (IF keeps THEN method ELSE "GET")
             /\ UNCHANGED <<pc, url, peer, body, answer, clock>>
    <3>1. Normal[location] \in Urls /\ Normal[Normal[location]] = Normal[location]
      BY <2>2, HttpConstants
    <3>2. hops' \in 0 .. MaxRedirects /\ method' \in {"GET", "POST"}
      BY <2>2, HttpConstants DEF TypeOK
    <3> QED BY <1>2, <2>2, <3>1, <3>2 DEF Redirect, TypeOK
  <2> QED BY <1>2, <2>1, <2>2 DEF Redirect
<1>3. ASSUME NEW from \in Addresses \cup {NoAddress}, Reply(from) PROVE TypeOK'
  BY <1>3 DEF Reply, TypeOK, Awaiting, Ended
<1>4. ASSUME NEW b \in Bodies, ReadBody(b) PROVE TypeOK'
  <2> DEFINE bytes == IF Truncated(b) THEN MaxResponse ELSE b.length
             read  == [bytes |-> bytes, truncated |-> Truncated(b)]
  <2>1. read \in Answers /\ read # NoAnswer
    <3>1. b.length \in Nat /\ MaxResponse \in Nat
      BY HttpConstants
    <3>2. read \in Answers
      BY <3>1 DEF Answers, Truncated
    <3> QED BY <3>2, HttpConstants DEF Answers
  <2>2. /\ pc = "reading" /\ body' = b
        /\ UNCHANGED <<url, at, method, hops, peer, clock>>
        /\ \/ pc' = "unavailable" /\ UNCHANGED answer
           \/ pc' = "ok" /\ answer' = read
    BY <1>4 DEF ReadBody
  <2> QED BY <2>1, <2>2 DEF TypeOK, Awaiting, Ended
<1>5. CASE Fail
  BY <1>5, EndIsTyped DEF Fail, Awaiting, Ended
<1>6. CASE TimerFires \/ Drop
  BY <1>6, EndIsTyped DEF TimerFires, Drop, Ended
<1>7. CASE Tick
  BY <1>7, HttpConstants DEF Tick, TypeOK
<1>8. CASE UNCHANGED vars
  BY <1>8 DEF vars, TypeOK
<1> QED BY <1>1, <1>2, <1>3, <1>4, <1>5, <1>6, <1>7, <1>8 DEF Next, Network

(* The request's variables keep their types, whatever servers answer: at most *)
(* three redirects, an answer exactly when the request ends well.             *)
THEOREM HttpTypeCorrect == Spec => []TypeOK
  BY TypeInit, TypeNext, PTL DEF Spec

-----------------------------------------------------------------------------
(* What the checks on the head of the reply established still holds while its *)
(* body is read, and the answer is made of that body.                         *)
Vetted ==
    pc \in {"reading", "ok"} => at \in Allowed /\ (peer # NoAddress => ~IsPrivate(peer))

Whole ==
    pc = "ok" =>
        /\ body \in Bodies
        /\ answer.bytes = (IF body.length < MaxResponse THEN body.length ELSE MaxResponse)
        /\ answer.truncated <=> answer.bytes < body.length

LEMMA VettedInit == Init => Vetted /\ Whole
  BY DEF Init, Vetted, Whole

LEMMA VettedNext == TypeOK /\ Vetted /\ Whole /\ [Next]_vars => Vetted' /\ Whole'
<1> SUFFICES ASSUME TypeOK, Vetted, Whole, [Next]_vars PROVE Vetted' /\ Whole'
  OBVIOUS
<1>1. ASSUME pc' \notin {"reading", "ok"} PROVE Vetted' /\ Whole'
  BY <1>1 DEF Vetted, Whole
<1>2. ASSUME NEW from \in Addresses \cup {NoAddress}, Reply(from) PROVE Vetted' /\ Whole'
  <2>1. CASE pc' = "reading"
    <3>1. FinalIsListed /\ ~(from # NoAddress /\ IsPrivate(from)) /\ at' = at /\ peer' = from
      BY <1>2, <2>1 DEF Reply
    <3>2. at \in Allowed
      BY <3>1 DEF FinalIsListed, TypeOK
    <3> QED BY <2>1, <3>1, <3>2 DEF Vetted, Whole, IsPrivate
  <2>2. CASE pc' # "reading"
    BY <1>1, <1>2, <2>2 DEF Reply
  <2> QED BY <2>1, <2>2
<1>3. ASSUME NEW b \in Bodies, ReadBody(b) PROVE Vetted' /\ Whole'
  <2> DEFINE bytes == IF Truncated(b) THEN MaxResponse ELSE b.length
  <2>1. pc = "reading" /\ body' = b /\ UNCHANGED <<at, peer>>
    BY <1>3 DEF ReadBody
  <2>2. CASE pc' = "ok"
    <3>1. answer' = [bytes |-> bytes, truncated |-> Truncated(b)]
      BY <1>3, <2>2 DEF ReadBody
    <3>2. b.length \in Nat /\ MaxResponse \in Nat
      BY HttpConstants
    <3>3. Whole'
      <4>1. answer'.bytes = bytes /\ (answer'.truncated <=> Truncated(b))
        BY <3>1, Zenon
      <4>2. bytes = (IF b.length < MaxResponse THEN b.length ELSE MaxResponse)
            /\ (Truncated(b) <=> bytes < b.length)
        BY <3>2 DEF Truncated
      <4> QED BY <2>1, <4>1, <4>2 DEF Whole
    <3>4. Vetted'
      BY <2>1 DEF Vetted, IsPrivate
    <3> QED BY <3>3, <3>4
  <2>3. CASE pc' # "ok"
    BY <1>1, <1>3, <2>3 DEF ReadBody
  <2> QED BY <2>2, <2>3
<1>4. ASSUME pc \in Awaiting, UNCHANGED <<pc, at, peer>> PROVE Vetted' /\ Whole'
  BY <1>4 DEF Vetted, Whole, Awaiting, IsPrivate
<1>5. CASE Tick
  BY <1>4, <1>5 DEF Tick
<1>6. ASSUME NEW addresses \in SUBSET Addresses, Resolve(addresses) PROVE Vetted' /\ Whole'
  BY <1>1, <1>6 DEF Resolve, End
<1>7. ASSUME NEW location \in Urls \cup Plaintext, NEW keeps \in BOOLEAN,
             Redirect(location, keeps)
      PROVE  Vetted' /\ Whole'
  BY <1>1, <1>7 DEF Redirect, End
<1>8. CASE Fail \/ TimerFires \/ Drop
  BY <1>1, <1>8 DEF Fail, TimerFires, Drop, End
<1>9. CASE UNCHANGED vars
  BY <1>9 DEF vars, Vetted, Whole, IsPrivate
<1> QED BY <1>2, <1>3, <1>5, <1>6, <1>7, <1>8, <1>9 DEF Next, Network

(* Whatever names stand for, wherever servers redirect and whatever they send: *)
(* what an agent is shown comes from an allowed URL and not from an address    *)
(* known to be private, and is all of the body or says that it is not.        *)
THEOREM AnswersAreVetted == Spec => []AnswerIsVetted
<1>1. Vetted /\ Whole => AnswerIsVetted
  BY DEF Vetted, Whole, AnswerIsVetted
<1> QED BY <1>1, HttpTypeCorrect, VettedInit, VettedNext, PTL DEF Spec
=============================================================================
