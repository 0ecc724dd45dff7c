------------------------ MODULE SCDTransactionsProofs ------------------------
(***************************************************************************)
(* Proofs about SCDTransactions: it implements AtomicCalls, for any number *)
(* of calls, retries and instants.  What makes the captured request        *)
(* harmless is Captured: whatever an earlier run of the closure left there *)
(* is what a run on the version that the request names would find again.   *)
(***************************************************************************)
EXTENDS SCDTransactions, TLAPS

\* The start time in a captured request is the client's, or what a run filled
\* in: an instant of the call, or the start of the row of the version named,
\* which no row of that version can have lost.
Captured(c) ==
  \/ start[c] = req[c].start
  \/ /\ req[c].start = Nil
     /\ start[c] # Nil
     /\ IF req[c].version = Nil THEN start[c] \in req[c].sent .. now
        ELSE sub # Nil /\ sub.ovn = req[c].version => sub.start = start[c]

\* A call under way was sent, names a version that was given out, and is not answered.
UnderWay(c) ==
  pc[c] \in {"run", "commit"} =>
    /\ req[c] # Nil
    /\ req[c].version # Nil => req[c].version <= stamp
    /\ req[c].sent <= now
    /\ answer[c] = "none"

\* A call that was not sent is not answered.
NotSent(c) == req[c] = Nil => answer[c] = "none"

\* A closure that has run read the version that its request names.
RanOnNamedVersion(c) ==
  pc[c] = "commit" => start[c] # Nil /\ req[c].version = VersionOf(seen[c])

\* The versions of the row have been given out.
VersionsGiven ==
  /\ sub # Nil => sub.ovn <= stamp
  /\ \A c \in Calls : seen[c] # Nil => seen[c].ovn <= stamp

\* The inductive invariant.
IInv ==
  /\ TypeOK
  /\ VersionsGiven
  /\ \A c \in Calls : UnderWay(c) /\ NotSent(c)
  /\ \A c \in Puts : (pc[c] \in {"run", "commit"} => Captured(c)) /\ RanOnNamedVersion(c)
  /\ \A c \in Arbitrations : req[c] # Nil => req[c].status \in Statuses

-----------------------------------------------------------------------------
(* Types *)

\* Ending a call keeps the types of what it touches.
LEMMA ReturnType ==
  ASSUME TypeOK, NEW c \in Calls, NEW a \in Answers, Return(c, a)
  PROVE  /\ answer' \in [Calls -> Answers]
         /\ pc' \in [Calls -> Phases]
         /\ start' \in [Calls -> Int \cup {Nil}]
         /\ seen' \in [Calls -> Sub \cup {Nil}]
         /\ tries' \in [Calls -> 0..MaxRetries]
<1>1. MaxRetries \in Nat  BY RetriesAssumption
<1> QED  BY <1>1 DEF TypeOK, Return, Phases

\* A request that a client may send is a request.
LEMMA SendType ==
  ASSUME TypeOK, NEW c \in Calls, Send(c)
  PROVE  /\ req' \in [Calls -> Request \cup {Nil}]
         /\ req'[c] \in Request
         /\ \A d \in Calls \ {c} : req'[d] = req[d]
         /\ req'[c].version # Nil => req'[c].version <= stamp
         /\ req'[c].sent = now
         /\ c \in Arbitrations => req'[c].status \in Statuses
<1>1. PICK v \in {Nil} \cup 1..stamp, s \in IF c \in Puts THEN StartTimes ELSE {Nil},
           a \in IF c \in Puts THEN {Nil} ELSE Statuses :
        req' = [req EXCEPT ![c] = [version |-> v, start |-> s, status |-> a, sent |-> now]]
  BY DEF Send
<1> DEFINE r == [version |-> v, start |-> s, status |-> a, sent |-> now]
<1>2. v \in Nat \cup {Nil} /\ s \in Int \cup {Nil} /\ a \in Statuses \cup {Nil} /\ now \in Nat
  BY StartTimesAssumption, BoundsAssumption DEF TypeOK
<1>3. r \in Request  BY <1>2 DEF Request
<1>4. req'[c] = r /\ \A d \in Calls \ {c} : req'[d] = req[d]  BY <1>1 DEF TypeOK
<1>5. req' \in [Calls -> Request \cup {Nil}]  BY <1>1, <1>3 DEF TypeOK
<1>6. v # Nil => v <= stamp  BY DEF TypeOK
<1>7. c \in Arbitrations => a \in Statuses  BY CallsAssumption
<1> QED  BY <1>3, <1>4, <1>5, <1>6, <1>7

\* What a commit writes is a row.
LEMMA ApplyType ==
  ASSUME TypeOK, NEW c \in Calls, Apply(c),
         c \in Puts => start[c] # Nil,
         c \in Arbitrations => req[c] # Nil /\ req[c].status \in Statuses
  PROVE  /\ sub' \in Sub \cup {Nil}
         /\ avail' \in Avail \cup {Nil}
         /\ stamp' \in Nat
<1>1. stamp \in Nat /\ stamp' = stamp + 1  BY DEF TypeOK, Apply
<1>2. CASE c \in Puts
  <2>1. sub' = [ovn |-> stamp + 1, start |-> start[c], index |-> IndexOf(seen[c])] /\ avail' = avail
    BY <1>2 DEF Apply, UpsertedRow
  <2>2. start[c] \in Int  BY <1>2 DEF TypeOK
  <2>3. IndexOf(seen[c]) \in Nat  BY DEF TypeOK, IndexOf, Sub
  <2> QED  BY <1>1, <2>1, <2>2, <2>3 DEF TypeOK, Sub
<1>3. CASE c \notin Puts
  <2>1. avail' = [ovn |-> stamp + 1, status |-> req[c].status] /\ sub' = sub
    BY <1>3 DEF Apply
  <2>2. req[c].status \in Statuses  BY <1>3 DEF Calls
  <2> QED  BY <1>1, <2>1, <2>2 DEF TypeOK, Avail
<1> QED  BY <1>2, <1>3

\* The closure writes back a start time, and an adjusted one is an integer.
LEMMA AdjustType ==
  ASSUME TypeOK, NEW s \in Int \cup {Nil}, NEW t \in Adjust(s, sub)
  PROVE  /\ t \in Int
         /\ IF s = Nil THEN t = IF sub = Nil THEN now ELSE sub.start ELSE t = s
<1>1. now \in Int  BY BoundsAssumption DEF TypeOK
<1> QED  BY <1>1, NilAssumption DEF Adjust, TypeOK, Sub

-----------------------------------------------------------------------------
(* The invariant *)

\* The ways a row changes: not at all, by a deletion, to a newer version, by a
\* notification.
RowMoves ==
  \/ sub' = sub
  \/ sub' = Nil
  \/ sub'.ovn = stamp + 1
  \/ sub # Nil /\ sub'.ovn = sub.ovn /\ sub'.start = sub.start

\* What a request has captured stays right as the row changes and time goes by.
LEMMA CapturedStays ==
  ASSUME IInv, NEW c \in Puts, pc[c] \in {"run", "commit"},
         req'[c] = req[c], start'[c] = start[c], now' \in Nat, now <= now', RowMoves
  PROVE  Captured(c)'
<1>1. Captured(c) /\ UnderWay(c)  BY DEF IInv, Calls
<1>2. req[c] \in Request /\ stamp \in Nat /\ now \in Int
  BY <1>1, BoundsAssumption DEF UnderWay, IInv, TypeOK, Calls
<1>3. CASE start[c] = req[c].start  BY <1>3 DEF Captured
<1>4. CASE start[c] # req[c].start
  <2>1. CASE req[c].version = Nil
    <3>1. start[c] \in req[c].sent .. now  BY <1>1, <1>4, <2>1 DEF Captured
    <3>2. req[c].sent \in Nat  BY <1>2 DEF Request
    <3>3. start[c] \in req[c].sent .. now'  BY <1>2, <3>1, <3>2
    <3> QED  BY <1>1, <1>4, <2>1, <3>3 DEF Captured
  <2>2. CASE req[c].version # Nil
    <3>1. req[c].version \in Nat /\ req[c].version <= stamp
      BY <1>1, <1>2, <2>2 DEF UnderWay, Request
    <3>2. ASSUME sub' # Nil, sub'.ovn = req[c].version  PROVE sub'.start = start[c]
      <4>1. sub # Nil /\ sub.ovn = req[c].version => sub.start = start[c]
        BY <1>1, <1>4, <2>2 DEF Captured
      <4>2. sub'.ovn # stamp + 1  BY <1>2, <3>1, <3>2
      <4> QED  BY <3>2, <4>1, <4>2 DEF RowMoves
    <3> QED  BY <1>1, <1>4, <2>2, <3>2 DEF Captured
  <2> QED  BY <2>1, <2>2
<1> QED  BY <1>3, <1>4

\* What the other calls keep when call c is over.
LEMMA ReturnInv ==
  ASSUME IInv, TypeOK', NEW c \in Calls, NEW a \in Answers, Return(c, a),
         req' = req, now' = now, req[c] # Nil, stamp' >= stamp, RowMoves
  PROVE  /\ \A d \in Calls : UnderWay(d)' /\ NotSent(d)'
         /\ \A d \in Puts : (pc'[d] \in {"run", "commit"} => Captured(d)') /\ RanOnNamedVersion(d)'
         /\ \A d \in Arbitrations : req'[d] # Nil => req'[d].status \in Statuses
         /\ seen'[c] = Nil
         /\ \A d \in Calls \ {c} : seen'[d] = seen[d]
<1>1. /\ pc'[c] = "over" /\ seen'[c] = Nil
      /\ \A d \in Calls \ {c} : /\ pc'[d] = pc[d] /\ start'[d] = start[d]
                                /\ seen'[d] = seen[d] /\ answer'[d] = answer[d]
  BY DEF Return, IInv, TypeOK
<1>2. now \in Nat /\ stamp \in Nat /\ stamp' \in Nat  BY BoundsAssumption DEF IInv, TypeOK
<1>3. ASSUME NEW d \in Calls  PROVE UnderWay(d)' /\ NotSent(d)'
  <2>1. UnderWay(d) /\ NotSent(d) /\ req[d] \in Request \cup {Nil}  BY DEF IInv, TypeOK
  <2>2. CASE d = c  BY <1>1, <2>2 DEF UnderWay, NotSent
  <2>3. CASE d # c
    <3>1. NotSent(d)'  BY <1>1, <2>1, <2>3 DEF NotSent
    <3>2. UnderWay(d)'  BY <1>1, <1>2, <2>1, <2>3 DEF UnderWay, Request
    <3> QED  BY <3>1, <3>2
  <2> QED  BY <2>2, <2>3
<1>4. ASSUME NEW d \in Puts
      PROVE  (pc'[d] \in {"run", "commit"} => Captured(d)') /\ RanOnNamedVersion(d)'
  <2>1. d \in Calls  BY DEF Calls
  <2>2. CASE d = c  BY <1>1, <2>2 DEF RanOnNamedVersion
  <2>3. CASE d # c
    <3>1. pc'[d] \in {"run", "commit"} => Captured(d)'
      BY <1>1, <1>2, <2>1, <2>3, CapturedStays
    <3>2. RanOnNamedVersion(d)  BY DEF IInv
    <3>3. RanOnNamedVersion(d)'
      BY <1>1, <2>1, <2>3, <3>2 DEF RanOnNamedVersion, VersionOf
    <3> QED  BY <3>1, <3>3
  <2> QED  BY <2>2, <2>3
<1> QED  BY <1>1, <1>3, <1>4 DEF IInv

\* A client sends a request.
LEMMA InvCall ==
  ASSUME IInv, NEW c \in Calls, Call(c)
  PROVE  IInv'
<1>1. /\ UNCHANGED <<now, sub, avail, stamp, answer, seen, tries>> /\ req[c] = Nil
      /\ Send(c) /\ pc' = [pc EXCEPT ![c] = "run"] /\ start' = [start EXCEPT ![c] = req'[c].start]
  BY DEF Call, Send
<1>2. /\ req' \in [Calls -> Request \cup {Nil}] /\ req'[c] \in Request
      /\ \A d \in Calls \ {c} : req'[d] = req[d]
      /\ req'[c].version # Nil => req'[c].version <= stamp
      /\ req'[c].sent = now
      /\ c \in Arbitrations => req'[c].status \in Statuses
  BY <1>1, SendType DEF IInv
<1>3. req'[c] # Nil /\ req'[c].start \in Int \cup {Nil}  BY <1>2, NilIsNoRecord DEF Request
<1>4. /\ pc'[c] = "run" /\ start'[c] = req'[c].start
      /\ \A d \in Calls \ {c} : pc'[d] = pc[d] /\ start'[d] = start[d]
  BY <1>1 DEF IInv, TypeOK
<1>5. TypeOK'  BY <1>1, <1>2, <1>3 DEF IInv, TypeOK, Phases
<1>6. VersionsGiven'  BY <1>1 DEF IInv, VersionsGiven
<1>7. now \in Nat  BY BoundsAssumption DEF IInv, TypeOK
<1>8. ASSUME NEW d \in Calls  PROVE UnderWay(d)' /\ NotSent(d)'
  <2>1. UnderWay(d) /\ NotSent(d)  BY DEF IInv
  <2>2. CASE d = c  BY <1>1, <1>2, <1>3, <1>4, <1>7, <2>1, <2>2 DEF UnderWay, NotSent
  <2>3. CASE d # c  BY <1>1, <1>2, <1>4, <2>1, <2>3 DEF UnderWay, NotSent
  <2> QED  BY <2>2, <2>3
<1>9. ASSUME NEW d \in Puts
      PROVE  (pc'[d] \in {"run", "commit"} => Captured(d)') /\ RanOnNamedVersion(d)'
  <2>1. d \in Calls /\ RanOnNamedVersion(d) /\ (pc[d] \in {"run", "commit"} => Captured(d))
    BY DEF Calls, IInv
  <2>2. CASE d = c  BY <1>4, <2>2 DEF Captured, RanOnNamedVersion
  <2>3. CASE d # c
    <3>1. pc'[d] = pc[d] /\ start'[d] = start[d] /\ req'[d] = req[d]  BY <1>2, <1>4, <2>1, <2>3
    <3> QED  BY <1>1, <2>1, <3>1 DEF Captured, RanOnNamedVersion, VersionOf
  <2> QED  BY <2>2, <2>3
<1>10. ASSUME NEW d \in Arbitrations, req'[d] # Nil  PROVE req'[d].status \in Statuses
  BY <1>2, <1>10 DEF IInv, Calls
<1> QED  BY <1>5, <1>6, <1>8, <1>9, <1>10 DEF IInv

\* A call ends without an effect.
LEMMA InvReturn ==
  ASSUME IInv, NEW c \in Calls, NEW a \in Answers, Return(c, a), req[c] # Nil,
         UNCHANGED <<now, sub, avail, stamp, req>>
  PROVE  IInv'
<1>1. TypeOK'  BY ReturnType DEF IInv, TypeOK
<1>2. stamp' >= stamp  BY DEF IInv, TypeOK
<1>3. RowMoves  BY DEF RowMoves
<1>4. /\ \A d \in Calls : UnderWay(d)' /\ NotSent(d)'
      /\ \A d \in Puts : (pc'[d] \in {"run", "commit"} => Captured(d)') /\ RanOnNamedVersion(d)'
      /\ \A d \in Arbitrations : req'[d] # Nil => req'[d].status \in Statuses
      /\ seen'[c] = Nil
      /\ \A d \in Calls \ {c} : seen'[d] = seen[d]
  BY <1>1, <1>2, <1>3, ReturnInv
<1>5. VersionsGiven'  BY <1>4 DEF VersionsGiven, IInv
<1> QED  BY <1>1, <1>4, <1>5 DEF IInv

\* A call ends with its effect.
LEMMA InvEffect ==
  ASSUME IInv, NEW c \in Calls, NEW a \in Answers, Return(c, a),
         pc[c] = "commit", Apply(c), UNCHANGED <<now, req>>
  PROVE  IInv'
<1>1. UnderWay(c) /\ req[c] # Nil  BY DEF IInv, UnderWay
<1>2. c \in Puts => start[c] # Nil  BY DEF IInv, RanOnNamedVersion
<1>3. sub' \in Sub \cup {Nil} /\ avail' \in Avail \cup {Nil} /\ stamp' \in Nat
  BY <1>1, <1>2, ApplyType DEF IInv
<1>4. TypeOK'  BY <1>3, ReturnType DEF IInv, TypeOK
<1>5. stamp' = stamp + 1 /\ stamp \in Nat  BY DEF Apply, IInv, TypeOK
<1>6. sub' = sub \/ sub'.ovn = stamp + 1  BY DEF Apply, UpsertedRow
<1>7. RowMoves  BY <1>6 DEF RowMoves
<1>8. /\ \A d \in Calls : UnderWay(d)' /\ NotSent(d)'
      /\ \A d \in Puts : (pc'[d] \in {"run", "commit"} => Captured(d)') /\ RanOnNamedVersion(d)'
      /\ \A d \in Arbitrations : req'[d] # Nil => req'[d].status \in Statuses
      /\ seen'[c] = Nil
      /\ \A d \in Calls \ {c} : seen'[d] = seen[d]
  BY <1>1, <1>4, <1>5, <1>7, ReturnInv
<1>9. ASSUME sub' # Nil  PROVE sub'.ovn <= stamp'
  <2>1. sub = Nil \/ sub.ovn \in Nat  BY DEF IInv, TypeOK, Sub
  <2> QED  BY <1>5, <1>6, <1>9, <2>1 DEF IInv, VersionsGiven
<1>10. ASSUME NEW d \in Calls, seen'[d] # Nil  PROVE seen'[d].ovn <= stamp'
  <2>1. d # c /\ seen'[d] = seen[d]  BY <1>8, <1>10
  <2>2. seen[d].ovn \in Nat  BY <1>10, <2>1 DEF IInv, TypeOK, Sub
  <2> QED  BY <1>5, <1>10, <2>1, <2>2 DEF IInv, VersionsGiven
<1>11. VersionsGiven'  BY <1>9, <1>10 DEF VersionsGiven
<1> QED  BY <1>4, <1>8, <1>11 DEF IInv

\* The closure of PutSubscription runs, for the first time or again.
LEMMA InvRunPut ==
  ASSUME IInv, NEW c \in Puts, RunPut(c)
  PROVE  IInv'
<1>1. c \in Calls /\ pc[c] = "run" /\ UNCHANGED <<now, sub, avail, stamp, req>>
  BY DEF RunPut, Calls
<1>2. UnderWay(c) /\ req[c] # Nil /\ Captured(c)  BY <1>1 DEF IInv, UnderWay
<1>3. CASE Return(c, "refused")  BY <1>1, <1>2, <1>3, InvReturn DEF Answers
<1>4. CASE ~Return(c, "refused")
  <2>1. /\ req[c].version = VersionOf(sub)
        /\ pc' = [pc EXCEPT ![c] = "commit"]
        /\ \E s \in Adjust(start[c], sub) : start' = [start EXCEPT ![c] = s]
        /\ seen' = [seen EXCEPT ![c] = sub]
        /\ UNCHANGED <<answer, tries>>
    BY <1>4 DEF RunPut
  <2>2. PICK s \in Adjust(start[c], sub) : start' = [start EXCEPT ![c] = s]  BY <2>1
  <2>3. start[c] \in Int \cup {Nil}  BY <1>1 DEF IInv, TypeOK
  <2>4. s \in Int /\ IF start[c] = Nil THEN s = IF sub = Nil THEN now ELSE sub.start ELSE s = start[c]
    BY <2>3, AdjustType DEF IInv
  <2>5. TypeOK'  BY <1>1, <2>1, <2>2, <2>4 DEF IInv, TypeOK, Phases
  <2>6. /\ pc'[c] = "commit" /\ start'[c] = s /\ seen'[c] = sub
        /\ \A d \in Calls \ {c} : pc'[d] = pc[d] /\ start'[d] = start[d] /\ seen'[d] = seen[d]
    BY <1>1, <2>1, <2>2 DEF IInv, TypeOK
  <2>7. VersionsGiven'  BY <1>1, <2>6 DEF IInv, VersionsGiven
  <2>8. ASSUME NEW d \in Calls  PROVE UnderWay(d)' /\ NotSent(d)'
    <3>1. UnderWay(d) /\ NotSent(d)  BY DEF IInv
    <3>2. CASE d = c  BY <1>1, <1>2, <2>1, <3>1, <3>2 DEF UnderWay, NotSent
    <3>3. CASE d # c  BY <1>1, <2>1, <2>6, <3>1, <3>3 DEF UnderWay, NotSent
    <3> QED  BY <3>2, <3>3
  <2>9. Captured(c)'
    <3>1. CASE start[c] # Nil  BY <1>1, <1>2, <2>4, <2>6, <3>1 DEF Captured
    <3>2. CASE start[c] = Nil
      <4>1. req[c].start = Nil /\ s # Nil  BY <1>2, <2>4, <3>2, NilAssumption DEF Captured
      <4>2. CASE sub = Nil
        <5>1. req[c].version = Nil /\ s = now  BY <2>1, <2>4, <3>2, <4>2 DEF VersionOf
        <5>2. req[c].sent \in Nat /\ req[c].sent <= now /\ now \in Nat
          BY <1>1, <1>2, BoundsAssumption DEF UnderWay, IInv, TypeOK, Request
        <5>3. s \in req[c].sent .. now  BY <5>1, <5>2
        <5> QED  BY <1>1, <2>6, <4>1, <5>1, <5>3 DEF Captured
      <4>3. CASE sub # Nil
        <5>1. sub \in Sub  BY <4>3 DEF IInv, TypeOK
        <5>2. req[c].version = sub.ovn /\ sub.ovn \in Nat /\ s = sub.start
          BY <2>1, <2>4, <3>2, <4>3, <5>1 DEF VersionOf, Sub
        <5>3. req[c].version # Nil  BY <5>2, NilAssumption
        <5> QED  BY <1>1, <2>6, <4>1, <5>2, <5>3 DEF Captured
      <4> QED  BY <4>2, <4>3
    <3> QED  BY <3>1, <3>2
  <2>10. RanOnNamedVersion(c)'
    BY <1>1, <2>1, <2>4, <2>6, NilAssumption DEF RanOnNamedVersion, VersionOf
  <2>11. ASSUME NEW d \in Puts
         PROVE  (pc'[d] \in {"run", "commit"} => Captured(d)') /\ RanOnNamedVersion(d)'
    <3>1. d \in Calls /\ RanOnNamedVersion(d) /\ (pc[d] \in {"run", "commit"} => Captured(d))
      BY DEF Calls, IInv
    <3>2. CASE d = c  BY <2>9, <2>10, <3>2
    <3>3. CASE d # c
      <4>1. pc'[d] = pc[d] /\ start'[d] = start[d] /\ seen'[d] = seen[d]  BY <2>6, <3>1, <3>3
      <4> QED  BY <1>1, <3>1, <4>1 DEF Captured, RanOnNamedVersion, VersionOf
    <3> QED  BY <3>2, <3>3
  <2> QED  BY <1>1, <2>5, <2>7, <2>8, <2>11 DEF IInv
<1> QED  BY <1>3, <1>4

\* A closure is run again, or that of PutUssAvailability is run.
LEMMA InvMove ==
  ASSUME IInv, NEW c \in Calls, NEW p \in {"run", "commit"}, pc[c] \in {"run", "commit"},
         pc' = [pc EXCEPT ![c] = p], p = "commit" => c \in Arbitrations,
         tries' \in [Calls -> 0..MaxRetries],
         UNCHANGED <<now, sub, avail, stamp, req, answer, start, seen>>
  PROVE  IInv'
<1>1. TypeOK'  BY DEF IInv, TypeOK, Phases
<1>2. pc'[c] = p /\ \A d \in Calls \ {c} : pc'[d] = pc[d]  BY DEF IInv, TypeOK
<1>3. VersionsGiven'  BY DEF IInv, VersionsGiven
<1>4. ASSUME NEW d \in Calls  PROVE UnderWay(d)' /\ NotSent(d)'
  BY <1>2 DEF IInv, UnderWay, NotSent
<1>5. ASSUME NEW d \in Puts
      PROVE  (pc'[d] \in {"run", "commit"} => Captured(d)') /\ RanOnNamedVersion(d)'
  <2>1. d \in Calls /\ RanOnNamedVersion(d) /\ (pc[d] \in {"run", "commit"} => Captured(d))
    BY DEF Calls, IInv
  <2>2. pc'[d] \in {"run", "commit"} => pc[d] \in {"run", "commit"}  BY <1>2, <2>1
  <2>3. pc'[d] = "commit" => pc[d] = "commit"
    <3>1. CASE d = c
      <4>1. c \notin Arbitrations  BY <3>1, CallsAssumption
      <4> QED  BY <1>2, <3>1, <4>1
    <3>2. CASE d # c  BY <1>2, <2>1, <3>2
    <3> QED  BY <3>1, <3>2
  <2> QED  BY <2>1, <2>2, <2>3 DEF Captured, RanOnNamedVersion, VersionOf
<1> QED  BY <1>1, <1>3, <1>4, <1>5 DEF IInv

\* The database asks for a retry.
LEMMA InvRetry ==
  ASSUME IInv, NEW c \in Calls, Retry(c)
  PROVE  IInv'
<1>1. UnderWay(c) /\ req[c] # Nil  BY DEF IInv, UnderWay, Retry
<1>2. CASE MayRetry(c)
  <2>1. /\ pc' = [pc EXCEPT ![c] = "run"] /\ tries' = [tries EXCEPT ![c] = @ + 1]
        /\ UNCHANGED <<now, sub, avail, stamp, req, answer, start, seen>>
    BY <1>2 DEF Retry
  <2>2. tries[c] \in 0..MaxRetries /\ tries[c] < MaxRetries /\ MaxRetries \in Nat
    BY <1>2, RetriesAssumption DEF MayRetry, IInv, TypeOK
  <2>3. tries' \in [Calls -> 0..MaxRetries]  BY <2>1, <2>2 DEF IInv, TypeOK
  <2> QED  BY <2>1, <2>3, InvMove DEF Retry
<1>3. CASE ~MayRetry(c)  BY <1>1, <1>3, InvReturn DEF Retry, Answers
<1> QED  BY <1>2, <1>3

\* A notification, a deletion or the passing of time.
LEMMA InvOthers ==
  ASSUME IInv, Others
  PROVE  IInv'
<1>1. UNCHANGED <<avail, stamp, req, answer, pc, start, seen, tries>>
  BY DEF Others, Notify, Delete, Tick, control
<1>2. sub \in Sub \cup {Nil} /\ now \in 0..MaxTime /\ MaxTime \in Nat /\ stamp \in Nat
  BY BoundsAssumption DEF IInv, TypeOK
<1>3. now' \in 0..MaxTime /\ now <= now'
  BY <1>2 DEF Others, Notify, Delete, Tick
<1>4. /\ sub' \in Sub \cup {Nil}
      /\ \/ sub' = sub
         \/ sub' = Nil
         \/ sub # Nil /\ sub'.ovn = sub.ovn /\ sub'.start = sub.start
  <2>1. CASE Notify
    <3>1. sub \in Sub /\ sub' = [ovn |-> sub.ovn, start |-> sub.start, index |-> sub.index + 1]
      BY <1>2, <2>1 DEF Notify
    <3>2. sub' \in Sub  BY <3>1 DEF Sub
    <3> QED  BY <2>1, <3>1, <3>2 DEF Notify
  <2>2. CASE Delete  BY <2>2 DEF Delete
  <2>3. CASE Tick  BY <1>2, <2>3 DEF Tick
  <2> QED  BY <2>1, <2>2, <2>3 DEF Others
<1>5. TypeOK'  BY <1>1, <1>3, <1>4 DEF IInv, TypeOK
<1>6. VersionsGiven'  BY <1>1, <1>4 DEF IInv, VersionsGiven
<1>7. ASSUME NEW c \in Calls  PROVE UnderWay(c)' /\ NotSent(c)'
  <2>1. UnderWay(c) /\ NotSent(c) /\ req[c] \in Request \cup {Nil}  BY DEF IInv, TypeOK
  <2>2. req[c] # Nil => req[c].sent \in Nat  BY <2>1 DEF Request
  <2> QED  BY <1>1, <1>2, <1>3, <2>1, <2>2 DEF UnderWay, NotSent
<1>8. ASSUME NEW c \in Puts
      PROVE  (pc'[c] \in {"run", "commit"} => Captured(c)') /\ RanOnNamedVersion(c)'
  <2>1. RowMoves  BY <1>4 DEF RowMoves
  <2>2. pc'[c] \in {"run", "commit"} => Captured(c)'
    BY <1>1, <1>3, <2>1, CapturedStays
  <2>3. RanOnNamedVersion(c)'  BY <1>1 DEF IInv, RanOnNamedVersion, VersionOf
  <2> QED  BY <2>2, <2>3
<1> QED  BY <1>1, <1>5, <1>6, <1>7, <1>8 DEF IInv

\* The initial states satisfy the invariant.
LEMMA InvInit == TxInit => IInv
<1> SUFFICES ASSUME TxInit PROVE IInv  OBVIOUS
<1>1. TypeOK
  BY BoundsAssumption, RetriesAssumption DEF TxInit, Init, TypeOK, Answers, Phases
<1>2. VersionsGiven  BY DEF TxInit, Init, VersionsGiven
<1>3. ASSUME NEW c \in Calls  PROVE UnderWay(c) /\ NotSent(c) /\ pc[c] = "idle" /\ req[c] = Nil
  BY DEF TxInit, Init, UnderWay, NotSent
<1> QED  BY <1>1, <1>2, <1>3 DEF IInv, Calls, RanOnNamedVersion

\* Every step keeps the invariant.
LEMMA InvNext == IInv /\ [TxNext]_vars => IInv'
<1> SUFFICES ASSUME IInv, [TxNext]_vars PROVE IInv'  OBVIOUS
<1>1. ASSUME NEW c \in Calls, Call(c)  PROVE IInv'  BY <1>1, InvCall
<1>2. ASSUME NEW c \in Calls, Commit(c)  PROVE IInv'
  BY <1>2, InvEffect DEF Commit, Answers
<1>3. ASSUME NEW c \in Calls, Retry(c)  PROVE IInv'  BY <1>3, InvRetry
<1>4. ASSUME NEW c \in Calls, Lose(c)  PROVE IInv'
  <2>1. req[c] # Nil /\ Return(c, "unknown") /\ "unknown" \in Answers /\ UNCHANGED <<now, req>>
    BY <1>4 DEF IInv, UnderWay, Lose, Answers
  <2>2. CASE UNCHANGED <<sub, avail, stamp>>  BY <2>1, <2>2, InvReturn
  <2>3. CASE pc[c] = "commit" /\ MayCommit(c) /\ Apply(c)  BY <2>1, <2>3, InvEffect
  <2> QED  BY <1>4, <2>2, <2>3 DEF Lose
<1>5. ASSUME NEW c \in Puts, RunPut(c)  PROVE IInv'  BY <1>5, InvRunPut
<1>6. ASSUME NEW c \in Arbitrations, RunArbitration(c)  PROVE IInv'
  <2>1. c \in Calls  BY DEF Calls
  <2>2. tries' \in [Calls -> 0..MaxRetries]  BY <1>6 DEF RunArbitration, IInv, TypeOK
  <2> QED  BY <1>6, <2>1, <2>2, InvMove DEF RunArbitration
<1>7. CASE Others  BY <1>7, InvOthers
<1>8. CASE UNCHANGED vars
  <2>1. UNCHANGED <<now, sub, avail, stamp, req, answer, pc, start, seen, tries>>
    BY <1>8 DEF vars
  <2> QED  BY <2>1 DEF IInv, TypeOK, VersionsGiven, UnderWay, NotSent, Captured,
                       RanOnNamedVersion, VersionOf
<1> QED  BY <1>1, <1>2, <1>3, <1>4, <1>5, <1>6, <1>7, <1>8 DEF TxNext

-----------------------------------------------------------------------------
(* The theorems *)

\* Every behaviour of the transactions has its type, whatever the database,
\* the connections and the other clients do.
THEOREM TransactionsTypeOK == TxSpec => []TypeOK
<1>1. IInv => TypeOK  BY DEF IInv
<1> QED  BY <1>1, InvInit, InvNext, PTL DEF TxSpec

\* A row that the closure has read and that is still there is one the request
\* can be applied to: the start time written is one that AtomicCalls allows.
LEMMA EffectIsAtomic ==
  ASSUME IInv, NEW c \in Calls, pc[c] = "commit", MayCommit(c), Apply(c),
         UNCHANGED <<now, req>>
  PROVE  Effect(c)
<1>1. c \in Arbitrations => c \notin Puts  BY CallsAssumption
<1>2. CASE c \in Puts
  <2>1. /\ sub = seen[c] /\ avail' = avail /\ stamp' = stamp + 1
        /\ sub' = [ovn |-> stamp + 1, start |-> start[c], index |-> IndexOf(sub)]
    BY <1>2 DEF MayCommit, Apply, UpsertedRow
  <2>2. /\ req[c].version = VersionOf(sub) /\ start[c] # Nil
        /\ Captured(c) /\ req[c] \in Request
    BY <1>2, <2>1 DEF IInv, RanOnNamedVersion, UnderWay, TypeOK
  <2>3. start[c] \in Starts(req[c], sub)
    <3>1. CASE req[c].start # Nil  BY <2>2, <3>1 DEF Captured, Starts
    <3>2. CASE req[c].start = Nil /\ sub = Nil
      <4>1. req[c].version = Nil  BY <2>2, <3>2 DEF VersionOf
      <4> QED  BY <2>2, <3>2, <4>1 DEF Captured, Starts
    <3>3. CASE req[c].start = Nil /\ sub # Nil
      <4>1. sub.ovn \in Nat  BY <3>3 DEF IInv, TypeOK, Sub
      <4>2. req[c].version = sub.ovn /\ req[c].version # Nil
        BY <2>2, <3>3, <4>1, NilAssumption DEF VersionOf
      <4>3. sub.start = start[c]  BY <2>2, <3>3, <4>2 DEF Captured
      <4> QED  BY <3>3, <4>3 DEF Starts
    <3> QED  BY <3>1, <3>2, <3>3
  <2> QED  BY <1>2, <2>1, <2>2, <2>3 DEF Effect, PutEffect
<1>3. CASE c \notin Puts  BY <1>3 DEF Apply, Effect, ArbitrationEffect
<1> QED  BY <1>2, <1>3

\* Every step is a step of AtomicCalls or none.
LEMMA StepIsAtomic == IInv /\ [TxNext]_vars => [Next]_avars
<1> SUFFICES ASSUME IInv, [TxNext]_vars PROVE [Next]_avars  OBVIOUS
<1>1. ASSUME NEW c \in Calls, pc[c] \in {"run", "commit"}  PROVE Open(c)
  BY <1>1 DEF IInv, UnderWay, Open
<1>2. ASSUME NEW c \in Calls, Call(c)  PROVE [Next]_avars  BY <1>2 DEF Call, Next
<1>3. ASSUME NEW c \in Calls, NEW a \in {"accepted", "unknown"}, pc[c] = "commit",
             MayCommit(c), Apply(c), Return(c, a), UNCHANGED <<now, req>>
      PROVE  TakeEffect(c)
  BY <1>1, <1>3, EffectIsAtomic DEF TakeEffect, Return
<1>4. ASSUME NEW c \in Calls, NEW a \in {"refused", "failed", "unknown"},
             pc[c] \in {"run", "commit"}, Return(c, a), UNCHANGED <<now, sub, avail, stamp, req>>
      PROVE  HaveNoEffect(c)
  BY <1>1, <1>4 DEF HaveNoEffect, Return
<1>5. ASSUME NEW c \in Calls, Commit(c)  PROVE [Next]_avars
  BY <1>3, <1>5 DEF Commit, Next
<1>6. ASSUME NEW c \in Calls, Retry(c)  PROVE [Next]_avars
  <2>1. CASE MayRetry(c)  BY <1>6, <2>1 DEF Retry, avars
  <2>2. CASE ~MayRetry(c)
    <3>1. HaveNoEffect(c)  BY <1>4, <1>6, <2>2 DEF Retry
    <3> QED  BY <3>1 DEF Next
  <2> QED  BY <2>1, <2>2
<1>7. ASSUME NEW c \in Calls, Lose(c)  PROVE [Next]_avars
  <2>1. CASE UNCHANGED <<sub, avail, stamp>>
    <3>1. HaveNoEffect(c)  BY <1>4, <1>7, <2>1 DEF Lose
    <3> QED  BY <3>1 DEF Next
  <2>2. CASE pc[c] = "commit" /\ MayCommit(c) /\ Apply(c)
    <3>1. TakeEffect(c)  BY <1>3, <1>7, <2>2 DEF Lose
    <3> QED  BY <3>1 DEF Next
  <2> QED  BY <1>7, <2>1, <2>2 DEF Lose
<1>8. ASSUME NEW c \in Puts, RunPut(c)  PROVE [Next]_avars
  <2>1. c \in Calls  BY DEF Calls
  <2>2. CASE Return(c, "refused")
    <3>1. HaveNoEffect(c)  BY <1>4, <1>8, <2>1, <2>2 DEF RunPut
    <3> QED  BY <2>1, <3>1 DEF Next
  <2>3. CASE ~Return(c, "refused")  BY <1>8, <2>3 DEF RunPut, avars
  <2> QED  BY <2>2, <2>3
<1>9. ASSUME NEW c \in Arbitrations, RunArbitration(c)  PROVE [Next]_avars
  BY <1>9 DEF RunArbitration, avars
<1>10. CASE Others  BY <1>10 DEF Others, Next
<1>11. CASE UNCHANGED vars  BY <1>11 DEF vars, avars
<1> QED  BY <1>2, <1>5, <1>6, <1>7, <1>8, <1>9, <1>10, <1>11 DEF TxNext

\* The transactions implement atomic calls: whatever is retried, lost or
\* refused, a call takes effect once, on the version it names, or not at all.
THEOREM TransactionsImplementAtomicCalls == TxSpec => ImplementsAtomicCalls
<1>1. TxInit => Atomic!Init
  BY DEF TxInit, Init, Atomic!Init, Calls, Atomic!Calls
<1>2. [Next]_avars => [Atomic!Next]_Atomic!avars
  BY DEF Next, Send, TakeEffect, HaveNoEffect, Notify, Delete, Tick, Open, Effect, PutEffect,
         ArbitrationEffect, Starts, VersionOf, IndexOf, Calls, avars,
         Atomic!Next, Atomic!Send, Atomic!TakeEffect, Atomic!HaveNoEffect, Atomic!Notify,
         Atomic!Delete, Atomic!Tick, Atomic!Open, Atomic!Effect, Atomic!PutEffect,
         Atomic!ArbitrationEffect, Atomic!Starts, Atomic!VersionOf, Atomic!IndexOf,
         Atomic!Calls, Atomic!avars
<1>3. IInv /\ [TxNext]_vars => [Atomic!Next]_Atomic!avars  BY <1>2, StepIsAtomic
<1> QED  BY <1>1, <1>3, InvInit, InvNext, PTL DEF TxSpec, ImplementsAtomicCalls, Atomic!Spec

\* Before its first run a closure has the request as the client sent it.
FirstRun == \A c \in Puts : pc[c] = "run" /\ tries[c] = 0 => start[c] = req[c].start

LEMMA FirstRunNext == IInv /\ FirstRun /\ [TxNext]_vars => FirstRun'
<1> SUFFICES ASSUME IInv, FirstRun, [TxNext]_vars, NEW d \in Puts, pc'[d] = "run", tries'[d] = 0
             PROVE  start'[d] = req'[d].start
  BY DEF FirstRun
<1>1. d \in Calls /\ (pc[d] = "run" /\ tries[d] = 0 => start[d] = req[d].start)
  BY DEF Calls, FirstRun
<1>2. ASSUME NEW c \in Calls, Call(c)  PROVE start'[d] = req'[d].start
  <2>1. \A e \in Calls \ {c} : req'[e] = req[e]  BY <1>2, SendType DEF Call, IInv
  <2>2. start'[c] = req'[c].start  BY <1>2 DEF Call, IInv, TypeOK
  <2>3. CASE d # c
    <3>1. start'[d] = start[d] /\ pc'[d] = pc[d] /\ tries'[d] = tries[d] /\ req'[d] = req[d]
      BY <1>1, <1>2, <2>1, <2>3 DEF Call, IInv, TypeOK
    <3> QED  BY <1>1, <3>1
  <2> QED  BY <2>2, <2>3
<1>3. ASSUME NEW c \in Calls, NEW a \in Answers, Return(c, a), req' = req
      PROVE  start'[d] = req'[d].start
  <2>1. d # c  BY <1>3 DEF Return, IInv, TypeOK
  <2>2. start'[d] = start[d] /\ pc'[d] = pc[d] /\ tries'[d] = tries[d]
    BY <1>1, <1>3, <2>1 DEF Return, IInv, TypeOK
  <2> QED  BY <1>1, <1>3, <2>2
<1>4. ASSUME NEW c \in Calls, Commit(c)  PROVE start'[d] = req'[d].start
  BY <1>3, <1>4 DEF Commit, Answers
<1>5. ASSUME NEW c \in Calls, Lose(c)  PROVE start'[d] = req'[d].start
  BY <1>3, <1>5 DEF Lose, Answers
<1>6. ASSUME NEW c \in Calls, Retry(c)  PROVE start'[d] = req'[d].start
  <2>1. CASE MayRetry(c)
    <3>1. /\ pc' = [pc EXCEPT ![c] = "run"] /\ tries' = [tries EXCEPT ![c] = @ + 1]
          /\ start' = start /\ req' = req
      BY <1>6, <2>1 DEF Retry
    <3>2. tries[c] \in 0..MaxRetries /\ MaxRetries \in Nat
      BY RetriesAssumption DEF IInv, TypeOK
    <3>3. d # c  BY <3>1, <3>2 DEF IInv, TypeOK
    <3>4. pc'[d] = pc[d] /\ tries'[d] = tries[d]  BY <1>1, <3>1, <3>3 DEF IInv, TypeOK
    <3> QED  BY <1>1, <3>1, <3>4
  <2>2. CASE ~MayRetry(c)  BY <1>3, <1>6, <2>2 DEF Retry, Answers
  <2> QED  BY <2>1, <2>2
<1>7. ASSUME NEW c \in Puts, RunPut(c)  PROVE start'[d] = req'[d].start
  <2>1. c \in Calls  BY DEF Calls
  <2>2. CASE Return(c, "refused")  BY <1>3, <1>7, <2>1, <2>2 DEF RunPut, Answers
  <2>3. CASE ~Return(c, "refused")
    <3>1. /\ pc' = [pc EXCEPT ![c] = "commit"] /\ UNCHANGED <<tries, req>>
          /\ \E s \in Adjust(start[c], sub) : start' = [start EXCEPT ![c] = s]
      BY <1>7, <2>3 DEF RunPut
    <3>2. d # c  BY <2>1, <3>1 DEF IInv, TypeOK
    <3>3. pc'[d] = pc[d] /\ start'[d] = start[d]  BY <1>1, <3>1, <3>2 DEF IInv, TypeOK
    <3> QED  BY <1>1, <3>1, <3>3
  <2> QED  BY <2>2, <2>3
<1>8. ASSUME NEW c \in Arbitrations, RunArbitration(c)  PROVE start'[d] = req'[d].start
  <2>1. pc' = [pc EXCEPT ![c] = "commit"] /\ UNCHANGED <<tries, req, start>> /\ c \in Calls
    BY <1>8 DEF RunArbitration, Calls
  <2>2. pc'[d] = pc[d]  BY <1>1, <2>1 DEF IInv, TypeOK
  <2> QED  BY <1>1, <2>1, <2>2
<1>9. CASE Others  BY <1>1, <1>9 DEF Others, Notify, Delete, Tick, control
<1>10. CASE UNCHANGED vars  BY <1>1, <1>10 DEF vars
<1> QED  BY <1>2, <1>4, <1>5, <1>6, <1>7, <1>8, <1>9, <1>10 DEF TxNext

\* Only a closure refuses.
LEMMA RefusedByClosure ==
  ASSUME IInv, [TxNext]_vars, NEW c \in Puts, answer[c] = "none", answer'[c] = "refused"
  PROVE  RunPut(c) /\ Return(c, "refused")
<1>1. c \in Calls  BY DEF Calls
<1>2. ASSUME NEW d \in Calls, NEW a \in Answers \ {"refused"}, Return(d, a)  PROVE FALSE
  BY <1>1, <1>2 DEF Return, IInv, TypeOK
<1>3. ASSUME NEW d \in Calls, Call(d)  PROVE FALSE  BY <1>3 DEF Call, Send
<1>4. ASSUME NEW d \in Calls, Commit(d)  PROVE FALSE  BY <1>2, <1>4 DEF Commit, Answers
<1>5. ASSUME NEW d \in Calls, Lose(d)  PROVE FALSE  BY <1>2, <1>5 DEF Lose, Answers
<1>6. ASSUME NEW d \in Calls, Retry(d)  PROVE FALSE
  <2>1. CASE MayRetry(d)  BY <1>6, <2>1 DEF Retry
  <2>2. CASE ~MayRetry(d)  BY <1>2, <1>6, <2>2 DEF Retry, Answers
  <2> QED  BY <2>1, <2>2
<1>7. ASSUME NEW d \in Arbitrations, RunArbitration(d)  PROVE FALSE  BY <1>7 DEF RunArbitration
<1>8. ~Others  BY DEF Others, Notify, Delete, Tick
<1>9. ~UNCHANGED vars  BY DEF vars
<1>10. PICK d \in Puts : RunPut(d)
  BY <1>3, <1>4, <1>5, <1>6, <1>7, <1>8, <1>9 DEF TxNext
<1>11. Return(d, "refused")  BY <1>10 DEF RunPut
<1>12. d = c  BY <1>1, <1>11 DEF Return, IInv, TypeOK
<1> QED  BY <1>10, <1>11, <1>12

\* A request that is right is refused only in a rerun of its closure, on what
\* the first run captured.
THEOREM TransactionsRefuseForCause == TxSpec => RefusedForCause
<1> DEFINE Refusal(c) ==
      answer[c] = "none" /\ answer'[c] = "refused" /\ req[c].version = VersionOf(sub)
        /\ (req[c].start # Nil => now - req[c].start <= MaxClockSkew)
      => tries[c] > 0 /\ now - start[c] > MaxClockSkew
<1>1. ASSUME IInv, FirstRun, [TxNext]_vars, NEW c \in Puts  PROVE Refusal(c)
  <2> SUFFICES ASSUME answer[c] = "none", answer'[c] = "refused", req[c].version = VersionOf(sub),
                      req[c].start # Nil => now - req[c].start <= MaxClockSkew
               PROVE  tries[c] > 0 /\ now - start[c] > MaxClockSkew
    OBVIOUS
  <2>1. RunPut(c) /\ Return(c, "refused") /\ c \in Calls  BY <1>1, RefusedByClosure DEF Calls
  <2>2. pc'[c] = "over" /\ pc[c] = "run"  BY <1>1, <2>1 DEF Return, RunPut, IInv, TypeOK
  <2>3. Adjust(start[c], sub) = {}
    <3>1. SUFFICES ASSUME Adjust(start[c], sub) # {} PROVE FALSE  OBVIOUS
    <3>2. pc' = [pc EXCEPT ![c] = "commit"]  BY <2>1, <3>1 DEF RunPut
    <3> QED  BY <1>1, <2>1, <2>2, <3>2 DEF IInv, TypeOK
  <2>4. start[c] # Nil /\ now - start[c] > MaxClockSkew  BY <2>3 DEF Adjust
  <2>5. tries[c] \in Nat  BY <1>1, <2>1, RetriesAssumption DEF IInv, TypeOK
  <2>6. start[c] # req[c].start
    <3>1. SUFFICES ASSUME start[c] = req[c].start PROVE FALSE  OBVIOUS
    <3>2. now \in Int /\ start[c] \in Int /\ MaxClockSkew \in Int
      BY <1>1, <2>1, <2>4, BoundsAssumption, RetriesAssumption DEF IInv, TypeOK
    <3> QED  BY <2>4, <3>1, <3>2
  <2>7. tries[c] # 0  BY <1>1, <2>2, <2>6 DEF FirstRun
  <2> QED  BY <2>4, <2>5, <2>7
<1>2. TxInit => FirstRun
  <2>1. ASSUME TxInit, NEW c \in Puts  PROVE pc[c] = "idle"  BY <2>1 DEF TxInit, Calls
  <2> QED  BY <2>1 DEF FirstRun
<1>3. IInv /\ FirstRun /\ [TxNext]_vars => [\A c \in Puts : Refusal(c)]_vars  BY <1>1
<1> QED  BY <1>2, <1>3, InvInit, InvNext, FirstRunNext, PTL DEF TxSpec, RefusedForCause

=============================================================================
