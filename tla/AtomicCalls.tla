----------------------------- MODULE AtomicCalls -----------------------------
(***************************************************************************)
(* What a client may count on when it writes a subscription or sets the    *)
(* availability of a USS: a call takes effect in one instant, exactly      *)
(* once, or not at all; the write of a subscription, only on the version   *)
(* that it names.  A client whose answer says neither does not know which. *)
(* SCDTransactions implements this.                                        *)
(***************************************************************************)
EXTENDS Integers

CONSTANTS
  Puts,          \* calls of PutSubscription, all for one subscription
  Arbitrations,  \* calls of PutUssAvailability, all for one USS
  StartTimes,    \* the start times that clients ask for; Nil: none
  Statuses,      \* the availabilities that are set
  MaxTime,       \* bound on the clock
  MaxIndex,      \* bound on the notification index
  Nil            \* an absent value

ASSUME CallsAssumption == Puts \cap Arbitrations = {}
ASSUME NilAssumption == Nil \notin Int
ASSUME StartTimesAssumption == StartTimes \subseteq Int \cup {Nil}
ASSUME BoundsAssumption == MaxTime \in Nat /\ MaxIndex \in Nat

VARIABLES
  now,     \* the clock
  sub,     \* the row of scd_subscriptions, or Nil
  avail,   \* the row of scd_uss_availability, or Nil
  stamp,   \* the last version given to a row
  req,     \* per call, the request as the client sent it, or Nil
  answer   \* per call, the answer

avars == <<now, sub, avail, stamp, req, answer>>

Calls == Puts \cup Arbitrations

\* A request names a version (Nil asks for a creation) and was sent at a time.
Request == [version : Nat \cup {Nil}, start : Int \cup {Nil},
            status : Statuses \cup {Nil}, sent : Nat]
Sub == [ovn : Nat, start : Int, index : Nat]
Avail == [ovn : Nat, status : Statuses]

ASSUME NilIsNoRecord == Nil \notin Request \cup Sub \cup Avail

\* "none" until the call is over; "unknown" when the connection was lost.
Answers == {"none", "accepted", "refused", "failed", "unknown"}

\* The version a request must name to write the subscription.
VersionOf(row) == IF row = Nil THEN Nil ELSE row.ovn

IndexOf(row) == IF row = Nil THEN 0 ELSE row.index

\* An absent start time is that of the row, or an instant of the call itself.
Starts(r, row) ==
  IF r.start # Nil THEN {r.start}
  ELSE IF row # Nil THEN {row.start} ELSE r.sent..now

PutEffect(c) ==
  /\ req[c].version = VersionOf(sub)
  /\ \E s \in Starts(req[c], sub) :
       sub' = [ovn |-> stamp + 1, start |-> s, index |-> IndexOf(sub)]
  /\ UNCHANGED avail

ArbitrationEffect(c) ==
  /\ avail' = [ovn |-> stamp + 1, status |-> req[c].status]
  /\ UNCHANGED sub

Effect(c) ==
  /\ IF c \in Puts THEN PutEffect(c) ELSE ArbitrationEffect(c)
  /\ stamp' = stamp + 1

Open(c) == req[c] # Nil /\ answer[c] = "none"

Send(c) ==
  /\ req[c] = Nil
  /\ \E v \in {Nil} \cup 1..stamp,
         s \in IF c \in Puts THEN StartTimes ELSE {Nil},
         a \in IF c \in Puts THEN {Nil} ELSE Statuses :
       req' = [req EXCEPT ![c] = [version |-> v, start |-> s, status |-> a, sent |-> now]]
  /\ UNCHANGED <<now, sub, avail, stamp, answer>>

TakeEffect(c) ==
  /\ Open(c)
  /\ Effect(c)
  /\ \E a \in {"accepted", "unknown"} : answer' = [answer EXCEPT ![c] = a]
  /\ UNCHANGED <<now, req>>

HaveNoEffect(c) ==
  /\ Open(c)
  /\ \E a \in {"refused", "failed", "unknown"} : answer' = [answer EXCEPT ![c] = a]
  /\ UNCHANGED <<now, sub, avail, stamp, req>>

\* A write of an operational intent notifies the subscription.
Notify ==
  /\ sub # Nil
  /\ sub.index < MaxIndex
  /\ sub' = [ovn |-> sub.ovn, start |-> sub.start, index |-> sub.index + 1]
  /\ UNCHANGED <<now, avail, stamp, req, answer>>

\* DeleteSubscription by the client, or with the last dependent.
Delete ==
  /\ sub # Nil
  /\ sub' = Nil
  /\ UNCHANGED <<now, avail, stamp, req, answer>>

Tick ==
  /\ now < MaxTime
  /\ now' = now + 1
  /\ UNCHANGED <<sub, avail, stamp, req, answer>>

Init ==
  /\ now = 0
  /\ sub = Nil
  /\ avail = Nil
  /\ stamp = 0
  /\ req = [c \in Calls |-> Nil]
  /\ answer = [c \in Calls |-> "none"]

Next ==
  \/ \E c \in Calls : Send(c) \/ TakeEffect(c) \/ HaveNoEffect(c)
  \/ Notify \/ Delete \/ Tick

Spec == Init /\ [][Next]_avars

=============================================================================
