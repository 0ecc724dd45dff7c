--------------------------- MODULE SCDTransactions ---------------------------
(***************************************************************************)
(* Store.Transact: how a call of PutSubscription or PutUssAvailability     *)
(* becomes a transaction.  crdbpgx.ExecuteTx runs a closure inside a       *)
(* transaction and runs it again when CockroachDB asks for that.  The      *)
(* closure of PutSubscription works on a request that it has captured, and *)
(* AdjustTimeRange fills in the request's absent start time, so a second   *)
(* run sees what the first one wrote there.                                *)
(*                                                                         *)
(* Versions are distinct here; what happens when two writes share a second *)
(* is in SCD.                                                              *)
(***************************************************************************)
EXTENDS AtomicCalls

CONSTANTS
  MaxClockSkew,  \* maxClockSkew, in units of the model's clock
  MaxRetries     \* the flag max_retries, not 0, which stands for no limit

ASSUME RetriesAssumption == MaxClockSkew \in Nat /\ MaxRetries \in Nat \ {0}

VARIABLES
  pc,      \* per call: not sent, about to run the closure, about to commit, over
  start,   \* per call, the start time in its captured request
  seen,    \* per call, the row that the last run of its closure read
  tries    \* per call, how often the closure was run again

vars == <<now, sub, avail, stamp, req, answer, pc, start, seen, tries>>
control == <<pc, start, seen, tries>>

Phases == {"idle", "run", "commit", "over"}

-----------------------------------------------------------------------------
(* The closures *)

\* Mutant: the start that was just filled in must not be in the past either.
AdjustStrictly(s, row) ==
  LET t == IF s # Nil THEN s ELSE IF row = Nil THEN now ELSE row.start
  IN IF now - t > MaxClockSkew THEN {} ELSE {t}

\* AdjustTimeRange: the start time after it, or nothing when it is an error.
\* A start time that is there must not be too far in the past, whoever put it
\* there.
Adjust(s, row) ==
  IF s = Nil THEN {IF row = Nil THEN now ELSE row.start}
  ELSE IF now - s > MaxClockSkew THEN {} ELSE {s}

\* Mutant: the notification index is not carried over.
RowWithNewIndex(s, row) == [ovn |-> stamp + 1, start |-> s, index |-> 0]

\* The row that UpsertSubscription writes; "row" is the one it replaces.
UpsertedRow(s, row) == [ovn |-> stamp + 1, start |-> s, index |-> IndexOf(row)]

\* The call is over with answer a, and its variables are gone.
Return(c, a) ==
  /\ answer' = [answer EXCEPT ![c] = a]
  /\ pc' = [pc EXCEPT ![c] = "over"]
  /\ start' = [start EXCEPT ![c] = Nil]
  /\ seen' = [seen EXCEPT ![c] = Nil]
  /\ tries' = [tries EXCEPT ![c] = 0]

\* The closure reads the row and checks the request against it.
RunPut(c) ==
  /\ pc[c] = "run"
  /\ IF Adjust(start[c], sub) # {} /\ req[c].version = VersionOf(sub)
     THEN /\ pc' = [pc EXCEPT ![c] = "commit"]
          /\ \E s \in Adjust(start[c], sub) : start' = [start EXCEPT ![c] = s]
          /\ seen' = [seen EXCEPT ![c] = sub]
          /\ UNCHANGED <<answer, tries>>
     ELSE Return(c, "refused")
  /\ UNCHANGED <<now, sub, avail, stamp, req>>

\* That of PutUssAvailability reads nothing: old_version is not looked at.
RunArbitration(c) ==
  /\ pc[c] = "run"
  /\ pc' = [pc EXCEPT ![c] = "commit"]
  /\ UNCHANGED <<now, sub, avail, stamp, req, answer, start, seen, tries>>

-----------------------------------------------------------------------------
(* crdbpgx.ExecuteTx *)

\* The database commits a transaction that read the row only while the row is
\* as it was read (serializable isolation).
MayCommit(c) == c \in Puts => sub = seen[c]

Apply(c) ==
  /\ IF c \in Puts
     THEN sub' = UpsertedRow(start[c], seen[c]) /\ UNCHANGED avail
     ELSE avail' = [ovn |-> stamp + 1, status |-> req[c].status] /\ UNCHANGED sub
  /\ stamp' = stamp + 1

\* RELEASE SAVEPOINT succeeds.
Commit(c) ==
  /\ pc[c] = "commit"
  /\ MayCommit(c)
  /\ Apply(c)
  /\ Return(c, "accepted")
  /\ UNCHANGED <<now, req>>

\* Mutant: one retry too many.
MayRetryOnceMore(c) == tries[c] <= MaxRetries

MayRetry(c) == tries[c] < MaxRetries

\* The database asks for a retry, on the read or on the commit: ROLLBACK TO
\* SAVEPOINT and once more from the top, or MaxRetriesExceededError.
Retry(c) ==
  /\ pc[c] \in {"run", "commit"}
  /\ IF MayRetry(c)
     THEN /\ pc' = [pc EXCEPT ![c] = "run"]
          /\ tries' = [tries EXCEPT ![c] = @ + 1]
          /\ UNCHANGED <<answer, start, seen>>
     ELSE Return(c, "failed")
  /\ UNCHANGED <<now, sub, avail, stamp, req>>

\* The connection breaks: before the commit, or during it (AmbiguousCommitError),
\* or on the way of the answer to the client, with or without the effect.
Lose(c) ==
  /\ pc[c] \in {"run", "commit"}
  /\ \/ UNCHANGED <<sub, avail, stamp>>
     \/ pc[c] = "commit" /\ MayCommit(c) /\ Apply(c)
  /\ Return(c, "unknown")
  /\ UNCHANGED <<now, req>>

\* A client sends a request, perhaps one that it sent before.
Call(c) ==
  /\ Send(c)
  /\ pc' = [pc EXCEPT ![c] = "run"]
  /\ start' = [start EXCEPT ![c] = req'[c].start]
  /\ UNCHANGED <<seen, tries>>

-----------------------------------------------------------------------------
(* The specification *)

TxInit ==
  /\ Init
  /\ pc = [c \in Calls |-> "idle"]
  /\ start = [c \in Calls |-> Nil]
  /\ seen = [c \in Calls |-> Nil]
  /\ tries = [c \in Calls |-> 0]

Others == (Notify \/ Delete \/ Tick) /\ UNCHANGED control

TxNext ==
  \/ \E c \in Calls : Call(c) \/ Commit(c) \/ Retry(c) \/ Lose(c)
  \/ \E c \in Puts : RunPut(c)
  \/ \E c \in Arbitrations : RunArbitration(c)
  \/ Others

TxSpec == TxInit /\ [][TxNext]_vars

-----------------------------------------------------------------------------
(* Properties *)

\* Every call has the type its phase requires.
TypeOK ==
  /\ now \in 0..MaxTime
  /\ sub \in Sub \cup {Nil}
  /\ avail \in Avail \cup {Nil}
  /\ stamp \in Nat
  /\ req \in [Calls -> Request \cup {Nil}]
  /\ answer \in [Calls -> Answers]
  /\ pc \in [Calls -> Phases]
  /\ start \in [Calls -> Int \cup {Nil}]
  /\ seen \in [Calls -> Sub \cup {Nil}]
  /\ tries \in [Calls -> 0..MaxRetries]

\* Retries, lost answers and the captured request are invisible: a call takes
\* effect once, on the version it names, with the start time it asks for or
\* that of the row it replaces, and loses no notification; a call that is
\* answered by an error has had no effect.
Atomic == INSTANCE AtomicCalls WITH sub <- sub, avail <- avail, req <- req, answer <- answer
ImplementsAtomicCalls == Atomic!Spec

\* A request that names the current version and no start time in the past is
\* refused only if its closure ran before: the start time that the first run
\* filled in has become too old by the time of the second.
RefusedForCause ==
  [][\A c \in Puts :
       answer[c] = "none" /\ answer'[c] = "refused"
         /\ req[c].version = VersionOf(sub)
         /\ (req[c].start # Nil => now - req[c].start <= MaxClockSkew)
       => tries[c] > 0 /\ now - start[c] > MaxClockSkew]_vars

=============================================================================
