---------------------------- MODULE SCDSessions ----------------------------
(***************************************************************************)
(* SCD together with the USSs that write to it: a session reads a          *)
(* reference, keeps its OVN while others write, and names it when it       *)
(* writes back.                                                            *)
(*                                                                         *)
(* An OVN is made of a second, so a version read in the second that made   *)
(* it may be replaced by one with the same OVN.  Sessions rely only on     *)
(* settled readings, those made in a later second; nothing is asked of the *)
(* requests of others.  The answer to an update is no settled reading:     *)
(* whether it arrives or not, a session reads again before it goes on.     *)
(***************************************************************************)
EXTENDS SCD

CONSTANT Sessions

VARIABLES
  read,   \* per session, the version it has read of an entity of its USS, or Nil
  writer  \* the session that the last step served with an update, or Nil

svars == <<vars, read, writer>>

Entities == [kind : {"op"}, id : OpIds] \cup [kind : {"constraint"}, id : ConstraintIds]

Reading == [manager : Managers, entity : Entities, ovn : OVNs]

ASSUME NilIsNoReading == Nil \notin Entities \cup Reading \cup OVNs \cup Sessions

Row(e) == IF e.kind = "op" THEN ops[e.id] ELSE constraints[e.id]

CurrentOVN(e) == OVN(e.id, Row(e).updated)

-----------------------------------------------------------------------------
(* Steps *)

\* GetOperationalIntentReference and GetConstraintReference.  Only the manager
\* is told the OVN; others read "Available from USS".
Get(x, m, e) ==
  /\ Row(e) # Nil
  /\ Row(e).manager = m
  /\ Row(e).updated < now
  /\ read' = [read EXCEPT ![x] = [manager |-> m, entity |-> e, ovn |-> CurrentOVN(e)]]
  /\ writer' = Nil
  /\ UNCHANGED vars

\* A request of m to write e that names version ovn.
Put(m, e, ovn) ==
  \/ e.kind = "op" /\ PutOperationalIntentReference(m, e.id, ovn)
  \/ /\ e.kind = "constraint"
     /\ \E v \in OpExtents : PutConstraintReference(m, e.id, ovn, v)

\* A session names the version it has read.  If the answer is lost, it may
\* send the request again.
Update(x, m, e) ==
  /\ read[x] # Nil /\ read[x].manager = m /\ read[x].entity = e
  /\ Put(m, e, read[x].ovn)
  /\ writer' = x
  /\ UNCHANGED read

\* Any request of anyone, or a second passes.
Others == Next /\ writer' = Nil /\ UNCHANGED read

SessionInit == Init /\ read = [x \in Sessions |-> Nil] /\ writer = Nil

SessionNext ==
  \/ \E x \in Sessions, m \in Managers, e \in Entities : Get(x, m, e) \/ Update(x, m, e)
  \/ Others

SessionSpec == SessionInit /\ [][SessionNext]_svars

-----------------------------------------------------------------------------
(* The abstract specification *)

\* A session has the value of an entity as long as the version it has read is
\* the current one.
Basis(x) ==
  IF read[x] # Nil /\ Row(read[x].entity) # Nil /\ read[x].ovn = CurrentOVN(read[x].entity)
  THEN read[x].entity
  ELSE Nil

Register == INSTANCE ReadModifyWrite
  WITH value <- [e \in Entities |-> Row(e)], basis <- [x \in Sessions |-> Basis(x)]

\* No write of an operational intent or a constraint is lost unseen: an update
\* that names a settled reading takes effect only on the version that was read,
\* whatever other requests wrote, deleted or created anew in between, in
\* whichever second, and a repeated update takes effect once.
ImplementsReadModifyWrite == Register!RSpec

=============================================================================
