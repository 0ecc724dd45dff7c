--------------------------- MODULE ReadModifyWrite ---------------------------
(***************************************************************************)
(* What a USS may count on when it reads the reference of one of its       *)
(* entities, decides on a change and writes it back, while others write as *)
(* they like: the write takes effect only if nobody has written, removed   *)
(* or created the entity since it was read, so no write is lost unseen.    *)
(* SCDSessions implements this.                                            *)
(***************************************************************************)
CONSTANTS
  Entities,  \* operational intents and constraints
  Sessions,  \* those who read, decide and write
  Nil        \* no value, no entity, no session

VARIABLES
  value,  \* per entity, its value, or Nil
  basis,  \* per session, the entity whose value it has, or Nil
  writer  \* the session that the last step served with an update, or Nil

rvars == <<value, basis, writer>>

Init ==
  /\ value = [e \in Entities |-> Nil]
  /\ basis = [x \in Sessions |-> Nil]
  /\ writer = Nil

\* Whoever had the value of e has it no more.
Outdated(e) == [x \in Sessions |-> IF basis[x] = e THEN Nil ELSE basis[x]]

\* A new value for e, or none, and the same value for the other entities.
Changes(e) ==
  /\ value' = [value EXCEPT ![e] = value'[e]]
  /\ basis' = Outdated(e)

Read(x, e) ==
  /\ value[e] # Nil
  /\ basis' = [basis EXCEPT ![x] = e]
  /\ writer' = Nil
  /\ UNCHANGED value

\* The session has the value that it replaces, and has to read again.
Update(x, e) ==
  /\ basis[x] = e
  /\ Changes(e)
  /\ value'[e] # Nil
  /\ writer' = x

\* Someone else creates, writes or removes e.
Interfere(e) == Changes(e) /\ writer' = Nil

Pause == writer' = Nil /\ UNCHANGED <<value, basis>>

Next ==
  \/ \E e \in Entities :
       \/ \E x \in Sessions : Read(x, e) \/ Update(x, e)
       \/ Interfere(e)
  \/ Pause

RSpec == Init /\ [][Next]_rvars

=============================================================================
