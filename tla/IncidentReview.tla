--------------------------- MODULE IncidentReview ---------------------------
(***************************************************************************)
(* The review of one incident: set_estado in app/soc/routes.py.            *)
(*                                                                         *)
(* A request loads the row, assigns the new status with its reviewer, date *)
(* and comment, and commits.  The ORM writes only the columns whose value  *)
(* differs from the one the request loaded, nothing locks the row between  *)
(* load and commit, and no version column is compared: two requests that   *)
(* overlap leave a mixture of their columns.                               *)
(***************************************************************************)
EXTENDS Integers

CONSTANTS
  Requests,    \* web requests that may be in flight together
  Users,       \* operators and administrators
  Comments,    \* non-empty comments
  Null,        \* SQL NULL, and the empty comment of a form
  MaxChanges   \* bound: commits

VARIABLES
  row,         \* the incident
  loaded,      \* the row as each request in flight loaded it
  stage,       \* "idle" or "loaded"
  changes      \* commits so far; the clock of reviewed_at

vars == <<row, loaded, stage, changes>>

Statuses == {"nuevo", "revisado", "descartado", "confirmado"}
Forms == Statuses \cup {"otro"}     \* what a form may hold

New == [status |-> "nuevo", by |-> Null, at |-> Null, comment |-> Null]

Init ==
  /\ row = New
  /\ loaded = [r \in Requests |-> New]
  /\ stage = [r \in Requests |-> "idle"]
  /\ changes = 0

\* get_or_404; the guards of the form have let the request through.
Load(r) ==
  /\ stage[r] = "idle"
  /\ loaded' = [loaded EXCEPT ![r] = row]
  /\ stage' = [stage EXCEPT ![r] = "loaded"]
  /\ UNCHANGED <<row, changes>>

\* The assignments of set_estado; only "revisado" stores a comment, and only
\* "nuevo" clears one.
Assign(old, estado, user, comment, t) ==
  IF estado = "nuevo" THEN New
  ELSE [status |-> estado, by |-> user, at |-> t,
        comment |-> IF estado = "revisado" THEN comment ELSE old.comment]

\* "Estado invalido" and "La revision requiere un comentario".
Valid(estado, comment) ==
  /\ estado \in Statuses
  /\ estado = "revisado" => comment # Null

\* db.session.commit: the columns that differ from what was loaded.
Flush(old, new) ==
  [col \in DOMAIN row |-> IF new[col] # old[col] THEN new[col] ELSE row[col]]

SetEstado(r, estado, user, comment) ==
  /\ stage[r] = "loaded"
  /\ changes < MaxChanges
  /\ Valid(estado, comment)
  /\ changes' = changes + 1
  /\ row' = Flush(loaded[r], Assign(loaded[r], estado, user, comment, changes'))
  /\ stage' = [stage EXCEPT ![r] = "idle"]
  /\ loaded' = [loaded EXCEPT ![r] = New]

\* The form is refused, or the process dies before the commit.
GiveUp(r) ==
  /\ stage[r] = "loaded"
  /\ stage' = [stage EXCEPT ![r] = "idle"]
  /\ loaded' = [loaded EXCEPT ![r] = New]
  /\ UNCHANGED <<row, changes>>

Next ==
  \E r \in Requests :
    \/ Load(r)
    \/ GiveUp(r)
    \/ \E estado \in Forms, user \in Users, comment \in Comments \cup {Null} :
         SetEstado(r, estado, user, comment)

Spec == Init /\ [][Next]_vars
-----------------------------------------------------------------------------
(* Properties.                                                             *)

\* "La revision humana exige evidencia escrita" (routes.py:587): whatever
\* statuses the incident went through and whoever changed it at the same time,
\* one that is reviewed carries the reviewer's comment.
ReviewedHasComment == row.status = "revisado" => row.comment # Null
=============================================================================
