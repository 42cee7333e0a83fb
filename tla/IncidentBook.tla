---------------------------- MODULE IncidentBook ----------------------------
(***************************************************************************)
(* What the detection of app/soc/services.py promises, with no process,    *)
(* lock or stage in it: a book of incidents in which an attack of an IP is *)
(* one step.  A new incident is raised only if the book has no current one *)
(* of the IP, and an attack moves a current one forward; operators close   *)
(* and reopen whatever they want, and what an operator has touched binds   *)
(* nobody.  SocCycle, whose query and write are steps of different moments *)
(* of N processes, implements this book.                                   *)
(***************************************************************************)
EXTENDS Integers

CONSTANTS
  IPs,       \* source IPs
  Ids,       \* numbers an incident may get, from 1
  Times,     \* moments at which a cycle may begin
  Never,     \* the window end of a row that is not in the book yet
  Lookback   \* DEDUPE_LOOKBACK

VARIABLES count, ipOf, windowEnd, open, touched

vars == <<count, ipOf, windowEnd, open, touched>>

Init ==
  /\ count = 0
  /\ ipOf \in [Ids -> IPs]
  /\ windowEnd = [i \in Ids |-> Never]
  /\ open = {}
  /\ touched = {}

\* The incidents an attack of ip at time t has to be added to.
Current(ip, t) ==
  {i \in open \ touched : ipOf[i] = ip /\ windowEnd[i] >= t - Lookback}

\* Attacks are written down in the order of the cycles that saw them.
InOrder(t) == \A i \in Ids : windowEnd[i] <= t

Raise(ip, t) ==
  /\ count + 1 \in Ids
  /\ InOrder(t)
  /\ Current(ip, t) = {}
  /\ count' = count + 1
  /\ ipOf' = [ipOf EXCEPT ![count + 1] = ip]
  /\ windowEnd' = [windowEnd EXCEPT ![count + 1] = t]
  /\ open' = open \cup {count + 1}
  /\ UNCHANGED touched

Refresh(i, t) ==
  /\ i \in 1 .. count
  /\ InOrder(t)
  /\ i \in touched \/ Current(ipOf[i], t) \subseteq {i}
  /\ windowEnd' = [windowEnd EXCEPT ![i] = t]
  /\ UNCHANGED <<count, ipOf, open, touched>>

Review(i) ==
  /\ i \in 1 .. count
  /\ open' \in {open \cup {i}, open \ {i}}
  /\ touched' = touched \cup {i}
  /\ UNCHANGED <<count, ipOf, windowEnd>>

Next ==
  \/ \E ip \in IPs, t \in Times : Raise(ip, t)
  \/ \E i \in Ids : Review(i) \/ \E t \in Times : Refresh(i, t)

Spec == Init /\ [][Next]_vars
=============================================================================
