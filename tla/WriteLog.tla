------------------------------- MODULE WriteLog -------------------------------
(***************************************************************************)
(* What Firestore promises the app about its writes: every user has a      *)
(* sequence of pending writes, kept over restarts; the server takes the    *)
(* writes of the active user in their order, perhaps again after the       *)
(* connection was lost; the oldest is dropped when the server has taken or *)
(* refused it, and the app hears so at most once.  FirestoreWrites         *)
(* implements this.                                                        *)
(***************************************************************************)
EXTENDS Naturals, Sequences

CONSTANTS
    Users,      \* the users of the phone, the signed-out one among them
    Writes      \* the writes, by number

VARIABLES
    pending,    \* the writes of each user that are neither taken nor refused
    active,     \* the user whose writes are sent
    taken,      \* how many of them the server has taken over this connection
    log,        \* what the server has taken, in order
    reported    \* what the app has been told: a write and whether it was taken

logVars == <<pending, active, taken, log, reported>>

LogInit ==
    /\ pending = [u \in Users |-> <<>>]
    /\ active \in Users
    /\ taken = 0
    /\ log = <<>>
    /\ reported = {}

IsReported(n) == \E ok \in BOOLEAN : [write |-> n, ok |-> ok] \in reported

(* A new write waits behind the others; each is accepted once.             *)
Accept(n) ==
    /\ \A u \in Users : \A i \in 1..Len(pending[u]) : pending[u][i] < n
    /\ ~ IsReported(n)
    /\ pending' = [pending EXCEPT ![active] = Append(@, n)]
    /\ UNCHANGED <<active, taken, log, reported>>

Take ==
    /\ taken < Len(pending[active])
    /\ log' = Append(log, pending[active][taken + 1])
    /\ taken' = taken + 1
    /\ UNCHANGED <<pending, active, reported>>

(* The oldest write is done; whoever waits for it hears so.                *)
Drop(ok) ==
    /\ pending[active] # <<>>
    /\ pending' = [pending EXCEPT ![active] = Tail(@)]
    /\ \/ UNCHANGED reported
       \/ /\ ~ IsReported(Head(pending[active]))
          /\ reported' = reported
                         \cup {[write |-> Head(pending[active]), ok |-> ok]}
    /\ UNCHANGED <<active, log>>

Confirm ==
    /\ taken > 0
    /\ taken' = taken - 1
    /\ Drop(TRUE)

(* The server refused a write and ended the connection.                    *)
Refuse ==
    /\ taken' = 0
    /\ Drop(FALSE)

(* The connection is lost, or is given up for another user's.              *)
StartOver(u) ==
    /\ active' = u
    /\ taken' = 0
    /\ UNCHANGED <<pending, log, reported>>

LogNext ==
    \/ \E n \in Writes : Accept(n)
    \/ Take
    \/ Confirm
    \/ Refuse
    \/ \E u \in Users : StartOver(u)

LogSpec == LogInit /\ [][LogNext]_logVars

(* What the app is told is true and final: a write reported as taken is in *)
(* the server's log, and none is reported both taken and refused.          *)
ReportsAreTrue ==
    /\ \A r \in reported : r.ok => \E i \in 1..Len(log) : log[i] = r.write
    /\ \A r, s \in reported : r.write = s.write => r = s
===============================================================================
