------------------------------ MODULE Console ------------------------------
(***************************************************************************)
(* The refresh loop of the web console: GET /messages every second and     *)
(* after every button, whether or not the last answer has come.  Answers   *)
(* overtake each other, and the page shows whichever came last.            *)
(***************************************************************************)
CONSTANTS
  Nil,
  Contents,    (* what the queue may hold, as a snapshot shows it          *)
  Refreshes    (* bound: refreshes under way at once                       *)

ASSUME ConsoleAssumption == Nil \notin Contents

VARIABLES
  held,        (* what the queue holds                                     *)
  up,          (* whether the server answers                               *)
  request,     (* each refresh: "idle", "asked", "answered" or "rejected"  *)
  answer,      (* the snapshot an answered one carries                     *)
  snapshot,    (* the page's `snapshot', what is rendered                  *)
  connected    (* the page's indicator                                     *)

vars == <<held, up, request, answer, snapshot, connected>>

Init ==
  /\ held \in Contents /\ up \in BOOLEAN
  /\ request = [r \in Refreshes |-> "idle"]
  /\ answer = [r \in Refreshes |-> Nil]
  /\ snapshot = Nil /\ connected = FALSE

(* Mutant: a page that has lost the server stops asking.                   *)
RefreshWhileConnected(r) ==
  /\ request[r] = "idle" /\ (connected \/ snapshot = Nil)
  /\ request' = [request EXCEPT ![r] = "asked"]
  /\ UNCHANGED <<held, up, answer, snapshot, connected>>

(* The timer fires, or a handler of a button calls refresh.                *)
Refresh(r) ==
  /\ request[r] = "idle"
  /\ request' = [request EXCEPT ![r] = "asked"]
  /\ UNCHANGED <<held, up, answer, snapshot, connected>>

(* The server takes the snapshot.                                          *)
Serve(r) ==
  /\ request[r] = "asked" /\ up
  /\ request' = [request EXCEPT ![r] = "answered"]
  /\ answer' = [answer EXCEPT ![r] = held]
  /\ UNCHANGED <<held, up, snapshot, connected>>

(* The server is gone while the refresh is under way, or answers with an   *)
(* error: fetch will reject, sooner or later.                              *)
Reject(r) ==
  /\ request[r] \in {"asked", "answered"} /\ ~up
  /\ request' = [request EXCEPT ![r] = "rejected"]
  /\ UNCHANGED <<held, up, answer, snapshot, connected>>

Finish(r) ==
  /\ request' = [request EXCEPT ![r] = "idle"]
  /\ answer' = [answer EXCEPT ![r] = Nil]
  /\ UNCHANGED <<held, up>>

(* The answer arrives: it is rendered, however old it is.                  *)
Render(r) ==
  /\ request[r] = "answered"
  /\ snapshot' = answer[r] /\ connected' = TRUE
  /\ Finish(r)

(* Mutant: the error is swallowed.                                         *)
FailSilently(r) ==
  /\ request[r] = "rejected"
  /\ Finish(r)
  /\ UNCHANGED <<snapshot, connected>>

(* The rejection arrives, and the server may be up again by then: the last *)
(* snapshot stays on the page.                                             *)
Fail(r) ==
  /\ request[r] = "rejected"
  /\ connected' = FALSE
  /\ Finish(r)
  /\ UNCHANGED snapshot

(* Producers, consumers and the clock; the server stops or starts.         *)
Change ==
  /\ held' \in Contents /\ up' \in BOOLEAN
  /\ UNCHANGED <<request, answer, snapshot, connected>>

Next ==
  \/ Change
  \/ \E r \in Refreshes :
       Refresh(r) \/ Serve(r) \/ Reject(r) \/ Render(r) \/ Fail(r)

Spec == Init /\ [][Next]_vars

(* The timer fires again and again, and every request ends.                *)
FairSpec ==
  /\ Spec
  /\ \A r \in Refreshes :
       /\ WF_vars(Refresh(r))
       /\ WF_vars(Serve(r) \/ Reject(r) \/ Render(r) \/ Fail(r))

(* The view may step back; but once the queue is quiet and the server      *)
(* stays up, the page shows what is queued and says connected, for good.   *)
ConsoleCatchesUp ==
  \A c \in Contents :
    <>[](up /\ held = c) => <>[](connected /\ snapshot = c)

(* The indicator is honest in the long run: with the server gone for good  *)
(* the page does not go on saying connected.                               *)
ConsoleNoticesLoss == <>[](~up) => <>[](~connected)
=============================================================================
