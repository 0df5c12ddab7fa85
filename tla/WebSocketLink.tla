--------------------------- MODULE WebSocketLink ---------------------------
(***************************************************************************)
(* A provider client over winhttp_websocket::Transport, as its session     *)
(* sees it: one record per client object.  Abort() only reaches an attempt *)
(* whose Connect() has installed its state, "fresh" clients miss it.       *)
(* At the other end is the recognition service.                            *)
(***************************************************************************)
EXTENDS Sequences

LinkStates == {"none", "fresh", "connecting", "up", "closed"}

\* got: PCM the service took; ended: it knows that was all; told: it has
\* answered with the complete transcript.
NoLink == [state |-> "none", got |-> <<>>, ended |-> FALSE, told |-> FALSE]

FreshLink == [NoLink EXCEPT !.state = "fresh"]

\* Transport::Connect swaps in the state of this attempt.
Connecting(link) == [link EXCEPT !.state = "connecting"]

\* The handshake and the session start succeeded, unless Abort() came.
Connected(link) == [link EXCEPT !.state = "up"]

\* Transport::Abort and Close.
Aborted(link) ==
  IF link.state \in {"connecting", "up"} THEN [link EXCEPT !.state = "closed"]
  ELSE link
Shut(link) == [link EXCEPT !.state = "closed"]

\* Transport::Send of a unit of PCM or of the end: done, refused or timed out;
\* a send that times out closes the transport.
Sends(link, units, last) ==
  IF link.state # "up" THEN {[link |-> link, ok |-> FALSE]}
  ELSE {[link |-> [link EXCEPT !.got = @ \o units, !.ended = last], ok |-> TRUE],
        [link |-> link, ok |-> FALSE], [link |-> Shut(link), ok |-> FALSE]}
=============================================================================
