------------------------------- MODULE MCApi -------------------------------
(***************************************************************************)
(* Instances for TLC of the parts around the standups: requests on one     *)
(* connection, channels, and a browser's session.  The parts share no      *)
(* state: a behaviour is one of one part, and the variables of the others  *)
(* keep values in which nothing happens.                                   *)
(***************************************************************************)
EXTENDS Transactional, ChannelSync, WebSession

CONSTANTS r1, r2, c1, c2, t1, t2

TwoPages == <<{c1}, {c2}>>

VARIABLE part

vars == <<part, txVars, chVars, webVars>>

NoRequests ==
  /\ kind = [r \in Requests |-> "query"]
  /\ stage = [r \in Requests |-> "resolved"]
  /\ attempt = [r \in Requests |-> 0] /\ pages = attempt /\ stored = attempt
  /\ holder = Nobody /\ wrote = FALSE

(* The second channel is open and the bot a member; the first is any.      *)
SecondOpen == InSlack(c2) = [isArchived |-> FALSE, isEnabled |-> TRUE]

NoChannels ==
  /\ ChInit
  /\ SecondOpen /\ slack[c1] = slack[c2]
  /\ strangers = {} /\ \A c \in Channels : row[c] = None

NoSession == WebInit /\ known

Init ==
  \/ part = "requests" /\ TxInit /\ NoChannels /\ NoSession
  \/ part = "channels" /\ NoRequests /\ ChInit /\ SecondOpen /\ NoSession
  \/ part = "sessions" /\ NoRequests /\ NoChannels /\ WebInit

Request(A) == part = "requests" /\ A /\ UNCHANGED <<part, chVars, webVars>>
Channel(A) == part = "channels" /\ A /\ UNCHANGED <<part, txVars, webVars>>
Session(A) == part = "sessions" /\ A /\ UNCHANGED <<part, txVars, chVars>>

Next ==
  \/ \E r \in Requests : Request(Step(r) \/ GiveUp(r))
  \/ Channel(ChNext)
  \/ Session(WebNext)

(* The fairness of each part, for its steps here.                          *)
Spec ==
  /\ Init /\ [][Next]_vars
  /\ \A r \in Requests : SF_vars(Request(Step(r)))
  /\ WF_vars(Channel(Worker))
  /\ \A t \in Tabs : WF_vars(Session(LogoutArrives(t))) /\ WF_vars(Session(Route(t)))

(* The types of all parts.                                                 *)
TypeOK == TxTypeOK /\ ChTypeOK /\ WebTypeOK

=============================================================================
