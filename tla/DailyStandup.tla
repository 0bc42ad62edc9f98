---------------------------- MODULE DailyStandup ----------------------------
(***************************************************************************)
(* What the bot promises of a standup, with no process, queue or query in  *)
(* sight: it opens once, asks members, takes what they tell, and publishes *)
(* at most one report.  A report is one consistent cut: who had been asked *)
(* and what they had told at one moment, not before the standup's end.     *)
(* People may be asked and may tell after that cut; it is not in the       *)
(* report then.  A cut can be given up (the post fails, the process ends); *)
(* nothing but the end of the standup makes a cut.                         *)
(***************************************************************************)
EXTENDS StandupData

VARIABLES
  time,       \* minutes
  ends,       \* standup -> its end, once it is open
  open,       \* standups that have been opened
  asked,      \* standup -> users asked
  told,       \* standup -> user -> answer
  cut,        \* standup -> {} or the one reading to publish
  published   \* standup -> the reports published

vars == <<time, ends, open, asked, told, cut, published>>

Init ==
  /\ time = 0
  /\ ends = [s \in Standups |-> 0]
  /\ open = {}
  /\ asked = [s \in Standups |-> {}]
  /\ told = [s \in Standups |-> [u \in Users |-> NoAnswer]]
  /\ cut = [s \in Standups |-> {}]
  /\ published = [s \in Standups |-> <<>>]

Pass ==
  /\ time' = time + 1
  /\ UNCHANGED <<ends, open, asked, told, cut, published>>

Open(s) ==
  /\ s \notin open
  /\ open' = open \union {s}
  /\ \E n \in Durations : ends' = [ends EXCEPT ![s] = StartMinute(s) + n]
  /\ UNCHANGED <<time, asked, told, cut, published>>

Ask(s, u) ==
  /\ s \in open /\ u \in Members(s)
  /\ asked' = [asked EXCEPT ![s] = @ \union {u}]
  /\ UNCHANGED <<time, ends, open, told, cut, published>>

(* Several may tell in one moment, each that was asked.                    *)
Tell(sheet) ==
  /\ \A s \in Standups, u \in Users : sheet[s][u] # NoAnswer => u \in asked[s]
  /\ told' = Written(told, sheet)
  /\ UNCHANGED <<time, ends, open, asked, cut, published>>

(* One query's worth of cuts: every open standup that ends now.            *)
Cut(S) ==
  /\ S \subseteq open
  /\ \A s \in S : ends[s] <= time /\ cut[s] = {} /\ published[s] = <<>>
  /\ cut' = [s \in Standups |->
       IF s \in S THEN {[u \in asked[s] |-> told[s][u]]} ELSE cut[s]]
  /\ UNCHANGED <<time, ends, open, asked, told, published>>

Publish(s) ==
  /\ \E reading \in cut[s] : published' = [published EXCEPT ![s] = <<reading>>]
  /\ cut' = [cut EXCEPT ![s] = {}]
  /\ UNCHANGED <<time, ends, open, asked, told>>

GiveUp(S) ==
  /\ cut' = [s \in Standups |-> IF s \in S THEN {} ELSE cut[s]]
  /\ UNCHANGED <<time, ends, open, asked, told, published>>

Next ==
  \/ Pass
  \/ \E s \in Standups :
       \/ Open(s) \/ Publish(s)
       \/ \E u \in Users : Ask(s, u)
  \/ \E sheet \in Sheets : Tell(sheet)
  \/ \E S \in SUBSET Standups : Cut(S) \/ GiveUp(S)

Spec == Init /\ [][Next]_vars

=============================================================================
