---------------------------- MODULE StandupData ----------------------------
(***************************************************************************)
(* The data every part of the standup bot shares: who is in which team,    *)
(* which standups the schedule calls for, what a Slack prompt looks like.  *)
(*                                                                         *)
(* Time is counted in minutes.  The notifier's cron expression is          *)
(* '5 * * * * *', so everything scheduled happens at a minute's tick and   *)
(* the tick is the only moment at which the clock of the model moves.      *)
(* A standup is named by the pair <<team, minute of the tick that starts   *)
(* it>>: one tick starts at most one standup of a team.                    *)
(***************************************************************************)
EXTENDS Integers, Sequences

CONSTANTS
  Teams,      \* activated teams
  Users,      \* Slack users
  Roster,     \* team -> its users, in the order of team_users
  Starts,     \* <<team, minute>>: the ticks at which findByStart matches it
  Durations,  \* the values a team's duration column may hold, in minutes
  MaxMinute,  \* bound: the last minute of the model
  Answers,    \* what one submission may say (all the questions of a dialog)
  NoAnswer    \* no AnswerRequest row stored

ASSUME DataAssumption ==
  /\ MaxMinute \in Nat
  /\ Roster \in [Teams -> Seq(Users)]
  /\ \A t \in Teams : \A i, j \in 1..Len(Roster[t]) :
        Roster[t][i] = Roster[t][j] => i = j
  /\ Starts \subseteq Teams \X (1..MaxMinute)
  /\ Durations \subseteq Nat
  /\ NoAnswer \notin Answers

Minutes == 0..MaxMinute

(* The rows the Standup table can ever hold. *)
Standups == Starts

Team(s) == s[1]
StartMinute(s) == s[2]

(* standup.team.users.getItems(): the users a standup asks, in order. *)
Asked(s) == Roster[Team(s)]
Members(s) == {Asked(s)[i] : i \in DOMAIN Asked(s)}

(* Roster position of a user the standup asks. *)
Place(s, u) == CHOOSE i \in DOMAIN Asked(s) : Asked(s)[i] = u

(* A prompt in a user's direct message channel: is it there, does it carry *)
(* the check mark of a submission, does it carry the link to the report.   *)
Prompt == [sent : BOOLEAN, check : BOOLEAN, link : BOOLEAN]

NoPrompt == [sent |-> FALSE, check |-> FALSE, link |-> FALSE]

(* Mutant: the link takes the place of the check mark.                     *)
StandupMsgPlainLink(submitted, reportLink) ==
  [sent |-> TRUE, check |-> submitted /\ ~reportLink, link |-> reportLink]

(* generateStandupMsg(standup, submitted, reportLink) *)
StandupMsg(submitted, reportLink) ==
  [sent |-> TRUE, check |-> submitted, link |-> reportLink]

(* A flush writes the answers of several users and standups at once: what  *)
(* there is of them, NoAnswer where there is nothing to write.             *)
Sheets == [Standups -> [Users -> Answers \union {NoAnswer}]]

EmptySheet == [s \in Standups |-> [u \in Users |-> NoAnswer]]

(* The stored answers after those of a sheet are written.                  *)
Written(stored, sheet) ==
  [s \in Standups |-> [u \in Users |->
     IF sheet[s][u] # NoAnswer THEN sheet[s][u] ELSE stored[s][u]]]

(* The actions block is left out once the message links to the report, so  *)
(* these are the prompts a user can press.                                 *)
HasButton(prompt) == prompt.sent /\ ~prompt.link

=============================================================================
