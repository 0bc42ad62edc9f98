--------------------------- MODULE Transactional ---------------------------
(***************************************************************************)
(* The requests of one process on its one database connection: the         *)
(* decorator @transactional with its retries, the transaction that         *)
(* updateChannels opens for every page of channels, and plain queries.     *)
(* (src/src/decorator/transactional.ts, src/src/services/providers.ts,     *)
(* src/src/slack/sync-slack.service.ts)                                    *)
(*                                                                         *)
(* mikro-orm, knex and Postgres are external.  What matters of them: a     *)
(* transaction keeps its connection until it is committed or rolled back;  *)
(* the commit of a transaction that Postgres has aborted stores nothing    *)
(* and may or may not reject; a commit whose connection breaks may have    *)
(* been stored; who waits too long for the connection is rejected.         *)
(***************************************************************************)
EXTENDS Naturals

CONSTANTS
  Requests,  \* the requests of one run of the process (a bound)
  Nobody,    \* holds the connection when no transaction is open
  MaxPages,  \* pages of channels that Slack has at most (a bound)
  TxFaults   \* the kinds of failure that may happen (a bound)

(* "40001": serialization failure, "other": any other error of the method  *)
(* or of commit, "set": SET TRANSACTION fails, "upsert": the insert of a   *)
(* channel fails, "wait": knex stops waiting for the connection.           *)
TxFaultKinds == {"40001", "other", "set", "upsert", "wait"}

ASSUME TransactionalAssumption ==
  /\ Nobody \notin Requests
  /\ MaxPages \in Nat \ {0}
  /\ TxFaults \subseteq TxFaultKinds

VARIABLES
  kind,     \* what each request does
  stage,    \* how far it is
  attempt,  \* the variable attempt of the decorator
  pages,    \* pages of channels still to be stored
  holder,   \* who has the connection
  wrote,    \* the open transaction holds the request's changes
  stored    \* how often the changes of a request were committed

txVars == <<kind, stage, attempt, pages, holder, wrote, stored>>

Kinds == {"submit", "sync", "query"}

(* "abandoned": answered with an error, but its transaction stays open.    *)
Ended == {"resolved", "rejected", "abandoned"}
Stages == Ended \cup {"waiting", "method", "commit", "sleep"}

retry == 4

TxTypeOK ==
  /\ kind \in [Requests -> Kinds]
  /\ stage \in [Requests -> Stages]
  /\ attempt \in [Requests -> 0 .. retry - 1]
  /\ pages \in [Requests -> 0 .. MaxPages]
  /\ holder \in Requests \cup {Nobody}
  /\ wrote \in BOOLEAN
  /\ stored \in [Requests -> Nat]

TxInit ==
  /\ kind \in [Requests -> Kinds]
  /\ pages \in {p \in [Requests -> 0 .. MaxPages] :
                  \A r \in Requests : p[r] > 0 <=> kind[r] = "sync"}
  /\ stage = [r \in Requests |-> "waiting"]
  /\ attempt = [r \in Requests |-> 0]
  /\ holder = Nobody
  /\ wrote = FALSE
  /\ stored = [r \in Requests |-> 0]

Enter(r, s) == stage' = [stage EXCEPT ![r] = s]

(* commit or rollback: the connection goes back to the pool.               *)
Release(r, s) ==
  /\ Enter(r, s)
  /\ holder' = Nobody
  /\ wrote' = FALSE

(* A query outside of transactions has the connection for its own time.    *)
Query(r) ==
  /\ kind[r] = "query" /\ stage[r] = "waiting" /\ holder = Nobody
  /\ Enter(r, "resolved")
  /\ UNCHANGED <<kind, attempt, pages, holder, wrote, stored>>

(* begin(), and for @transactional the isolation level: it is set before   *)
(* the try, and in the retry inside of its catch, so that nothing rolls    *)
(* back when that fails.                                                   *)
Begin(r) ==
  /\ kind[r] # "query" /\ stage[r] = "waiting" /\ holder = Nobody
  /\ holder' = r /\ wrote' = FALSE
  /\ \/ Enter(r, "method")
     \/ kind[r] = "submit" /\ "set" \in TxFaults /\ Enter(r, "abandoned")
  /\ UNCHANGED <<kind, attempt, pages, stored>>

(* knex rejects a request that waits too long for the pool's connection.   *)
GiveUp(r) ==
  /\ "wait" \in TxFaults
  /\ stage[r] = "waiting" /\ holder # Nobody
  /\ Enter(r, "rejected")
  /\ UNCHANGED <<kind, attempt, pages, holder, wrote, stored>>

-----------------------------------------------------------------------------
(* @transactional                                                          *)

Submitting(r, s) == kind[r] = "submit" /\ stage[r] = s /\ holder = r

(* The method runs to its end for the first time.                          *)
Run(r) ==
  /\ Submitting(r, "method") /\ attempt[r] = 0
  /\ wrote' = TRUE
  /\ Enter(r, "commit")
  /\ UNCHANGED <<kind, attempt, pages, holder, stored>>

(* 40001 in the first attempt, of the method or of commit: Postgres has    *)
(* aborted the transaction; the next attempt only tries commit again.      *)
FirstConflict(r) ==
  /\ "40001" \in TxFaults
  /\ \/ Submitting(r, "method")
     \/ Submitting(r, "commit")
  /\ attempt[r] = 0
  /\ wrote' = FALSE
  /\ attempt' = [attempt EXCEPT ![r] = 1]
  /\ Enter(r, "commit")
  /\ UNCHANGED <<kind, pages, holder, stored>>

(* Mutant: the error of the method is thrown without rollback().           *)
RunFailsOpen(r) ==
  /\ "other" \in TxFaults
  /\ Submitting(r, "method") /\ attempt[r] = 0
  /\ Enter(r, "rejected")
  /\ UNCHANGED <<kind, attempt, pages, holder, wrote, stored>>

(* Any other error of the method: rollback, throw.                         *)
RunFails(r) ==
  /\ "other" \in TxFaults
  /\ Submitting(r, "method") /\ attempt[r] = 0
  /\ Release(r, "rejected")
  /\ UNCHANGED <<kind, attempt, pages, stored>>

(* The method runs again, in the catch.  The entity manager still holds    *)
(* the entities of the first run and may take their changes as written.    *)
Rerun(r) ==
  /\ Submitting(r, "method") /\ attempt[r] > 0
  /\ wrote' \in BOOLEAN
  /\ attempt' = [attempt EXCEPT ![r] = @ + 1]
  /\ Enter(r, "commit")
  /\ UNCHANGED <<kind, pages, holder, stored>>

(* Nothing catches an error of the second run: the transaction stays open. *)
RerunFails(r) ==
  /\ TxFaults \cap {"40001", "other"} # {}
  /\ Submitting(r, "method") /\ attempt[r] > 0
  /\ Enter(r, "abandoned")
  /\ UNCHANGED <<kind, attempt, pages, holder, wrote, stored>>

Commit(r) ==
  /\ Submitting(r, "commit")
  /\ stored' = [stored EXCEPT ![r] = IF wrote THEN @ + 1 ELSE @]
  /\ Release(r, "resolved")
  /\ UNCHANGED <<kind, attempt, pages>>

(* Mutant: one attempt more.                                               *)
ConflictOnceMore(r) ==
  /\ "40001" \in TxFaults
  /\ Submitting(r, "commit") /\ attempt[r] \in 1 .. retry - 1
  /\ Release(r, "sleep")
  /\ UNCHANGED <<kind, attempt, pages, stored>>

(* 40001 in a later attempt: roll back, sleep, and begin anew.             *)
Conflict(r) ==
  /\ "40001" \in TxFaults
  /\ Submitting(r, "commit") /\ attempt[r] \in 1 .. retry - 2
  /\ Release(r, "sleep")
  /\ UNCHANGED <<kind, attempt, pages, stored>>

Wake(r) ==
  /\ stage[r] = "sleep"
  /\ Enter(r, "waiting")
  /\ UNCHANGED <<kind, attempt, pages, holder, wrote, stored>>

(* Mutant: errors of the connection are retried as well.                   *)
CommitRetried(r) ==
  /\ "other" \in TxFaults
  /\ Submitting(r, "commit")
  /\ \E landed \in BOOLEAN :
       stored' = [stored EXCEPT ![r] = IF landed /\ wrote THEN @ + 1 ELSE @]
  /\ \/ attempt[r] \in 1 .. retry - 2 /\ Release(r, "sleep")
     \/ attempt[r] \notin 1 .. retry - 2 /\ Release(r, "rejected")
  /\ UNCHANGED <<kind, attempt, pages>>

(* The last conflict, or any other error of commit, which may have been    *)
(* carried out before its connection broke: rollback, throw.               *)
CommitFails(r) ==
  /\ Submitting(r, "commit")
  /\ \/ "40001" \in TxFaults /\ attempt[r] = retry - 1 /\ UNCHANGED stored
     \/ /\ "other" \in TxFaults
        /\ \E landed \in BOOLEAN :
             stored' = [stored EXCEPT ![r] = IF landed /\ wrote THEN @ + 1 ELSE @]
  /\ Release(r, "rejected")
  /\ UNCHANGED <<kind, attempt, pages>>

-----------------------------------------------------------------------------
(* updateChannels                                                          *)

Syncing(r, s) == kind[r] = "sync" /\ stage[r] = s /\ holder = r

PageUpserts(r) ==
  /\ Syncing(r, "method")
  /\ wrote' = TRUE
  /\ Enter(r, "commit")
  /\ UNCHANGED <<kind, attempt, pages, holder, stored>>

(* The loop has no try: the transaction of the page stays open.            *)
PageFails(r) ==
  /\ "upsert" \in TxFaults
  /\ Syncing(r, "method")
  /\ Enter(r, "abandoned")
  /\ UNCHANGED <<kind, attempt, pages, holder, wrote, stored>>

(* The next page is fetched from Slack outside of a transaction.           *)
PageCommit(r) ==
  /\ Syncing(r, "commit")
  /\ \/ /\ stored' = [stored EXCEPT ![r] = @ + 1]
        /\ pages' = [pages EXCEPT ![r] = @ - 1]
        /\ Release(r, IF pages[r] = 1 THEN "resolved" ELSE "waiting")
     \/ /\ "other" \in TxFaults
        /\ Release(r, "rejected")
        /\ UNCHANGED <<stored, pages>>
  /\ UNCHANGED <<kind, attempt>>

-----------------------------------------------------------------------------

Step(r) ==
  \/ Query(r) \/ Begin(r)
  \/ Run(r) \/ FirstConflict(r) \/ RunFails(r)
  \/ Rerun(r) \/ RerunFails(r)
  \/ Commit(r) \/ Conflict(r) \/ Wake(r) \/ CommitFails(r)
  \/ PageUpserts(r) \/ PageFails(r) \/ PageCommit(r)

TxNext == \E r \in Requests : Step(r) \/ GiveUp(r)

TxSpec == TxInit /\ [][TxNext]_txVars

(* Queries and timers come back, and the pool serves who waits in turn.    *)
(* That somebody gives up is possible, never counted on.                   *)
TxFairness == \A r \in Requests : SF_txVars(Step(r))

-----------------------------------------------------------------------------

(* A submit is stored once at most, whatever is retried; once stored it    *)
(* does not go on; and one whose first attempt succeeds is stored.  (Not   *)
(* so after a conflict: the second commit stores nothing and resolves.)    *)
SubmitIsAtomic ==
  \A r \in Requests : kind[r] = "submit" =>
    /\ stored[r] <= 1
    /\ stored[r] = 1 => stage[r] \in {"resolved", "rejected"}
    /\ stage[r] = "resolved" /\ attempt[r] = 0 => stored[r] = 1

(* Every request is answered, whoever had the connection before it, unless *)
(* somebody abandoned a transaction on it.                                 *)
EveryRequestAnswered ==
  []<>(\/ \A r \in Requests : stage[r] \in Ended
       \/ \E r \in Requests : stage[r] = "abandoned")

=============================================================================
