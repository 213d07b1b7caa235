----------------------------- MODULE MCJobLedger -----------------------------
(* Small instances of the job ledger: the submissions and the periodic     *)
(* definitions that the configurations choose from.                        *)
EXTENDS JobLedger

Strings == STRING

OneSlotPerGroup == [g \in Groups |-> 1]

None == {}

job == [NoJob EXCEPT !.handler = "h", !.owner = "system"]

(* Two producers share resource "a"; the second is a plugin whose work may *)
(* be retried; the third is host maintenance.                              *)
core == [job EXCEPT !.key.name = "core", !.resource = "a"]
retried == [job EXCEPT !.key.name = "retried", !.owner = "plugin:p",
                       !.lane = "plugin:p", !.resource = "a", !.max = 2,
                       !.backoff = 1]
maintenance == [job EXCEPT !.key.name = "maintenance",
                           !.resource = MaintenanceResource]
Sharing == {core, retried, maintenance}
ImportedCore == {core}

(* A plugin's runs in and beside an execution group, next to core work:    *)
(* one run more than the queue and the budget hold together, and host      *)
(* maintenance.                                                            *)
Grouped == {
    [retried EXCEPT !.key.name = "g1", !.resource = Empty, !.group = "g", !.lane = "group:g",
                    !.backoff = 0],
    [retried EXCEPT !.key.name = "g2", !.resource = Empty, !.group = "g", !.max = 1,
                    !.lane = "group:g", !.backoff = 0],
    [retried EXCEPT !.key.name = "g3", !.resource = Empty, !.max = 1, !.backoff = 0],
    [job EXCEPT !.key.name = "free"],
    maintenance}

plan == [NoPlan EXCEPT !.owner = "system", !.handler = "h", !.interval = 2]

(* A compacting reconciler, the same under a new revision, and a version   *)
(* of it that is suppressed.                                               *)
Compacting == {
    [id |-> "s", plan |-> [plan EXCEPT !.compact = TRUE],
     immediate |-> TRUE, reconcile |-> TRUE, suppress |-> FALSE],
    [id |-> "s", plan |-> [plan EXCEPT !.compact = TRUE, !.revision = "2"],
     immediate |-> TRUE, reconcile |-> TRUE, suppress |-> FALSE]}

(* An anchored schedule with retries, renamed and under the skip policy.   *)
Anchored == {
    [id |-> "s", plan |-> [plan EXCEPT !.first = 0, !.max = 2, !.backoff = 1],
     immediate |-> FALSE, reconcile |-> FALSE, suppress |-> FALSE],
    [id |-> "s", plan |-> [plan EXCEPT !.first = 0, !.max = 2, !.backoff = 1,
                                       !.name = "renamed", !.policy = "skip"],
     immediate |-> FALSE, reconcile |-> FALSE, suppress |-> FALSE],
    [id |-> "s", plan |-> [plan EXCEPT !.first = 0, !.max = 2, !.backoff = 1],
     immediate |-> FALSE, reconcile |-> FALSE, suppress |-> TRUE]}
=============================================================================
