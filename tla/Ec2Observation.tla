--------------------------- MODULE Ec2Observation ---------------------------
(***************************************************************************)
(* What the observer says of one instance (ec2_observation.py), from what  *)
(* DescribeInstances answers.  An answer is a sequence of pages, each      *)
(*   [intact, instances]                                                   *)
(* with `intact` FALSE for a page that is malformed or never came, and     *)
(* instances a set of [id, account, state, serial], "none" for what a      *)
(* record does not say; serials keep two records of one id apart.          *)
(***************************************************************************)
EXTENDS Naturals, Sequences, FiniteSets

(* Every page is drained: instances of all pages, each with its page. *)
Found(pages) ==
    UNION {{<<n, i>> : i \in pages[n].instances} : n \in DOMAIN pages}

(* _read_single_instance: no instance, or more than one, is a failure. *)
ReadsSingleInstance(pages) ==
    (\A n \in DOMAIN pages : pages[n].intact) /\ Cardinality(Found(pages)) = 1

SingleInstance(pages) == (CHOOSE f \in Found(pages) : TRUE)[2]

(* The fields of an instance without which nothing is observed. *)
Established(instance) == "none" \notin {instance.id, instance.account, instance.state}

ObservationFailed ==
    [failed |-> TRUE, resource |-> "none", type |-> "none", arn |-> "none",
     account |-> "none", at |-> 0, provider |-> FALSE, ambiguous |-> FALSE]

(* observe: what AWS returned, not what was asked for, stamped once the    *)
(* whole answer has been read.  An ARN is named by its instance.           *)
ObserveInstance(pages, now) ==
    IF ReadsSingleInstance(pages) /\ Established(SingleInstance(pages))
    THEN LET instance == SingleInstance(pages) IN
         [failed |-> FALSE, resource |-> instance.id, type |-> "ec2_instance",
          arn |-> instance.id, account |-> instance.account, at |-> now,
          provider |-> TRUE, ambiguous |-> FALSE]
    ELSE ObservationFailed
=============================================================================
