---------------------------- MODULE MCAggregator ----------------------------
(* Instances of Aggregator for TLC.                                        *)
EXTENDS Aggregator

CONSTANTS p1, p2, sync, ann, bob, mallory

Document(v, a, S) == [version |-> v, author |-> a, sessions |-> S]

(* Two documents that are accepted, with a tier the server has no column   *)
(* for, a session without id and one session id sent by two authors; one   *)
(* that is too long, one of no member, and one of the exported version.    *)
SomeDocs ==
  {Document("0.3", ann, <<[id |-> "s", tiers |-> <<1, 4>>],
                          [id |-> Empty, tiers |-> <<2>>]>>),
   Document("0.3", bob, <<[id |-> "s", tiers |-> <<1, 3>>],
                          [id |-> "t", tiers |-> <<>>]>>),
   Document("0.3", ann, <<[id |-> "s", tiers |-> <<1, 1>>],
                          [id |-> Empty, tiers |-> <<1, 1>>]>>),
   Document("0.3", mallory, <<>>),
   Document("1.0", ann, <<[id |-> "s", tiers |-> <<0>>]>>)}

IngestSender == [p \in {p1, p2} |-> "other"]

SyncSender == [p \in {p1, sync} |-> IF p = sync THEN "sync" ELSE "other"]

=============================================================================
