------------------------ MODULE WorkspaceCollection ------------------------
(***************************************************************************)
(* What a collection run returns for what an account holds (inventory.py,  *)
(* workspace.py): every collector reads region by region and page by page  *)
(* until its limit; the snapshot is complete unless a read failed          *)
(* (`partial`) or a collector knows that it left something (`truncated`).  *)
(*                                                                         *)
(* A resource is [type, tag, state]: the tag is "owned", "untagged",       *)
(* "unread" when its lookup fails, "unasked" where there is no lookup, or  *)
(* "malformed" for an item that cannot be made a record.  A region is      *)
(* [items, ends, fails_at]: what it lists, how much of it its first n      *)
(* pages hold (ends[n]), and the page whose read raises (0: none does).    *)
(* A record is its place and its item, so that none stands for two.        *)
(***************************************************************************)
EXTENDS Naturals, Sequences, FiniteSets, FiniteSetsExt, Governance

Tags(type) ==
    {"malformed"}
        \cup IF type \in OwnerTagCollected THEN {"owned", "untagged", "unread"} ELSE {"unasked"}

Items(type) == [type : {type}, tag : Tags(type), state : STRING]

(* What list_functions and describe_instances may answer of one region. *)
IsRegion(region, type) ==
    /\ region.items \in Seq(Items(type))
    /\ region.ends \in Seq(0 .. Len(region.items)) \ {<<>>}
    /\ region.ends[Len(region.ends)] = Len(region.items)
    /\ region.fails_at \in Nat

-----------------------------------------------------------------------------
(* S3BucketCollector, LambdaFunctionCollector, Ec2InstanceCollector. *)
Parses(item) == item.tag # "malformed"

(* Where the records of the first k items stand. *)
Parsed(items, k) == {i \in 1 .. k : Parses(items[i])}

(* _lambda_pages and _ec2_instance_pages are pulled only until the records *)
(* they gave reach the number that remains.                                *)
PagesPulled(region, remaining) ==
    Min({n \in DOMAIN region.ends :
            Cardinality(Parsed(region.items, region.ends[n])) >= remaining}
            \cup {Len(region.ends)})

(* How many of the items listed are mapped before the limit stops the loop. *)
ItemsMapped(items, listed, remaining) ==
    Min({k \in 1 .. listed : Cardinality(Parsed(items, k)) >= remaining} \cup {listed})

(* Mutant: only a page that was broken off counts. *)
LeftOnThePage(region, k, n) == k < region.ends[n]

(* An item of the last page was left, or that page was not the last one. *)
LeftBehind(region, k, n) == k < region.ends[n] \/ n < Len(region.ends)

(* _collect_items. *)
CollectItems(region, remaining) ==
    LET n == PagesPulled(region, remaining)
        k == ItemsMapped(region.items, region.ends[n], remaining)
        records == Parsed(region.items, k)
    IN  [records |-> records,
         truncated |-> Cardinality(records) >= remaining /\ LeftBehind(region, k, n),
         failures |-> records # 1 .. k]

(* Is the page whose read raises among those that are read?  The EC2       *)
(* iterator looks one page ahead.                                          *)
ReadRaises(region, remaining, type) ==
    /\ region.fails_at # 0
    /\ region.fails_at <= PagesPulled(region, remaining)
                             + (IF type = "ec2_instance" THEN 1 ELSE 0)

Unread == [records |-> {}, truncated |-> FALSE, failures |-> FALSE, raised |-> FALSE, regions |-> 0]

(* The records of these positions in what the r-th region lists. *)
RecordsOf(items, r, positions) == {[at |-> <<r, i>>, item |-> items[i]] : i \in positions}

(* One turn of the loop over regions, which ends at the limit. *)
CollectRegion(so_far, regions, r, limit, type) ==
    LET remaining == limit - Cardinality(so_far.records)
        read == CollectItems(regions[r], remaining)
    IN  IF so_far.raised \/ Cardinality(so_far.records) >= limit THEN so_far
        ELSE IF ReadRaises(regions[r], remaining, type) THEN [Unread EXCEPT !.raised = TRUE]
        ELSE [records |-> so_far.records \cup RecordsOf(regions[r].items, r, read.records),
              truncated |-> so_far.truncated \/ read.truncated,
              failures |-> so_far.failures \/ read.failures,
              raised |-> FALSE,
              regions |-> r]

(* LambdaFunctionCollector.collect and Ec2InstanceCollector.collect. *)
CollectRegions(regions, limit, type) ==
    LET after[r \in 0 .. Len(regions)] ==
            IF r = 0 THEN Unread ELSE CollectRegion(after[r - 1], regions, r, limit, type)
    IN  after[Len(regions)]

(* _addressable_regions: a client built for one region reads only that. *)
Addressable(regions, addresses_regions) ==
    IF addresses_regions THEN regions ELSE SubSeq(regions, 1, 1)

(* S3BucketCollector.collect: one list, of every region; a bucket without  *)
(* a name is passed over.                                                  *)
CollectBuckets(buckets, limit) ==
    LET records == Parsed(buckets, ItemsMapped(buckets, Len(buckets), limit))
    IN  [Unread EXCEPT !.records = RecordsOf(buckets, 1, records),
            !.truncated = Cardinality(records) = limit /\ Len(buckets) > limit]

-----------------------------------------------------------------------------
(* A run: what is asked for, of an account.  request is [limit, ec2,       *)
(* addresses_regions], account [buckets, lists_buckets, functions,         *)
(* instances], with one region record per requested region.                *)

IsRequest(request) ==
    /\ request.limit \in Nat \ {0}
    /\ request.ec2 \in BOOLEAN /\ request.addresses_regions \in BOOLEAN

AreRegions(regions, type) ==
    /\ regions \in Seq({regions[r] : r \in DOMAIN regions}) \ {<<>>}
    /\ \A r \in DOMAIN regions : IsRegion(regions[r], type)

IsAccount(account) ==
    /\ account.buckets \in Seq(Items("s3_bucket")) /\ account.lists_buckets \in BOOLEAN
    /\ AreRegions(account.functions, "lambda_function")
    /\ AreRegions(account.instances, "ec2_instance")

(* Ec2InstanceCollector refuses regions that its client cannot address. *)
Refused(request, account) ==
    request.ec2 /\ ~request.addresses_regions /\ Len(account.instances) > 1

(* collect_all: buckets, functions and, if asked for, instances. *)
Collections(request, account) ==
    [s3_bucket |-> IF account.lists_buckets THEN CollectBuckets(account.buckets, request.limit)
                   ELSE [Unread EXCEPT !.raised = TRUE],
     lambda_function |-> CollectRegions(Addressable(account.functions, request.addresses_regions),
                            request.limit, "lambda_function"),
     ec2_instance |-> IF request.ec2
                      THEN CollectRegions(account.instances, request.limit, "ec2_instance")
                      ELSE Unread]

(* Any failure that a collector traced: a listing, a region it cannot      *)
(* address, an item it cannot parse, a tag it cannot read.                 *)
AnyFailure(request, account, read) ==
    \/ \E type \in ResourceTypes :
          \/ read[type].raised \/ read[type].failures
          \/ \E record \in read[type].records : record.item.tag = "unread"
    \/ ~request.addresses_regions /\ Len(account.functions) > 1 /\ ~read.lambda_function.raised

(* workspace.collect_workspace: the snapshot that is returned. *)
Snapshot(request, account) ==
    LET read == Collections(request, account)
    IN  [resources |-> read,
         partial |-> AnyFailure(request, account, read),
         truncated |-> \E type \in ResourceTypes : read[type].truncated]

(* What policy sees of a record: a tag that could not be read is no tag. *)
AsRecorded(item) ==
    [type |-> item.type, state |-> item.state,
     owner_tag |-> IF item.tag = "owned" THEN "owned" ELSE "none"]

(* evaluate_workspace: one decision for each resource. *)
DecisionFor(snapshot, item) == Evaluate(AsRecorded(item), snapshot.partial, snapshot.truncated)

-----------------------------------------------------------------------------
(* What a complete snapshot promises. *)

Complete(snapshot) == ~snapshot.partial /\ ~snapshot.truncated

(* Every resource of these items, as far as it can be made a record. *)
Everything(items, r) == RecordsOf(items, r, Parsed(items, Len(items)))

(* Every resource of the first n regions. *)
Held(regions, n) == UNION {Everything(regions[r].items, r) : r \in 1 .. n}

(* All that the regions read hold; and unless the limit is reached, these  *)
(* are all regions.  (A collector that reaches its limit at the very end   *)
(* of a region stops there, and says nothing of the regions after it.)     *)
HoldsEverything(read, regions, limit) ==
    /\ read.records = Held(regions, read.regions)
    /\ read.regions = Len(regions) \/ Cardinality(read.records) >= limit

NothingMissed(request, account, snapshot) ==
    /\ snapshot.resources.s3_bucket.records = Everything(account.buckets, 1)
    /\ HoldsEverything(snapshot.resources.lambda_function, account.functions, request.limit)
    /\ request.ec2 =>
          HoldsEverything(snapshot.resources.ec2_instance, account.instances, request.limit)

(* A missing tag is reported only of a resource that was seen to have none. *)
MissingTagsAreFacts(snapshot) ==
    \A type \in ResourceTypes : \A record \in snapshot.resources[type].records :
        DecisionFor(snapshot, record.item).rule = "missing_owner_tag" => record.item.tag = "untagged"
=============================================================================
