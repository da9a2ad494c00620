---------------------------- MODULE MCMcpBackend ----------------------------
(* Two server processes over one ledger, and accounts in which a limit, a  *)
(* page boundary, a failing read or an unread tag decides what is said.    *)
EXTENDS McpBackend

CONSTANTS w1, w2, t1, a, b

F(tag) == [type |-> "lambda_function", tag |-> tag, state |-> "none"]
B(tag) == [type |-> "s3_bucket", tag |-> tag, state |-> "none"]
V(state) == [type |-> "ec2_instance", tag |-> "unasked", state |-> state]
Odd(type) == [type |-> type, tag |-> "malformed", state |-> "none"]

Region(items, ends) == [items |-> items, ends |-> ends, fails_at |-> 0]
Failing(items, ends, n) == [items |-> items, ends |-> ends, fails_at |-> n]

Nothing == Region(<<>>, <<0>>)

(* What the first region lists; the second holds one function. *)
Functions ==
    {Region(<<F("untagged"), F("owned"), F("untagged")>>, <<2, 3>>),
     Region(<<F("untagged"), F("owned"), F("untagged")>>, <<3>>),
     Region(<<Odd("lambda_function"), F("untagged")>>, <<2, 2>>),
     Failing(<<F("untagged"), F("untagged")>>, <<1, 2>>, 2)}

Instances ==
    {Region(<<V("running"), V("pending"), V("stopped")>>, <<2, 3>>),
     Failing(<<V("stopped"), V("odd")>>, <<1, 2>>, 2)}

Account(buckets, lists, functions, instances) ==
    [buckets |-> buckets, lists_buckets |-> lists, functions |-> functions, instances |-> instances]

MCAccounts ==
    {Account(<<Odd("s3_bucket")>>, TRUE, <<f, Region(<<F("unread")>>, <<1>>)>>, <<Nothing, Nothing>>) :
        f \in Functions}
    \cup {Account(<<B("untagged"), B("unread")>>, TRUE, <<Nothing, Nothing>>, <<v, Nothing>>) :
             v \in Instances}
    \cup {Account(<<B("owned")>>, FALSE, <<Nothing>>, <<Nothing>>),
          Account(<<B("owned"), Odd("s3_bucket"), B("untagged")>>, TRUE, <<Nothing>>, <<Nothing>>)}

MCRequests ==
    {[limit |-> 2, ec2 |-> TRUE, addresses_regions |-> TRUE],
     [limit |-> 2, ec2 |-> FALSE, addresses_regions |-> FALSE]}
=============================================================================
