---------------------------- MODULE MC_TxnManager ----------------------------
(* A small instance of TxnManager: two callers, two hostnames, one on-demand *)
(* port, a pool of two ports.                                                *)
EXTENDS TxnManager, TLC

CONSTANTS i1, i2, i3, bad, noalloc, nostate, c1, c2

MCTexts == {"http", "https", "localhost", "box", "verify", "ca", "corp", ""}
MCSpellings == {"a", "A.", "b", "a..b"}
MCNames == {"a", "b"}
MCCanon == "a" :> "a" @@ "A." :> "a" @@ "b" :> "b" @@ "a..b" :> bad

Explicit == [scheme |-> "https", host |-> "box", port |-> 8443, mode |-> "ca", ca |-> "corp"]

MCCreate == {[op |-> "create_lb", name |-> n, label |-> "l"] : n \in {"A.", "b"}}
MCDelete == {[op |-> "delete_lb", name |-> "A."]}
MCPut(n, p, t, alloc, rep) ==
  [op |-> "put_mapping", name |-> n, port |-> p, tls |-> t, up |-> Explicit,
   allocate |-> alloc, replace |-> rep]

Sym == Permutations({i1, i2, i3}) \cup Permutations({c1, c2})

\* A file left by an older daemon: an orphaned automatic port beside a manual one.
Orphaned == [EmptyState EXCEPT !.allocs =
  {[id |-> i1, port |-> 9001, owner |-> "a", auto |-> TRUE],
   [id |-> i2, port |-> 9002, owner |-> "ops", auto |-> FALSE]}]

MCInitialFiles == {EmptyState}
MCInitialFilesFaults == {EmptyState, Orphaned}

\* Fewer mutations, for the runs whose disk operations fail.
MCFewRequests ==
  {[op |-> "create_lb", name |-> "a", label |-> "l"], [op |-> "delete_lb", name |-> "A."],
   MCPut("a", 8080, TRUE, TRUE, FALSE), [op |-> "return_port", port |-> 9002]}

MCRequests ==
  MCCreate \cup MCDelete
    \cup {MCPut("a", 8080, t, TRUE, r) : t \in BOOLEAN, r \in BOOLEAN}
    \cup {MCPut("b", 8080, TRUE, TRUE, FALSE), MCPut("a", 8080, TRUE, FALSE, TRUE)}
    \cup {[op |-> "update_lb", name |-> n, label |-> "l"] : n \in {"A.", "a..b"}}
    \cup {[op |-> "delete_mapping", name |-> "a", port |-> 8080],
          [op |-> "allocate_port", owner |-> "ops"],
          [op |-> "return_port", port |-> 9001]}

\* Three requests that save, for the run whose directory sync fails.
MCSaves ==
  {[op |-> "create_lb", name |-> "a", label |-> "l"], [op |-> "delete_lb", name |-> "A."],
   [op |-> "update_lb", name |-> "a..b", label |-> "l"]}
=============================================================================
