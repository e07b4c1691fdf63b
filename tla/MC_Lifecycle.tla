---------------------------- MODULE MC_Lifecycle ----------------------------
(* A small instance of Lifecycle: two processes, one load balancer, and a pool  *)
(* that is moved, shrunk, or misconfigured between two runs.                    *)
EXTENDS Lifecycle, TLC

CONSTANTS d1, d2, i1, i2, i3, bad, noalloc

MCCanon == "a" :> "a"
MCTexts == {"http", "https", "localhost", "box", "verify", ""}

Ports(s, e, https, bind) == [start |-> s, end |-> e, https |-> https, http |-> 80, bind |-> bind]

\* The last one has its management bind inside of the pool: it is refused.
MCConfigFiles ==
  {Ports(9001, 9002, 443, 0), Ports(9002, 9003, 443, 9001), Ports(9001, 9002, 443, 9002)}

Explicit == [scheme |-> "http", host |-> "box", port |-> 9001, mode |-> "verify", ca |-> ""]
Put(p, alloc) == [op |-> "put_mapping", name |-> "a", port |-> p, tls |-> TRUE,
                  up |-> Explicit, allocate |-> alloc, replace |-> FALSE]

MCRequests ==
  {Put(8080, TRUE), Put(9003, FALSE), [op |-> "allocate_port", owner |-> "ops"],
   [op |-> "return_port", port |-> 9001]}

\* One load balancer, or an orphaned automatic port beside a manual one.
MCInitialFiles ==
  {[EmptyState EXCEPT !.lbs = {[name |-> "a", label |-> "l"]}],
   [EmptyState EXCEPT !.allocs =
     {[id |-> i1, port |-> 9001, owner |-> "a", auto |-> TRUE],
      [id |-> i2, port |-> 9002, owner |-> "ops", auto |-> FALSE]}]}

Sym == Permutations({d1, d2}) \cup Permutations({i1, i2, i3})
=============================================================================
