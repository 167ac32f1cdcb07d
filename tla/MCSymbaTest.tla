----------------------------- MODULE MCSymbaTest -----------------------------
(* The jobs and fan-outs of the runs: a job that waits and retries, shared  *)
(* by its dedup key, a chain with an on_failure job, and the three policies. *)
EXTENDS SymbaTest

CONSTANTS ctx, other, key

Plain  == [links |-> 0, identity |-> NoIdentity, onFailure |-> FALSE, maxAttempts |-> 1,
           base |-> 1, factor |-> 2, keys |-> {}, ctx |-> ctx]
Waiter == [Plain EXCEPT !.identity = key, !.maxAttempts = 2, !.keys = Keys]
Chain  == [Plain EXCEPT !.links = 1, !.onFailure = TRUE]
Retry  == [Plain EXCEPT !.maxAttempts = 2]

Fan(children, kind, n, onComplete) ==
    [children |-> children, policy |-> [kind |-> kind, n |-> n], onComplete |-> onComplete, ctx |-> ctx]

SomeSpecs == {[Waiter EXCEPT !.ctx = other]}
SomePlans == {Fan(<<Chain, Waiter>>, "all_success", 0, <<Chain>>),
              Fan(<<Waiter, Retry, Plain>>, "quorum", 1, <<Waiter>>),
              Fan(<<Waiter, Waiter>>, "all_terminal", 0, <<>>),
              Fan(<<>>, "all_terminal", 0, <<Plain>>)}
=============================================================================
