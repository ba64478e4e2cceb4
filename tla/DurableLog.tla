----------------------------- MODULE DurableLog -----------------------------
(* What the write-ahead log promises its caller, without files: a sequence of  *)
(* durable transactions that only grows, a run of transactions still in doubt, *)
(* and the verdict the caller was given on each transaction.                   *)
EXTENDS Naturals, Sequences

CONSTANT Tx

VARIABLES
    log,      \* the durable transactions, in commit order
    pending,  \* written, neither known durable nor known gone
    told      \* verdict given to the caller, "nothing" until there is one

vars == <<log, pending, told>>

Members(s) == {s[i] : i \in 1..Len(s)}

Init ==
    /\ log = <<>>
    /\ pending = <<>>
    /\ told = [t \in Tx |-> "nothing"]

(* A verdict is final, and it is true of the log after the step that gives it. *)
(* "uncertain" promises nothing.                                               *)
Honest(t) ==
    \/ told'[t] = told[t]
    \/ /\ told[t] = "nothing"
       /\ \/ told'[t] = "uncertain"
          \/ told'[t] \in {"committed", "acknowledged"} /\ t \in Members(log')
          \/ told'[t] = "canceled" /\ t \notin Members(log') \cup Members(pending')

(* A transaction enters doubt once, before any verdict on it.                  *)
Write(t) ==
    /\ told[t] = "nothing"
    /\ t \notin Members(log) \cup Members(pending)
    /\ pending' = Append(pending, t)
    /\ log' = log

(* Doubt ends for all pending transactions at once: some prefix became durable *)
(* and the rest is gone for good.  A commit keeps all, a rollback none.        *)
Settle(k) ==
    /\ log' = log \o SubSeq(pending, 1, k)
    /\ pending' = <<>>

Next ==
    /\ \/ \E t \in Tx : Write(t)
       \/ \E k \in 0..Len(pending) : Settle(k)
       \/ UNCHANGED <<log, pending>>
    /\ \A t \in Tx : Honest(t)

Spec == Init /\ [][Next]_vars
=============================================================================
