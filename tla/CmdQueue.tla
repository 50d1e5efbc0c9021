------------------------------ MODULE CmdQueue ------------------------------
(***************************************************************************)
(* What the command queue of the driver promises its callers, without      *)
(* threads, semaphores, locks, power states or pointers.  CmdThread is     *)
(* shown to implement it.                                                  *)
(*                                                                         *)
(* A call issues a command, which is rejected at once or accepted in turn. *)
(* Accepted commands finish one at a time in the order of acceptance.  A   *)
(* caller that wants an answer gets it at most once, while it is still in  *)
(* that very call, and from the oldest unfinished command only; a command  *)
(* never finishes under a caller that still waits for its answer.  The     *)
(* caller itself may return at any time (its wait times out).              *)
(***************************************************************************)
EXTENDS Naturals, Sequences

CONSTANT Clients

VARIABLES
    n,          \* commands issued
    pending,    \* accepted and not finished, oldest first
    finished,   \* in the order they finished
    phase,      \* client: "out", "asking" until its command is accepted, "in"
    cmd,        \* client: the command of its last call
    wants,      \* client: does it wait for the answer of that call?
    answered    \* client: did it get it?

calls == <<phase, cmd, wants, answered>>
vars  == <<n, pending, finished, calls>>

Init ==
    /\ n = 0 /\ pending = <<>> /\ finished = <<>>
    /\ phase = [k \in Clients |-> "out"] /\ cmd = [k \in Clients |-> 0]
    /\ wants = [k \in Clients |-> FALSE]
    /\ answered = [k \in Clients |-> FALSE]

Reject(k) ==
    /\ phase[k] = "out"
    /\ n' = n + 1
    /\ UNCHANGED <<pending, finished, calls>>

Call(k, wait) ==
    /\ phase[k] = "out"
    /\ n' = n + 1
    /\ phase' = [phase EXCEPT ![k] = "asking"]
    /\ cmd' = [cmd EXCEPT ![k] = n']
    /\ wants' = [wants EXCEPT ![k] = wait]
    /\ answered' = [answered EXCEPT ![k] = FALSE]
    /\ UNCHANGED <<pending, finished>>

Accept(k) ==
    /\ phase[k] = "asking"
    /\ phase' = [phase EXCEPT ![k] = "in"]
    /\ pending' = Append(pending, cmd[k])
    /\ UNCHANGED <<n, finished, cmd, wants, answered>>

\* The client that waits for the answer of command c.
WaitsFor(k, c) == phase[k] # "out" /\ cmd[k] = c /\ wants[k] /\ ~answered[k]

Answer(k) ==
    /\ pending # <<>> /\ WaitsFor(k, Head(pending))
    /\ answered' = [answered EXCEPT ![k] = TRUE]
    /\ UNCHANGED <<n, pending, finished, phase, cmd, wants>>

Finish ==
    /\ pending # <<>> /\ \A k \in Clients : ~WaitsFor(k, Head(pending))
    /\ finished' = Append(finished, Head(pending))
    /\ pending' = Tail(pending)
    /\ UNCHANGED <<n, calls>>

Return(k) ==
    /\ phase[k] = "in"
    /\ phase' = [phase EXCEPT ![k] = "out"]
    /\ UNCHANGED <<n, pending, finished, cmd, wants, answered>>

Next ==
    \/ Finish
    \/ \E k \in Clients :
          \/ Reject(k) \/ Accept(k) \/ Answer(k) \/ Return(k)
          \/ \E wait \in BOOLEAN : Call(k, wait)

Spec == Init /\ [][Next]_vars
=============================================================================
