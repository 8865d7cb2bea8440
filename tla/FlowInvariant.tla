---------------------------- MODULE FlowInvariant ----------------------------
(***************************************************************************)
(* Why a flow's reply is delivered at most once: what holds between the      *)
(* rows of a flow, the provider and the worker that has the flow in hand,    *)
(* in every state, as long as only the jobs of dead workers are recovered.   *)
(* And the contract the flows implement.                                     *)
(***************************************************************************)
EXTENDS FlowDelivery

\* The stages at which the session holds the rows of the flow, and those at
\* which its send is marked.
Working == {"run", "lead", "checked", "inflight", "accepted", "reply", "record"}
Calling == {"inflight", "accepted", "reply", "record"}

\* The worker's job is running, its copies are the rows, its send is marked
\* exactly while it is with the provider, and the stage tells what the provider did.
WorkerInv(w) ==
    /\ pc[w] = "idle" => flow[w] = NoFlow
    /\ pc[w] # "idle" => job[flow[w]] = "running"
    /\ pc[w] \in Working \cup {"lock"} =>
         ses[w].exec = exec[flow[w]] /\ exec[flow[w]] \in ExecActive
    /\ pc[w] \in Working => ses[w].act = act[flow[w]]
    /\ pc[w] \in {"load", "lock", "run", "lead", "checked", "finish"} =>
         \A p \in Steps(flow[w]) : act[flow[w]][p] # "sending"
    /\ pc[w] \in Calling \cup {"checked"} => \E p \in Sends(flow[w]) : Current(w, p)
    /\ pc[w] \in Calling =>
         /\ msg[flow[w]] = "sending"
         /\ \A p \in Sends(flow[w]) : act[flow[w]][p] = "sending"
    /\ pc[w] = "inflight" => delivered[flow[w]] = 0
    /\ pc[w] \in {"accepted", "reply", "record"} => delivered[flow[w]] = 1
    /\ pc[w] \in {"accepted", "reply"} => replied[flow[w]] = 0
    /\ pc[w] = "finish" => exec[flow[w]] \notin ExecActive

\* The rows of a flow agree with each other and with the provider.
FlowInv(f) ==
    /\ exec[f] \in ExecActive =>
         /\ job[f] \in {"pending", "running"}
         /\ \A p \in Steps(f) : act[f][p] \in ActDone \cup {"pending", "sending"}
    /\ \A p \in Steps(f) : act[f][p] = "sending" => p \in Sends(f) /\ job[f] = "running"
    /\ delivered[f] <= 1 /\ replied[f] <= delivered[f]
    /\ delivered[f] # 0 => \E p \in Sends(f) : act[f][p] \in {"sending", "sent", "unknown"}
    /\ msg[f] \in {"none", "queued", "failed"} => delivered[f] = 0
    /\ \A p \in Sends(f) : act[f][p] = "sent" => delivered[f] = 1 /\ msg[f] = "sent"

OneOwner == \A v, w \in Worker : pc[v] # "idle" /\ pc[w] # "idle" /\ flow[v] = flow[w] => v = w

\* Between the claim of a flow's job (worker.py) and its end, its rows are touched by the
\* one worker that has it, whose session copies (flows.py) are what is in the database,
\* and the markers tell what the provider was asked and did.  The invariant from which
\* the safety theorems of FlowDeliveryProofs follow.
DeliveryInv ==
    /\ TypeOK /\ OneOwner
    /\ \A w \in Worker : WorkerInv(w)
    /\ \A f \in Flow : FlowInv(f)

-----------------------------------------------------------------------------
\* What a reader of the database can say of a reply.
Phase(f) ==
    LET status == SendStatus(f) IN
    CASE status = "sending" -> "attempting"
      [] status = "skipped" -> "abandoned"
      [] status \in {"absent", "pending"} -> "waiting"
      [] OTHER -> status

Phases == [f \in Flow |-> Phase(f)]
Contract == INSTANCE ReplyContract WITH Reply <- Flow, phase <- Phases, copies <- delivered

\* The workers keep the contract of docs/architecture.md: every step of theirs is a
\* step of it or changes nothing it sees.
KeepsContract == Contract!Spec
=============================================================================
