------------------------------ MODULE MCExchange ------------------------------
(***************************************************************************)
(* Two services, in two parts.  With a client: a handful of configurations *)
(* for Exchange, which are the defaults (5 s and 30 s) for each kind, an   *)
(* Ollama with a short drain, which its requests can outlast, and a        *)
(* ComfyUI whose probe may take longer than a client waits, beside a unit  *)
(* whose stop takes longer than is announced for it.  Without one: any     *)
(* service of any kind under Adapters alone, acted on again and again      *)
(* while users work with it, beside a unit that nobody may stop.           *)
(***************************************************************************)
EXTENDS Exchange

CONSTANTS m1, m2

MCModels == {m1, m2}

Pair(x, y) == [s \in {"a", "b"} |-> IF s = "a" THEN x ELSE y]
Conf(kind, t, d) == [adapter |-> kind, timeout |-> t, drain |-> d, allowStop |-> TRUE]
Default(kind) == Conf(kind, 1, 6)

MCServed ==
    {Pair(Default("ollama"), Default("comfyui")),
     Pair(Conf("ollama", 1, 1), Default("llama-swap")),
     Pair(Default("llama-swap"), Default("systemd-unit")),
     Pair(Conf("comfyui", 19, 1), Conf("systemd-unit", 1, 1))}

MCAlone ==
    {Pair([Conf(kind, t, 2) EXCEPT !.allowStop = stop],
          [Conf("systemd-unit", 1, 1) EXCEPT !.allowStop = FALSE]) :
       kind \in Adapters, t \in {1, 3}, stop \in BOOLEAN}

MCConfigs == MCServed \cup MCAlone

MCPlans == SUBSET Services

Absent == [state |-> "absent", left |-> 0]

MCInit ==
    \/ config \in MCServed /\ Init
    \/ /\ config \in MCAlone /\ AdaptersInit
       /\ client = Absent
       /\ conn = [state |-> "none", budget |-> 0, observed |-> 0, plan |-> {}]

MCNext ==
    \/ client # Absent /\ Next
    \/ client = Absent /\ AdaptersNext /\ UNCHANGED <<client, conn>>

MCSpec == MCInit /\ [][MCNext]_vars
=============================================================================
