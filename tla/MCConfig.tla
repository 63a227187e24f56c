------------------------------ MODULE MCConfig ------------------------------
(***************************************************************************)
(* Files that retune each other: a service moved to another adapter, keys  *)
(* that only make sense together, values on and beyond each bound, the     *)
(* ways in which a file is refused, and spellings by which it is not.      *)
(***************************************************************************)
EXTENDS Config, TLC

MCTexts == KnownAdapters \cup {Empty, "a", "b", "b!", "url", "bad", "u"}

None == [k \in {} |-> 0]
Block(n, keys) == [name |-> n, keys |-> keys]
File(policy, blocks) == [toml |-> TRUE, text |-> "", policy |-> policy, odd |-> {},
                         blocks |-> blocks, oddBlocks |-> FALSE]

Ollama  == [adapter |-> "ollama", endpoint |-> "url", priority |-> 1]
Unit    == [adapter |-> "systemd-unit", unit |-> "u", allow_stop |-> TRUE]

Base == File([vram_floor_mib |-> 0, poll_interval |-> 2], <<Block("a", Ollama)>>)

Noted == [Base EXCEPT !.text = "# a note"]

\* Retunes a, and names it: no configuration on its own.
Retuned == File([default_workload |-> "a", action_cooldown |-> 1],
                <<Block("a", [timeout |-> 1, drain_timeout |-> MaxDrainTimeout])>>)

MCRevisions == {Base, Noted, Retuned, Absent, Unreadable}

MCContents ==
    {Base, Noted, Retuned,
     \* two services; with Base, the adapter of a is changed and its endpoint cleared
     File([reactive |-> TRUE],
          <<Block("b", Ollama), Block("a", Unit @@ [endpoint |-> Empty, timeout |-> 7])>>),
     \* a unit that Base turns into a service with both
     File(None, <<Block("a", Unit)>>),
     File([action_cooldown |-> BareZero], <<>>),
     File([vram_floor_mib |-> -1], <<>>),
     File(None, <<Block("a", Ollama @@ [timeout |-> MaxServiceTimeout + 1])>>),
     File(None, <<Block("a", Ollama), Block("a", Unit)>>),
     File(None, <<Block(Empty, Ollama)>>),
     File(None, <<Block("b", Unit @@ [endpoint |-> "bad"]), Block("b!", Ollama)>>),
     [Base EXCEPT !.toml = FALSE],
     \* a key of the policy in another case, below its bound, beside one that is not
     [File([poll_interval |-> 1, reactive |-> TRUE], <<>>) EXCEPT !.odd = {"poll_interval"}],
     \* [[Service]], with a limit beyond its bound and another below
     [File(None, <<Block("a", Ollama @@ [timeout |-> MaxServiceTimeout + 1, drain_timeout |-> -1])>>)
        EXCEPT !.oddBlocks = TRUE]}
=============================================================================
