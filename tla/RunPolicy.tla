----------------------------- MODULE RunPolicy -----------------------------
(***************************************************************************)
(* How a run is asked for and who may refuse it: loop_run with a document  *)
(* or with a name, loop_get, loop_save (mcp/tools_run.py, tools_loops.py), *)
(* the command line (cli/app.py), and the policy hooks (hooks.py,          *)
(* hooks_builtin.py).  What an admitted run does is AgentRun's and         *)
(* DetachedRunner's.                                                       *)
(***************************************************************************)
EXTENDS Naturals, Sequences

VARIABLES
    asked,      \* the request that is being decided, or NoRequest
    hooks,      \* what is registered for the event, in order
    stored,     \* the loops table has the spec
    gate        \* what became of it: none, asked, refused, admitted

policyVars == <<asked, hooks, stored, gate>>

Policy    == {"verify-blocks", "shell-allowlist", "budget-guard"}
Builtins  == <<"validate-spec", "verify-blocks", "shell-allowlist", "budget-guard">>
HookNames == {Builtins[i] : i \in DOMAIN Builtins} \union {"user"}
Says      == {"pass", "veto", "raise"}

\* says: "rule" for a builtin, which says what its rule says of the request
Hook == [name : HookNames, says : Says \union {"rule"}]

\* valid: load_loop_from_dict takes it; found: the loop, its file, a key and
\* the context are there; policy: what the other builtins would say of it
Request == [ entry  : {"spec", "name", "get", "save", "cliJson", "cliPython", "cliDry"},
             valid  : BOOLEAN,
             found  : BOOLEAN,
             policy : {p \in [Policy -> Says] :      \* only a store can fail
                          \A h \in Policy \ {"verify-blocks"} : p[h] # "raise"} ]

NoRequest == [entry |-> "none"]

PolicyTypeOK ==
    /\ asked  \in Request \union {NoRequest}
    /\ hooks  \in Seq(Hook)
    /\ stored \in BOOLEAN
    /\ gate   \in {"none", "asked", "refused", "admitted"}

Rules == [i \in DOMAIN Builtins |-> [name |-> Builtins[i], says |-> "rule"]]

PolicyInit == asked = NoRequest /\ hooks = Rules /\ stored = FALSE /\ gate = "none"

---------------------------------------------------------------------------
(* Hooks *)

\* no two hooks have one name: what register and unregister leave of the others
Without(name) ==
    IF \E i \in DOMAIN hooks : hooks[i].name = name
    THEN LET i == CHOOSE i \in DOMAIN hooks : hooks[i].name = name
         IN  SubSeq(hooks, 1, i - 1) \o SubSeq(hooks, i + 1, Len(hooks))
    ELSE hooks

\* load_user_hooks: the module may register a hook, under any name, or
\* unregister one
UserHooks ==
    /\ gate = "none" /\ hooks = Rules
    /\ \E name \in HookNames :
          \/ \E says \in Says : hooks' = Append(Without(name), [name |-> name, says |-> says])
          \/ hooks' = Without(name)
    /\ UNCHANGED <<asked, stored, gate>>

\* the payload of a named loop, and of the command line's Python loop, has a
\* name and steps; h_validate_spec wants the 'loopmaster' marker first of all
Marked(r) == r.entry \in {"spec", "save", "cliJson"}

RuleSays(r, name) ==
    CASE name = "validate-spec" -> IF Marked(r) /\ r.valid THEN "pass" ELSE "veto"
      [] name = "budget-guard" /\ r.entry = "save" -> "pass"   \* not registered
      [] OTHER -> r.policy[name]

Verdict(r, h) == IF h.says = "rule" THEN RuleSays(r, h.name) ELSE h.says

\* Mutant: a hook that raises ends the round.
StopsAtRaise(r, round) ==
    \E i \in DOMAIN round : /\ Verdict(r, round[i]) = "veto"
                            /\ \A k \in 1..(i - 1) : Verdict(r, round[k]) # "raise"

\* trigger: every hook in turn; only a veto ends it
Vetoed(r, round) == \E i \in DOMAIN round : Verdict(r, round[i]) = "veto"

\* what a request meets: loop_get asks no hook, nor does the dry run of a Python
\* loop, which the engine executes; the command line has a process of its own,
\* where ensure_builtins is all there is
Round(r) == CASE r.entry \in {"get", "cliDry"} -> <<>>
              [] r.entry \in {"cliJson", "cliPython"} -> Rules
              [] OTHER -> hooks

---------------------------------------------------------------------------
(* Requests *)

Ask ==
    /\ gate = "none"
    /\ asked' \in Request /\ gate' = "asked"
    /\ UNCHANGED <<hooks, stored>>

\* the early returns before the hooks
Refusable(r) == (Marked(r) /\ ~r.valid) \/ ~r.found

Refuse ==
    /\ gate = "asked"
    /\ Refusable(asked) \/ Vetoed(asked, Round(asked))
    /\ gate' = "refused"
    /\ UNCHANGED <<asked, hooks, stored>>

\* save_loop inserts or replaces the row
SaveLoop == stored' = (stored \/ asked.entry = "save")

Admit ==
    /\ gate = "asked" /\ ~Refusable(asked)
    /\ \/ ~Vetoed(asked, Round(asked))
       \/ asked.entry = "cliJson"      \* the file cannot be read a second time
    /\ gate' = "admitted"
    /\ SaveLoop
    /\ UNCHANGED <<asked, hooks>>

\* the tool has answered
Answers ==
    /\ gate \in {"refused", "admitted"}
    /\ gate' = "none" /\ asked' = NoRequest
    /\ UNCHANGED <<hooks, stored>>

loop_delete ==
    /\ stored /\ gate = "none"
    /\ stored' = FALSE
    /\ UNCHANGED <<asked, hooks, gate>>

PolicyNext == UserHooks \/ Ask \/ Refuse \/ Admit \/ Answers \/ loop_delete

PolicySpec == PolicyInit /\ [][PolicyNext]_policyVars

---------------------------------------------------------------------------
\* hooks_builtin.py: "an internal error must never degrade to 'allow'": whatever
\* hooks the user adds or replaces, and whichever of them raise, a loop_run or a
\* loop_save is admitted only if every builtin rule that is still registered
\* lets it pass.
PolicyHolds ==
    gate = "admitted" /\ asked.entry \in {"spec", "save", "name"} =>
        \A i \in DOMAIN hooks :
            hooks[i].says = "rule" => RuleSays(asked, hooks[i].name) # "veto"
=============================================================================
