------------------------------ MODULE MCAgentTree ------------------------------
(***************************************************************************)
(* Values for the constants of AgentTree: grant sets that are comparable   *)
(* in every way the order has, and one tool per kind of use.               *)
(***************************************************************************)
EXTENDS AgentTree

Relative(parts) == [absolute |-> FALSE, parts |-> parts]
Read(paths) == [kind |-> "FsRead", scope |-> paths]
Write(paths) == [kind |-> "FsWrite", scope |-> paths]
Run(programs) == [kind |-> "Exec", scope |-> programs]
Pay(limit) == [kind |-> "Spend", scope |-> limit]
Use(all, tools) ==
  [kind |-> "Mcp", scope |-> [server |-> "a", tools |-> [all |-> all, names |-> tools]]]

Workspace == Relative(<<>>)
Etc == [absolute |-> TRUE, parts |-> <<"a">>]

SomeNames == {"a", "b"}
SomeGrants == {
  {Read({Filesystem}), Pay(3)},
  {Write({Workspace})},
  {Read({Relative(<<"a">>), Etc}), Run({"a"})},
  {Read({Relative(<<"a", "b">>)})},
  {Run({"a", "b"}), Use(TRUE, {}), Pay(5)},
  {Run({"a"}), Use(FALSE, {"b"}), Pay(4)},
  {Use(TRUE, {})}}
SomeWanted == {
  Read({Relative(<<"a", "b">>)}), Read({Etc}), Read({Workspace}), Write({Relative(<<"a">>)}),
  Run({"a"}), Run({"b"}), Use(FALSE, {"a"}), Use(FALSE, {"b"}), Use(TRUE, {}),
  Pay(3), Pay(5), [kind |-> "NetEgress", scope |-> "a"]}
================================================================================
