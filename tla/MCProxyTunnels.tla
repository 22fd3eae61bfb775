--------------------------- MODULE MCProxyTunnels ---------------------------
(* Hosts and rules for ProxyTunnels: a host under a more and a less         *)
(* specific row, a subdomain, a look-alike, and rules that contradict.     *)
EXTENDS ProxyTunnels

MCHosts == {<<"com", "chatgpt", "ab">>, <<"com", "chatgpt">>, <<"com", "chatgpt2">>}

Rule(id, pattern, category, action, priority) ==
    [id |-> id, pattern |-> pattern, category |-> category, action |-> action,
     priority |-> priority, enabled |-> TRUE]

MCRules == {
    Rule("r1", [glob |-> TRUE, labels |-> <<"com", "chatgpt">>], "any", "block", 50),
    Rule("r2", [glob |-> FALSE, labels |-> <<"com", "chatgpt">>], "any", "allow", 100),
    Rule("r3", <<>>, "telemetry", "delay", 100)}
=============================================================================
