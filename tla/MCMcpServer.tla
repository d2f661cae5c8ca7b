---------------------------- MODULE MCMcpServer -----------------------------
(* Two calls at a time, of every tool and every kind of refusal, and two   *)
(* values of a type, so that a list of one, the default here and the       *)
(* greatest, lacks one of them.                                            *)
EXTENDS McpServer

CONSTANTS u, v

MCTypeOf == [x \in Values |-> "ip"]

Request(tool, problem, values, type, limit) ==
    [tool |-> tool, problem |-> problem, values |-> values, type |-> type, limit |-> limit]

Masks == Request("mask_text", "none", {u}, "any", 0)
Runs == Request("exec", "none", {}, "any", 0)
Lists(type, limit) == Request("resource:mapping", "none", {}, type, limit)

MCRequests == <<
    {Masks, Runs, Request("mapping_stats", "none", {}, "any", 0)},
    {Masks, Runs, Lists("ip", 0), Lists("ip", 2), Lists("host", 0),
     Request("detect_text", "INPUT_TOO_LARGE", {}, "any", 0)}>>
=============================================================================
