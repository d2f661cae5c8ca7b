----------------------------- MODULE MCExecCall -----------------------------
(* Two calls.  Words are chosen so that every layer of the policy, the     *)
(* namespace of kubectl, jq's flags and the environment are reached.       *)
EXTENDS ExecCall, TLC

CONSTANTS c1, c2

MCToken == {"@host", "@ns", "@shell"}

MCPlain ==
    {"kubectl", "get", "delete", "pods", "secrets", "-n", "ns/prod", "prod", "dig", "db.local",
     "bash", "-c", "/bin/Bash", "jq", "--arg", "name", ".items", "-r", "curl", "-d", "aws", "s3", "rm",
     "git", "log", "xargs"}

MCWord == MCToken \union MCPlain

MCLower == [w \in MCWord |-> IF w = "/bin/Bash" THEN "bash" ELSE w]
MCMarks ==
    [w \in MCWord \union {"PATH", "LC_ALL", "LD_PRELOAD", "VAULT_ADDR", "BASH_FUNC_f"} |->
        CASE w \in {"-n", "-c", "-d", "-r", "--arg"} -> {"-"} \union IF w = "-d" THEN {"upload-flag"} ELSE {}
          [] w = "secrets" -> {"secret"}
          [] w = ".items" -> {"jq-filter"}
          [] w = "LC_ALL" -> {"LC_"}
          [] w = "BASH_FUNC_f" -> {"BASH_FUNC_"}
          [] OTHER -> {}]

MCValue == "@host" :> "db.local" @@ "@ns" :> "ns/prod" @@ "@shell" :> "bash"
MCBare == [w \in MCWord |-> IF w = "ns/prod" THEN "prod" ELSE w]
MCName == BaselineNames \union {"", "project"}
MCEnviron == {"PATH", "LC_ALL", "LD_PRELOAD", "VAULT_ADDR", "BASH_FUNC_f"}

Config(scope) ==
    [untrusted |-> FALSE, enabled |-> TRUE, scope |-> scope, allow |-> <<>>,
     allowDenyOptOut |-> FALSE, denyOptOut |-> {}, envAllow |-> {"VAULT_ADDR", "LD_PRELOAD"}, envDeny |-> {"LC_ALL"}]
Untrusted == [Config("read-only") EXCEPT !.untrusted = TRUE, !.enabled = FALSE]
Disabled == [Config("read-only") EXCEPT !.enabled = FALSE]
CurlOnly == [Config("freeform") EXCEPT !.allow = <<Entry("", <<{"curl"}>>, TRUE)>>]
BashToo == [Config("freeform") EXCEPT !.allowDenyOptOut = TRUE, !.denyOptOut = {"bash"}]

Request(source, argv, cfg) ==
    [source |-> source, argv |-> argv, timeout |-> "none", oversize |-> FALSE, cfg |-> cfg]

MCRequests ==
    {Request("cli", <<"dig", "@host">>, Config("read-only")),
     Request("mcp", <<"kubectl", "get", "-n", "@ns", "pods">>, Config("read-only")),
     Request("cli", <<"@shell", "@host">>, Config("freeform")),
     Request("cli", <<"/bin/Bash", "-c">>, BashToo),
     Request("mcp", <<"dig", "@host">>, Config("freeform")),
     Request("mcp", <<"curl", "@host">>, CurlOnly),
     Request("cli", <<"curl", "-d", "@host">>, CurlOnly),
     Request("cli", <<"jq", "-r", "--arg", "name", "@host", ".items">>, Config("read-only")),
     Request("mcp", <<"dig">>, Untrusted),
     Request("cli", <<"dig">>, Disabled),
     [Request("cli", <<"aws", "s3", "rm">>, Config("investigate")) EXCEPT !.timeout = "bad"],
     [Request("mcp", <<"dig">>, Config("read-only")) EXCEPT !.timeout = "bad"],
     [Request("hook", <<"xargs", "@host">>, Untrusted) EXCEPT !.oversize = TRUE],
     Request("hook", <<"@shell", "git", "log">>, Config("read-only"))}

MCSymmetry == Permutations({c1, c2})
=============================================================================
