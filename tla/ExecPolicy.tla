----------------------------- MODULE ExecPolicy -----------------------------
(***************************************************************************)
(* Which argv exec may run and with which environment:                     *)
(* internal/exec/policy.go, env.go, denybase/denybase.go.                  *)
(*                                                                         *)
(* A word of argv is compared, lowered, cut to its last path element or    *)
(* looked at for a prefix or a pattern; the constants below give the       *)
(* outcome for the words in use.  A pattern that may run over several      *)
(* words (awk's "system(", sed's s///e) is looked for in each word.  The   *)
(* text of a denial is left out, its layer is kept.                        *)
(***************************************************************************)
EXTENDS Naturals, Sequences, FiniteSets

CONSTANTS
    Word,   \* the words argv is made of
    Lower,  \* [Word -> Word]: strings.ToLower
    Base,   \* [Word -> Word]: filepath.Base, lowered
    Marks   \* the prefixes and patterns a word, or the name of an environment
            \* variable, has: strings.HasPrefix, regexp

ASSUME PolicyAssumption == Lower \in [Word -> Word] /\ Base \in [Word -> Word]

Scopes == {"read-only", "investigate", "freeform"}
Layers == {"deny_layer_a", "deny_layer_b", "deny_layer_c"}

Marked(words, marks) == \E w \in words : Marks[w] \intersect marks # {}

(* The words of argv from place i on, lowered.                             *)
WordsFrom(argv, i) == {Lower[argv[j]] : j \in i..Len(argv)}

-----------------------------------------------------------------------------
(* denyMatch: layer A, programs that run anything.                         *)

HardDenied ==
    {"bash", "sh", "zsh", "dash", "fish", "ksh", "csh", "tcsh", "ash", "mksh", "busybox", "toybox",
     "gdb", "lldb", "radare2", "r2", "sqlite3", "psql", "mysql", "mariadb", "redis-cli", "mongo",
     "mongosh", "vim", "vi", "nvim", "emacs", "ex", "view", "nano", "python", "python2", "python3",
     "ipython", "node", "nodejs", "deno", "bun", "perl", "ruby", "lua", "php", "script", "expect",
     "osascript", "crontab", "at", "batch", "launchctl", "systemctl", "systemd-run", "service",
     "ssh", "scp", "rsync", "telnet", "nc", "ncat", "socat", "mosh", "make", "gmake", "cmake",
     "tar", "gtar", "bsdtar", "open", "xdg-open", "xargs"}

OptedOut(name, cfg) ==
    /\ cfg.scope = "freeform" /\ cfg.allowDenyOptOut
    /\ name \in cfg.denyOptOut

LayerA(argv, cfg) == Base[argv[1]] \in HardDenied /\ ~ OptedOut(Base[argv[1]], cfg)

(* Layer B: subcommands that change something, per program.                *)
KubectlVerbs ==
    {"exec", "cp", "port-forward", "debug", "attach", "run", "delete", "patch", "apply",
     "replace", "edit", "scale", "cordon", "drain", "uncordon", "annotate", "label",
     "create", "set", "expose"}

Third(argv, words) == Len(argv) >= 3 /\ Lower[argv[3]] \in words

KubectlDenied(argv) ==
    LET verb == Lower[argv[2]]
    IN  \/ verb \in KubectlVerbs
        \/ verb = "auth" /\ Third(argv, {"reconcile"})
        \/ verb = "rollout" /\ Third(argv, {"undo", "restart", "pause", "resume"})
        \/ verb \in {"get", "describe"}
           /\ \E w \in WordsFrom(argv, 3) : "-" \notin Marks[w] /\ "secret" \in Marks[w]
        \/ verb = "logs" /\ WordsFrom(argv, 3) \intersect {"--follow", "-f"} # {}

GitDenied(argv) ==
    \/ Marked(WordsFrom(argv, 2), {"--exec-path="})
    \/ \E i \in 2..(Len(argv) - 1) :
          Lower[argv[i]] = "-c" /\ Marked({Lower[argv[i + 1]]}, {"alias-shell", "core.sshcommand="})

LayerB(argv) ==
    LET base == Base[argv[1]]
        verb == Lower[argv[2]]
        rest == WordsFrom(argv, 2)
    IN  /\ Len(argv) >= 2
        /\ \/ base = "kubectl" /\ KubectlDenied(argv)
           \/ base = "helm"
              /\ verb \in {"upgrade", "rollback", "uninstall", "install", "delete", "push"}
           \/ base = "aws" /\ verb = "s3" /\ Third(argv, {"cp", "mv", "rm", "sync"})
           \/ base = "aws"
              /\ Marked(rest, {"delete-", "create-", "put-", "update-", "attach-", "detach-"})
           \/ base \in {"gcloud", "az"}
              /\ \/ rest \intersect {"delete", "create", "update", "start", "stop"} # {}
                 \/ Marked(rest, {"set-", "add-", "remove-"})
           \/ base = "git" /\ GitDenied(argv)
           \/ base = "docker"
              /\ verb \in {"run", "exec", "cp", "rm", "rmi", "kill", "stop", "restart"}
           \/ base = "env"
           \/ base = "find" /\ rest \intersect {"-exec", "-delete", "-fprintf"} # {}
           \/ base = "xargs"
              /\ \E w \in rest : "-" \notin Marks[w] \/ Marked({w}, {"-i", "--replace"})
           \/ base = "awk" /\ Marked({argv[i] : i \in 2..Len(argv)}, {"system("})
           \/ base = "sed" /\ Marked({argv[i] : i \in 2..Len(argv)}, {"--eval-stdin", "s///e"})

(* Layer C: flags that hand a command to another program, or send data.    *)
LayerC(argv) ==
    LET words == {argv[i] : i \in 1..Len(argv)}
    IN  \/ Marked(words, {"dispatch-flag"})
        \/ Base[argv[1]] \in {"curl", "wget"} /\ Marked(words, {"upload-flag"})

DenyMatch(argv, cfg) ==
    IF LayerA(argv, cfg) THEN "deny_layer_a"
    ELSE IF LayerB(argv) THEN "deny_layer_b"
    ELSE IF LayerC(argv) THEN "deny_layer_c"
    ELSE ""

-----------------------------------------------------------------------------
(* Allow-lists.  An entry gives each place of argv the words it accepts;   *)
(* "tail" lets more words follow.                                          *)

Entry(name, elements, tail) == [name |-> name, elements |-> elements, tail |-> tail, jq |-> FALSE]

(* jqStdinOnly: flags, --arg with its two words, and exactly one filter.   *)
JqFlags ==
    {"--null-input", "-n", "--slurp", "-s", "--raw-input", "-R", "--raw-output", "-r",
     "--compact-output", "-c", "--tab", "-t", "--sort-keys", "-S", "--ascii-output", "-a",
     "-e", "--exit-status", "-j", "--join-output"}

JqStdinOnly(argv) ==
    LET n == Len(argv)
        filters[i \in 2..(n + 1)] ==
            IF i > n THEN {}
            ELSE IF argv[i] \in JqFlags THEN filters[i + 1]
            ELSE IF argv[i] \in {"--arg", "--argjson"}
                 THEN IF i + 2 > n THEN {0} ELSE filters[i + 3]
            ELSE {i} \union filters[i + 1]
    IN  /\ n >= 2 /\ argv[1] = "jq"
        /\ \E i \in 2..n : filters[2] = {i} /\ "jq-filter" \in Marks[argv[i]]

MatchAllow(ent, argv) ==
    IF ent.jq THEN JqStdinOnly(argv)
    ELSE /\ Len(argv) >= Len(ent.elements)
         /\ ent.tail \/ Len(argv) = Len(ent.elements)
         /\ \A i \in 1..Len(ent.elements) : argv[i] \in ent.elements[i]

ReadVerbs ==
    {"get", "describe", "logs", "events", "top", "version", "api-resources", "api-versions",
     "explain", "cluster-info", "auth"}

BaselineReadOnly ==
    <<Entry("baseline:kubectl-readonly", <<{"kubectl"}, ReadVerbs>>, TRUE),
      Entry("baseline:dig", <<{"dig"}>>, TRUE),
      Entry("baseline:nslookup", <<{"nslookup"}>>, TRUE),
      Entry("baseline:host", <<{"host"}>>, TRUE),
      [Entry("baseline:jq-stdin", <<>>, TRUE) EXCEPT !.jq = TRUE],
      Entry("baseline:echo", <<{"echo"}>>, TRUE),
      Entry("baseline:date", <<{"date"}>>, TRUE),
      Entry("baseline:env", <<{"env"}>>, FALSE)>>

InvestigateEntries ==
    <<Entry("baseline:kubectl-investigate",
            <<{"kubectl"}, ReadVerbs \union {"rollout", "config", "diff"}>>, TRUE),
      Entry("baseline:helm-read",
            <<{"helm"}, {"get", "list", "history", "show", "status", "env", "version", "template"}>>, TRUE),
      Entry("baseline:aws-read",
            <<{"aws"}, {"s3", "ec2", "iam", "sts", "logs", "cloudwatch"}
                       \union {w \in Word : Marked({w}, {"describe", "get", "list"})}>>, TRUE),
      Entry("baseline:gcloud-read",
            <<{"gcloud"}, Word, {"describe", "list", "export"} \union {w \in Word : Marked({w}, {"get-"})}>>, TRUE),
      Entry("baseline:az-read", <<{"az"}, Word, {"show", "list", "export"}>>, TRUE),
      Entry("baseline:docker-read",
            <<{"docker"}, {"ps", "images", "inspect", "logs", "history", "version", "info", "top",
                           "stats", "events"}>>, TRUE),
      Entry("baseline:git-read",
            <<{"git"}, {"log", "show", "diff", "status", "branch", "ls-files", "ls-tree", "cat-file",
                        "rev-parse"}>>, TRUE),
      Entry("baseline:network-read", <<{"ping", "traceroute", "mtr", "netstat", "ss", "lsof"}>>, TRUE),
      Entry("baseline:file-readers", <<{"cat", "head", "tail", "less", "more", "grep", "awk", "sed"}>>, TRUE)>>

BaselineInvestigate == BaselineReadOnly \o InvestigateEntries

NamesOf(list) == {list[i].name : i \in DOMAIN list}
BaselineNames == NamesOf(BaselineReadOnly) \union NamesOf(InvestigateEntries)

BaselineAllow(scope) ==
    CASE scope = "investigate" -> BaselineInvestigate
      [] scope = "freeform" -> <<>>
      [] OTHER -> BaselineReadOnly

-----------------------------------------------------------------------------
(* EvaluatePolicy: a denial comes before every allow-list; the first entry *)
(* that matches names the permission.                                      *)

Refused(class) == [allowed |-> FALSE, match |-> "", class |-> class]
Permitted(name) == [allowed |-> TRUE, match |-> name, class |-> ""]

AllowList(cfg) == BaselineAllow(cfg.scope) \o cfg.allow
Hits(argv, cfg) == {i \in DOMAIN AllowList(cfg) : MatchAllow(AllowList(cfg)[i], argv)}

FirstHit(argv, cfg) ==
    LET first == CHOOSE i \in Hits(argv, cfg) : \A j \in Hits(argv, cfg) : i <= j
        name == AllowList(cfg)[first].name
    IN  Permitted(IF name = "" THEN "project" ELSE name)

(* A mutant: an entry that matches comes before a denial.                  *)
EvaluatePolicyAllowFirst(argv, cfg) ==
    IF Hits(argv, cfg) # {} THEN FirstHit(argv, cfg)
    ELSE IF DenyMatch(argv, cfg) # "" THEN Refused(DenyMatch(argv, cfg))
    ELSE IF cfg.scope = "freeform" /\ AllowList(cfg) = <<>> THEN Permitted("")
    ELSE Refused("not_in_allow_list")

EvaluatePolicy(argv, cfg) ==
    IF DenyMatch(argv, cfg) # "" THEN Refused(DenyMatch(argv, cfg))
    ELSE IF cfg.scope = "freeform" /\ AllowList(cfg) = <<>> THEN Permitted("")
    ELSE IF Hits(argv, cfg) = {} THEN Refused("not_in_allow_list")
    ELSE FirstHit(argv, cfg)

-----------------------------------------------------------------------------
(* BuildEnv: the variables of the parent a child inherits.                 *)

BaselineEnv(scope) ==
    {"PATH", "HOME", "USER", "LOGNAME", "TMPDIR", "LANG", "TERM", "KUBECONFIG", "AWS_PROFILE",
     "AWS_REGION", "AWS_DEFAULT_REGION", "AWS_CONFIG_FILE", "AWS_SHARED_CREDENTIALS_FILE",
     "GOOGLE_APPLICATION_CREDENTIALS", "CLOUDSDK_CONFIG", "CLOUDSDK_CORE_PROJECT",
     "GOOGLE_CLOUD_PROJECT", "AZURE_CONFIG_DIR", "AZURE_TENANT_ID", "AZURE_SUBSCRIPTION_ID",
     "HELM_CACHE_HOME", "HELM_CONFIG_HOME", "HELM_DATA_HOME", "HELM_NAMESPACE",
     "HELM_KUBECONTEXT", "HTTP_PROXY", "HTTPS_PROXY", "NO_PROXY", "http_proxy", "https_proxy",
     "no_proxy"}
    \union IF scope = "read-only" THEN {}
           ELSE {"SSH_AUTH_SOCK", "XDG_CONFIG_HOME", "XDG_DATA_HOME", "XDG_CACHE_HOME",
                 "DOCKER_HOST", "DOCKER_CONFIG", "DOCKER_CERT_PATH"}

HardDenyEnv ==
    {"BASH_ENV", "ENV", "ZDOTDIR", "SHELLOPTS", "BASHOPTS", "FPATH", "LD_PRELOAD",
     "LD_LIBRARY_PATH", "DYLD_INSERT_LIBRARIES", "DYLD_LIBRARY_PATH", "DYLD_FRAMEWORK_PATH",
     "DYLD_FALLBACK_LIBRARY_PATH", "DYLD_FALLBACK_FRAMEWORK_PATH", "PYTHONPATH", "PYTHONSTARTUP",
     "PYTHONHOME", "NODE_PATH", "NODE_OPTIONS", "RUBYOPT", "RUBYLIB", "PERL5OPT", "PERL5LIB",
     "JAVA_TOOL_OPTIONS", "_JAVA_OPTIONS", "JDK_JAVA_OPTIONS", "GIT_SSH_COMMAND", "GIT_SSH",
     "GIT_ASKPASS", "SSH_ASKPASS", "GIT_EXTERNAL_DIFF", "GIT_PAGER", "KUBECTL_EXTERNAL_DIFF",
     "KUBE_EDITOR", "EDITOR", "VISUAL", "PAGER", "LESS", "LESSOPEN", "LESSCLOSE", "MANPAGER",
     "CURL_HOME", "NETRC", "WGETRC"}

(* Mutant of BuildEnv: the config's list comes before the hard denials.    *)
BuildEnvAllowFirst(scope, cfg, environ) ==
    LET denied(v) == v \in HardDenyEnv \/ Marks[v] \intersect {"BASH_FUNC_", "GIT_CONFIG_"} # {}
        allowed == (BaselineEnv(scope) \union cfg.envAllow) \ cfg.envDeny
    IN  {v \in environ : v \in allowed \/ (~ denied(v) /\ "LC_" \in Marks[v])}

BuildEnv(scope, cfg, environ) ==
    LET denied(v) == v \in HardDenyEnv \/ Marks[v] \intersect {"BASH_FUNC_", "GIT_CONFIG_"} # {}
        allowed == (BaselineEnv(scope) \union cfg.envAllow) \ cfg.envDeny
    IN  {v \in environ : ~ denied(v) /\ (v \in allowed \/ "LC_" \in Marks[v])}
=============================================================================
